------------------------ MODULE Compositions_proofs ------------------------
(***************************************************************************)
(* Proofs about the two systems built around PriimeVault, on the inductive *)
(* invariant IInv of PriimeVault_proofs.  Each has its own specification;  *)
(* no theorem speaks of both.                                              *)
(*                                                                         *)
(* NavCycle: the vault keeps its books when the plans that the cycle       *)
(* builds run on the venues, and a strike never prices the shares above    *)
(* what backs them, for every leverage, threshold, price and amount.  What *)
(* carries a price from its inputs block to the strike is that nothing but *)
(* a strike moves what backs the shares: a request brings what it adds to  *)
(* the escrow, a claim or a refund takes both away, and a repayment spends *)
(* as much as it takes off the debt.  On that invariant stand two others,  *)
(* of the plan in flight: PlanInv, that what it did so far is what the     *)
(* cycle built, on the position it was built for, so that no strike levers *)
(* the position further; and SizeInv, that what is booked and still owed   *)
(* stays below what it was sized by, so that it pays the redemptions.      *)
(*                                                                         *)
(* Subgraph: the entities account for the vault, for every number of       *)
(* accounts, blocks and events.  An invariant of the entities alone says   *)
(* nothing while a transaction runs: what is inductive is that the log of  *)
(* the transaction in flight, delivered now, would account for the vault   *)
(* as it is, and the log that a revert would leave for the vault that the  *)
(* revert would restore.                                                   *)
(***************************************************************************)
EXTENDS NavCycle, Subgraph, PriimeVault_proofs, SequenceTheorems

(***************************************************************************)
(* NavCycle                                                                *)
(***************************************************************************)

States == [known : {TRUE}, collateral : Nat, debt : Nat, price : Nat \ {0}, balance : Nat,
           pendingDeposit : Nat, claimableRedeem : Nat, pendingRedeemShares : Nat,
           supply : Nat, refundable : Nat]

PlanSteps == [op : {"approve"}]
             \cup [op : {"supply"}, in : Nat]
             \cup [op : {"borrow", "withdraw"}, out : Nat]
             \cup [op : {"swapIn", "swapOut"}, in : Nat, min : Nat]
             \cup [op : {"flashLoan"}, repay : Nat, out : Nat, min : Nat]

\* Types.
CycleTypes ==
    /\ collateral \in Nat /\ debt \in Nat /\ usde \in Nat /\ price \in Nat \ {0}
    /\ savedVenue \in Nat \X Nat \X Nat
    /\ plan \in Seq(PlanSteps)
    /\ history \in [1 .. MaxBlock -> States \cup {NoState}]
    /\ read \in States \cup {NoState} /\ (phase = "deposits" => read \in States)
    /\ landed \in Nat /\ fresh \in BOOLEAN

\* A block that may be attested has ended, and a strike lands in the present block.
BlocksEnded ==
    /\ \A b \in 1 .. MaxBlock : history[b].known => b < block
    /\ landed <= block /\ (~Idle => landed = block)

\* What is left for the shares when the escrow and the debt are met, collateral aside.
Backing == usdc - EscrowFloorAmount - debt

BackingAt(s) == s.balance - Floor(s) - s.refundable - s.debt

\* A block read after the last strike shows what backs the shares now.
BackingKept ==
    \A b \in 1 .. MaxBlock :
        history[b].known /\ b >= landed =>
            history[b].collateral = collateral /\ BackingAt(history[b]) = Backing

\* The property, at every deposit the strike settles.
Priced == phase = "deposits" /\ fresh => nav <= Worth + read.refundable + Overlooked(read)

CycleInv == IInv /\ CycleTypes /\ BlocksEnded /\ BackingKept /\ Priced

-----------------------------------------------------------------------------
(* Arithmetic                                                              *)

LEMMA QuotientIsNat ==
    ASSUME NEW n \in Nat, NEW k \in Nat \ {0}
    PROVE  n \div k \in Nat
OBVIOUS

LEMMA ProductIsNat ==
    ASSUME NEW m \in Nat, NEW n \in Nat
    PROVE  m * n \in Nat
OBVIOUS

LEMMA MaxOfTwo ==
    ASSUME NEW m \in Int, NEW n \in Int
    PROVE  Max({m, n}) = IF m >= n THEN m ELSE n
<1> DEFINE x == IF m >= n THEN m ELSE n
<1>1. x \in {m, n} /\ \A y \in {m, n} : x >= y
    OBVIOUS
<1>2. \A z \in {m, n} : (\A y \in {m, n} : z >= y) => z = x
    OBVIOUS
<1> QED BY <1>1, <1>2 DEF Max

LEMMA MinOfTwo ==
    ASSUME NEW m \in Int, NEW n \in Int
    PROVE  Min({m, n}) = IF m <= n THEN m ELSE n
<1> DEFINE x == IF m <= n THEN m ELSE n
<1>1. x \in {m, n} /\ \A y \in {m, n} : x <= y
    OBVIOUS
<1>2. \A z \in {m, n} : (\A y \in {m, n} : z <= y) => z = x
    OBVIOUS
<1> QED BY <1>1, <1>2 DEF Min

\* A share of an amount, in bps, is no more than the amount.
LEMMA ShareOfAmount ==
    ASSUME NEW n \in Nat, NEW k \in 0 .. Par
    PROVE  (n * k) \div Par \in Nat /\ (n * k) \div Par <= n
<1> DEFINE part == n * k
<1>1. part \in Nat /\ part <= n * 10000
    BY DEF Par
<1> HIDE DEF part
<1>2. part \div 10000 \in Nat /\ part \div 10000 <= n
    BY <1>1
<1> QED BY <1>2 DEF Par, part

-----------------------------------------------------------------------------
(* What a cycle computes                                                   *)

\* The amounts a cycle reads and derives are naturals.
LEMMA ReadAmounts ==
    ASSUME NEW s \in States
    PROVE  /\ s.collateral \in Nat /\ s.debt \in Nat /\ s.price \in Nat \ {0} /\ s.balance \in Nat
           /\ s.pendingDeposit \in Nat /\ s.claimableRedeem \in Nat
           /\ s.pendingRedeemShares \in Nat /\ s.supply \in Nat /\ s.refundable \in Nat
           /\ Floor(s) \in Nat /\ PricedCollateral(s) \in Nat
<1>1. /\ s.collateral \in Nat /\ s.debt \in Nat /\ s.price \in Nat \ {0} /\ s.balance \in Nat
      /\ s.pendingDeposit \in Nat /\ s.claimableRedeem \in Nat
      /\ s.pendingRedeemShares \in Nat /\ s.supply \in Nat /\ s.refundable \in Nat
    BY DEF States
<1>2. Floor(s) \in Nat
    BY <1>1 DEF Floor
<1>3. Min({s.price, Par}) \in Nat
    BY <1>1, MinOfTwo DEF Par
<1>4. s.collateral * Min({s.price, Par}) \in Nat
    BY <1>1, <1>3, ProductIsNat
<1>5. PricedCollateral(s) \in Nat
    BY <1>4, QuotientIsNat DEF PricedCollateral, Par
<1> QED BY <1>1, <1>2, <1>5

\* An attested NAV is a natural, and is not above what the reads say is there.
LEMMA AttestedNavBound ==
    ASSUME NEW s \in States
    PROVE  /\ AttestedNav(s) \in Nat
           /\ LET there == PricedCollateral(s) + s.balance - Floor(s) - s.debt
              IN  AttestedNav(s) <= IF there >= 0 THEN there ELSE 0
<1> DEFINE pc == PricedCollateral(s)
           kept == pc \div 200
           there == pc + s.balance - Floor(s) - s.debt
           raw == (pc + s.balance - Floor(s)) - (s.debt + kept)
<1>1. pc \in Nat /\ s.balance \in Nat /\ Floor(s) \in Nat /\ s.debt \in Nat
    BY ReadAmounts
<1>2. kept \in Nat
    BY <1>1, QuotientIsNat
<1>3. NavUsdc(s) = Max({raw, 0})
    BY <1>1 DEF NavUsdc
<1> HIDE DEF pc, kept
<1>4. raw \in Int /\ there \in Int /\ raw <= there
    BY <1>1, <1>2
<1> HIDE DEF raw
<1>5. NavUsdc(s) = IF raw >= 0 THEN raw ELSE 0
    BY <1>3, <1>4, MaxOfTwo
<1>6. NavUsdc(s) \in Nat /\ NavUsdc(s) <= IF there >= 0 THEN there ELSE 0
    BY <1>4, <1>5
<1>7. Par - Haircut \in 0 .. Par
    BY NavAssumption DEF Par
<1>8. AttestedNav(s) \in Nat /\ AttestedNav(s) <= NavUsdc(s)
    BY <1>6, <1>7, ShareOfAmount DEF AttestedNav
<1>9. AttestedNav(s) <= IF there >= 0 THEN there ELSE 0
    BY <1>4, <1>6, <1>8
<1> QED BY <1>8, <1>9 DEF pc

LEMMA ToleratedIsNat ==
    ASSUME NEW n \in Nat
    PROVE  Tolerated(n) \in Nat
BY ProductIsNat, QuotientIsNat DEF Tolerated, Par

LEMMA ConvertedIsNat ==
    ASSUME NEW n \in Nat, NEW twap \in Nat \ {0}
    PROVE  UsdcFor(n, twap) \in Nat /\ UsdeFor(n, twap) \in Nat
<1>1. n * twap \in Nat /\ n * Par \in Nat
    BY ProductIsNat DEF Par
<1> QED BY <1>1, QuotientIsNat DEF UsdcFor, UsdeFor, Par

LEMMA ShortfallIsNat ==
    ASSUME NEW s \in States
    PROVE  RedeemShortfall(s) \in Nat
<1>1. AttestedNav(s) \in Nat
    BY AttestedNavBound
<1>2. /\ s.pendingDeposit \in Nat /\ s.claimableRedeem \in Nat /\ s.balance \in Nat
      /\ s.pendingRedeemShares \in Nat /\ s.supply \in Nat
    BY ReadAmounts
<1>3. RedeemAssetsOut(s) \in Nat
    <2>1. CASE s.supply = 0
        BY <2>1 DEF RedeemAssetsOut
    <2>2. CASE s.supply # 0
        <3>1. s.pendingRedeemShares * (AttestedNav(s) + s.pendingDeposit) \in Nat
            BY <1>1, <1>2, ProductIsNat
        <3> QED BY <1>2, <2>2, <3>1, QuotientIsNat DEF RedeemAssetsOut
    <2> QED BY <2>1, <2>2
<1> DEFINE short == s.claimableRedeem + RedeemAssetsOut(s) - s.balance
<1>4. short \in Int
    BY <1>2, <1>3
<1>5. Max({short, 0}) \in Nat
    BY <1>4, MaxOfTwo
<1> QED BY <1>2, <1>3, <1>5 DEF RedeemShortfall

\* The deleverage is built only where the collateral is worth more than the debt.
LEMMA DeleverageSteps ==
    ASSUME NEW s \in States, PricedCollateral(s) > s.debt
    PROVE  PlanDeleverage(s) \in Seq(PlanSteps)
<1> DEFINE equity == PricedCollateral(s) - s.debt
           target == RedeemShortfall(s) + (RedeemShortfall(s) * Cushion(equity, s)) \div Par
           part == Min({target, equity})
           out == (s.collateral * part) \div equity
           repay == (s.debt * part) \div equity
           min == Tolerated(UsdcFor(out, s.price))
<1>1. /\ s.collateral \in Nat /\ s.debt \in Nat /\ s.price \in Nat \ {0}
      /\ PricedCollateral(s) \in Nat /\ RedeemShortfall(s) \in Nat
    BY ReadAmounts, ShortfallIsNat
<1>2. equity \in Nat \ {0}
    BY <1>1
<1> HIDE DEF equity
<1>3. Cushion(equity, s) \in Nat
    <2>1. PricedCollateral(s) * Par \in Nat
        BY <1>1, ProductIsNat DEF Par
    <2>2. (PricedCollateral(s) * Par) \div equity \in Nat
        BY <1>2, <2>1, QuotientIsNat
    <2>3. 60 * ((PricedCollateral(s) * Par) \div equity) \in Nat
        BY <2>2, ProductIsNat
    <2> QED BY <2>3, QuotientIsNat DEF Cushion, Par
<1>4. RedeemShortfall(s) * Cushion(equity, s) \in Nat
    BY <1>1, <1>3, ProductIsNat
<1>5. target \in Nat
    BY <1>1, <1>4, QuotientIsNat DEF Par
<1> HIDE DEF target
<1>6. part \in Nat
    BY <1>2, <1>5, MinOfTwo
<1> HIDE DEF part
<1>7. s.collateral * part \in Nat /\ s.debt * part \in Nat
    BY <1>1, <1>6, ProductIsNat
<1>8. out \in Nat /\ repay \in Nat
    BY <1>2, <1>7, QuotientIsNat
<1> HIDE DEF out, repay
<1>9. min \in Nat
    BY <1>1, <1>8, ConvertedIsNat, ToleratedIsNat
<1> HIDE DEF min
<1>10. PlanDeleverage(s) = <<[op |-> "flashLoan", repay |-> repay, out |-> out, min |-> min]>>
    BY <1>1 DEF PlanDeleverage, equity, target, part, out, repay, min
<1>11. [op |-> "flashLoan", repay |-> repay, out |-> out, min |-> min] \in PlanSteps
    BY <1>8, <1>9 DEF PlanSteps
<1> QED BY <1>10, <1>11

LEMMA RedeemCollateralSteps ==
    ASSUME NEW s \in States
    PROVE  PlanRedeemCollateral(s) \in Seq(PlanSteps)
<1> DEFINE short == RedeemShortfall(s)
           target == short + short \div 100
           wanted == UsdeFor((target * Par) \div 9950, s.price)
           out == Min({wanted, s.collateral})
           min == Tolerated(UsdcFor(out, s.price))
<1>1. s.collateral \in Nat /\ s.price \in Nat \ {0} /\ short \in Nat
    BY ReadAmounts, ShortfallIsNat
<1>2. target \in Nat
    BY <1>1, QuotientIsNat
<1> HIDE DEF target
<1>3. target * Par \in Nat
    BY <1>2, ProductIsNat DEF Par
<1>4. (target * Par) \div 9950 \in Nat
    BY <1>3, QuotientIsNat
<1>5. wanted \in Nat
    BY <1>1, <1>4, ConvertedIsNat
<1> HIDE DEF wanted
<1>6. out \in Nat
    BY <1>1, <1>5, MinOfTwo
<1> HIDE DEF out
<1>7. min \in Nat
    BY <1>1, <1>6, ConvertedIsNat, ToleratedIsNat
<1> HIDE DEF min
<1>8. /\ [op |-> "withdraw", out |-> out] \in PlanSteps /\ [op |-> "approve"] \in PlanSteps
      /\ [op |-> "swapOut", in |-> out, min |-> min] \in PlanSteps
    BY <1>6, <1>7 DEF PlanSteps
<1>9. PlanRedeemCollateral(s) = IF out = 0 THEN Empty
                                ELSE <<[op |-> "withdraw", out |-> out], [op |-> "approve"],
                                       [op |-> "swapOut", in |-> out, min |-> min]>>
    BY <1>1 DEF PlanRedeemCollateral, target, wanted, out, min
<1> QED BY <1>8, <1>9 DEF Empty

LEMMA OpenPositionSteps ==
    ASSUME NEW s \in States, Leverage > Par
    PROVE  PlanOpenPosition(s) \in Seq(PlanSteps)
<1> DEFINE usable == Min({AttestedNav(s), s.balance})
           deployed == (usable * 99) \div 100
           supplied == Tolerated(UsdeFor(deployed, s.price))
           opens == <<[op |-> "approve"], [op |-> "swapIn", in |-> deployed, min |-> supplied],
                      [op |-> "approve"], [op |-> "supply", in |-> supplied]>>
           borrows == <<[op |-> "borrow", out |-> Borrowed(supplied)]>>
<1>1. s.balance \in Nat /\ s.price \in Nat \ {0} /\ AttestedNav(s) \in Nat
    BY ReadAmounts, AttestedNavBound
<1>2. usable \in Nat
    BY <1>1, MinOfTwo
<1> HIDE DEF usable
<1>3. usable * 99 \in Nat
    BY <1>2, ProductIsNat
<1>4. deployed \in Nat
    BY <1>3, QuotientIsNat
<1> HIDE DEF deployed
<1>5. supplied \in Nat
    BY <1>1, <1>4, ConvertedIsNat, ToleratedIsNat
<1> HIDE DEF supplied
<1>6. Borrowed(supplied) \in Nat
    <2>1. Leverage \in Nat \ {0} /\ Leverage - Par \in Nat
        BY NavAssumption DEF Par
    <2>2. supplied * (Leverage - Par) \in Nat
        BY <1>5, <2>1, ProductIsNat
    <2> QED BY <2>1, <2>2, QuotientIsNat DEF Borrowed
<1>7. /\ [op |-> "approve"] \in PlanSteps /\ [op |-> "supply", in |-> supplied] \in PlanSteps
      /\ [op |-> "swapIn", in |-> deployed, min |-> supplied] \in PlanSteps
      /\ [op |-> "borrow", out |-> Borrowed(supplied)] \in PlanSteps
    BY <1>4, <1>5, <1>6 DEF PlanSteps
<1>8. opens \in Seq(PlanSteps) /\ borrows \in Seq(PlanSteps) /\ <<>> \in Seq(PlanSteps)
    BY <1>7
<1> HIDE DEF opens, borrows
<1>9. PlanOpenPosition(s) = IF deployed < OneUsdc THEN Empty
                            ELSE opens \o IF Borrowed(supplied) = 0 THEN <<>> ELSE borrows
    BY <1>1 DEF PlanOpenPosition, usable, deployed, supplied, opens, borrows
<1> QED BY <1>8, <1>9 DEF Empty

\* Every plan a cycle builds is a sequence of such steps.
LEMMA PlanIsSteps ==
    ASSUME NEW s \in States
    PROVE  CyclePlan(s) \in Seq(PlanSteps)
<1>1. Empty \in Seq(PlanSteps)
    BY DEF Empty
<1>2. s.debt \in Nat /\ PricedCollateral(s) \in Nat /\ s.collateral \in Nat
      /\ RedeemShortfall(s) \in Nat
    BY ReadAmounts, ShortfallIsNat
<1>3. CASE RedeemShortfall(s) # 0 /\ s.debt # 0
    <2>1. BuildActionPlan(s) = IF PricedCollateral(s) <= s.debt THEN Empty ELSE PlanDeleverage(s)
        BY <1>3 DEF BuildActionPlan
    <2> QED BY <1>1, <1>2, <2>1, DeleverageSteps DEF CyclePlan
<1>4. CASE RedeemShortfall(s) # 0 /\ s.debt = 0 /\ s.collateral # 0
    <2>1. BuildActionPlan(s) = PlanRedeemCollateral(s)
        BY <1>4 DEF BuildActionPlan
    <2> QED BY <1>1, <2>1, RedeemCollateralSteps DEF CyclePlan
<1>5. CASE RedeemShortfall(s) = 0 \/ (s.debt = 0 /\ s.collateral = 0)
    <2>1. BuildActionPlan(s) = IF s.pendingRedeemShares # 0 \/ Leverage <= Par \/ s.debt # 0
                               THEN Empty ELSE PlanOpenPosition(s)
        BY <1>5 DEF BuildActionPlan
    <2>2. ~(Leverage <= Par) => Leverage > Par
        BY NavAssumption DEF Par
    <2> QED BY <1>1, <2>1, <2>2, OpenPositionSteps DEF CyclePlan
<1> QED BY <1>3, <1>4, <1>5

-----------------------------------------------------------------------------
(* Frames                                                                  *)

\* The amounts of the vault that back its shares are naturals.
LEMMA VaultAmounts ==
    ASSUME CycleInv
    PROVE  /\ usdc \in Nat /\ nav \in Nat /\ block \in Nat /\ totalSupply \in Nat
           /\ totalPendingDepositAssets \in Nat /\ totalClaimableRedeemAssets \in Nat
           /\ totalRefundableDepositAssets \in Nat /\ totalPendingRedeemShares \in Nat
           /\ EscrowFloorAmount \in Nat
           /\ collateral \in Nat /\ debt \in Nat /\ usde \in Nat
<1>1. /\ usdc \in Nat /\ nav \in Nat /\ block \in Nat /\ totalSupply \in Nat
      /\ totalPendingDepositAssets \in Nat /\ totalClaimableRedeemAssets \in Nat
      /\ totalRefundableDepositAssets \in Nat /\ totalPendingRedeemShares \in Nat
    BY DEF CycleInv, IInv, TypeOK, AttestTypes, DepositTypes, RedeemTypes, TokenTypes
<1>2. collateral \in Nat /\ debt \in Nat /\ usde \in Nat
    BY DEF CycleInv, CycleTypes
<1> QED BY <1>1, <1>2 DEF EscrowFloorAmount

\* A step that leaves the venues, the reads and the plan alone keeps their types.
LEMMA CycleTypesFrame ==
    ASSUME CycleInv, UNCHANGED <<venueVars, price, history, plan, savedVenue, strikeGhosts>>,
           phase' = "deposits" => phase = "deposits"
    PROVE  CycleTypes'
BY DEF CycleInv, CycleTypes, venueVars, strikeGhosts

\* Between strikes, a step that leaves alone what backs the shares keeps the reads true.
LEMMA QuietCycleStep ==
    ASSUME CycleInv, Idle, Idle', UNCHANGED <<block, history, landed, collateral>>,
           Backing' = Backing
    PROVE  BlocksEnded' /\ BackingKept' /\ Priced'
<1>1. BlocksEnded'
    BY DEF CycleInv, BlocksEnded
<1>2. BackingKept'
    BY DEF CycleInv, BackingKept, BackingAt, Floor
<1>3. Priced'
    BY DEF Priced, Idle
<1> QED BY <1>1, <1>2, <1>3

\* Inside a strike no block that may be attested is as late as the strike.
LEMMA InStrikeStep ==
    ASSUME CycleInv, ~Idle, UNCHANGED <<block, history, landed>>
    PROVE  BlocksEnded' /\ BackingKept'
<1>1. landed = block /\ block \in Nat /\ \A b \in 1 .. MaxBlock : history[b].known => b < block
    BY VaultAmounts DEF CycleInv, BlocksEnded
<1>2. BlocksEnded'
    BY <1>1 DEF BlocksEnded
<1>3. \A b \in 1 .. MaxBlock : ~(history'[b].known /\ b >= landed')
    BY <1>1, VaultAssumption
<1>4. BackingKept'
    BY <1>3 DEF BackingKept
<1> QED BY <1>2, <1>4

-----------------------------------------------------------------------------
(* Every action keeps the invariant                                        *)

\* What a cycle would read now is a well-formed state.
LEMMA ChainStateIsState ==
    ASSUME CycleInv
    PROVE  ChainState \in States /\ BackingAt(ChainState) = Backing
<1>1. price \in Nat \ {0}
    BY DEF CycleInv, CycleTypes
<1>2. ChainState \in States
    BY <1>1, VaultAmounts DEF ChainState, States
<1>3. BackingAt(ChainState) = Backing
    BY VaultAmounts DEF ChainState, BackingAt, Floor, Backing, EscrowFloorAmount
<1> QED BY <1>2, <1>3

\* The block that ends shows what backs the shares, the earlier ones still do.
LEMMA EndBlockStep ==
    ASSUME CycleInv, EndBlock
    PROVE  CycleInv'
<1>1. /\ Idle /\ block' = block + 1 /\ block < MaxBlock
      /\ UNCHANGED <<nav, usdc, phase, totalPendingDepositAssets, totalClaimableRedeemAssets,
                     totalRefundableDepositAssets>>
      /\ UNCHANGED <<venueVars, price, plan, savedVenue, strikeGhosts>>
    BY DEF EndBlock, NextBlock, depositVars, requestDepositVars, refundVars, redeemVars,
           claimRedeemVars, strikeVars
<1>2. IInv'
    BY EnvironmentStep DEF EndBlock, Environment, CycleInv
<1>3. /\ history' = [history EXCEPT ![block] = ChainState]
      /\ history \in [1 .. MaxBlock -> States \cup {NoState}]
      /\ block \in Nat /\ ChainState \in States /\ BackingAt(ChainState) = Backing
      /\ landed <= block /\ landed \in Nat
    BY ChainStateIsState, VaultAmounts DEF EndBlock, CycleInv, CycleTypes, BlocksEnded
<1>4. CycleTypes'
    BY <1>1, <1>3 DEF CycleInv, CycleTypes, venueVars, strikeGhosts
<1>5. ASSUME NEW b \in 1 .. MaxBlock, b # block
      PROVE  history'[b] = history[b]
    BY <1>3, <1>5
<1>6. block \in 1 .. MaxBlock => history'[block] = ChainState
    BY <1>3
<1>7. BlocksEnded'
    <2>1. ASSUME NEW b \in 1 .. MaxBlock, history'[b].known
          PROVE  b < block'
        <3>1. CASE b = block
            BY <1>1, <1>3, <3>1
        <3>2. CASE b # block
            <4>1. b < block
                BY <1>5, <2>1, <3>2 DEF CycleInv, BlocksEnded
            <4> QED BY <1>1, <1>3, <4>1, VaultAssumption
        <3> QED BY <3>1, <3>2
    <2>2. landed' <= block' /\ Idle'
        BY <1>1, <1>3 DEF strikeGhosts, Idle
    <2> QED BY <2>1, <2>2 DEF BlocksEnded
<1>8. BackingKept'
    <2>1. Backing' = Backing /\ collateral' = collateral /\ landed' = landed
        BY <1>1 DEF Backing, EscrowFloorAmount, venueVars, strikeGhosts
    <2>2. ASSUME NEW b \in 1 .. MaxBlock, history'[b].known, b >= landed'
          PROVE  history'[b].collateral = collateral' /\ BackingAt(history'[b]) = Backing'
        <3>1. CASE b = block
            <4>1. ChainState.collateral = collateral
                BY DEF ChainState
            <4> QED BY <1>3, <1>6, <2>1, <3>1, <4>1
        <3>2. CASE b # block
            BY <1>5, <2>1, <2>2, <3>2 DEF CycleInv, BackingKept
        <3> QED BY <3>1, <3>2
    <2> QED BY <2>2 DEF BackingKept, BackingAt, Floor
<1>9. Priced'
    BY <1>1 DEF Priced, Idle
<1> QED BY <1>2, <1>4, <1>7, <1>8, <1>9 DEF CycleInv

\* A price moves nothing of the vault, and a read keeps the price of its block.
LEMMA RepriceStep ==
    ASSUME CycleInv, NEW twap \in Prices, Reprice(twap)
    PROVE  CycleInv'
<1>1. /\ Idle /\ price' = twap /\ UNCHANGED <<block, usdc, phase, totalPendingDepositAssets,
                 totalClaimableRedeemAssets, totalRefundableDepositAssets>>
      /\ UNCHANGED <<venueVars, history, plan, savedVenue, strikeGhosts>> /\ UNCHANGED vars
    BY DEF Reprice, vars, attestVars, depositVars, requestDepositVars, refundVars, redeemVars,
           claimRedeemVars, strikeVars
<1>2. IInv'
    BY <1>1, StutterStep DEF CycleInv
<1>3. price' \in Nat \ {0}
    BY <1>1, NavAssumption
<1>4. CycleTypes'
    BY <1>1, <1>3 DEF CycleInv, CycleTypes, venueVars, strikeGhosts
<1>5. Idle' /\ UNCHANGED <<block, history, landed, collateral>> /\ Backing' = Backing
    BY <1>1 DEF Idle, Backing, EscrowFloorAmount, venueVars, strikeGhosts
<1> QED BY <1>1, <1>2, <1>4, <1>5, QuietCycleStep DEF CycleInv

\* A deposit request brings the USDC it reserves; a redeem request moves shares only.
LEMMA CycleRequestStep ==
    ASSUME CycleInv, CycleRequest
    PROVE  CycleInv'
<1>1. PICK account \in Accounts :
          \/ \E assets \in Amounts : requestDeposit(account, assets, account, account)
          \/ \E shares \in {shareBalance[account], shareBalance[account] \div 2} :
                requestRedeem(account, shares, account, account)
    BY DEF CycleRequest
<1>2. UNCHANGED <<venueVars, price, history, plan, savedVenue, strikeGhosts>>
    BY DEF CycleRequest
<1>3. CASE \E assets \in Amounts : requestDeposit(account, assets, account, account)
    <2>1. PICK assets \in Amounts : requestDeposit(account, assets, account, account)
        BY <1>3
    <2>2. assets \in Nat
        BY VaultAssumption
    <2>3. IInv'
        BY <2>1, <2>2, RequestDepositStep DEF CycleInv
    <2>4. /\ Idle /\ UNCHANGED <<block, phase, totalClaimableRedeemAssets,
                                 totalRefundableDepositAssets>>
          /\ usdc' = usdc + assets
          /\ totalPendingDepositAssets' = totalPendingDepositAssets + assets
        BY <2>1 DEF requestDeposit, attestVars, redeemVars, claimRedeemVars, refundVars, strikeVars
    <2>5. Backing' = Backing
        BY <1>2, <2>2, <2>4, VaultAmounts DEF Backing, EscrowFloorAmount, venueVars
    <2>6. Idle' /\ UNCHANGED <<block, history, landed, collateral>>
        BY <1>2, <2>4 DEF Idle, venueVars, strikeGhosts
    <2>7. CycleTypes'
        BY <1>2, <2>4, CycleTypesFrame DEF Idle
    <2> QED BY <2>3, <2>4, <2>5, <2>6, <2>7, QuietCycleStep DEF CycleInv
<1>4. CASE \E shares \in {shareBalance[account], shareBalance[account] \div 2} :
              requestRedeem(account, shares, account, account)
    <2>1. PICK shares \in {shareBalance[account], shareBalance[account] \div 2} :
              requestRedeem(account, shares, account, account)
        BY <1>4
    <2>2. shareBalance[account] \in Nat
        BY DEF CycleInv, IInv, TypeOK, TokenTypes, Holders
    <2>3. shares \in Nat
        BY <2>2, QuotientIsNat
    <2>4. IInv'
        BY <2>1, <2>3, RequestRedeemStep DEF CycleInv
    <2>5. /\ Idle /\ UNCHANGED <<block, phase, usdc, totalPendingDepositAssets,
                                 totalClaimableRedeemAssets, totalRefundableDepositAssets>>
        BY <2>1 DEF requestRedeem, attestVars, depositVars, requestDepositVars, refundVars,
                    claimRedeemVars, strikeVars
    <2>6. Backing' = Backing /\ Idle' /\ UNCHANGED <<block, history, landed, collateral>>
        BY <1>2, <2>5 DEF Backing, EscrowFloorAmount, Idle, venueVars, strikeGhosts
    <2>7. CycleTypes'
        BY <1>2, <2>5, CycleTypesFrame DEF Idle
    <2> QED BY <2>4, <2>5, <2>6, <2>7, QuietCycleStep DEF CycleInv
<1> QED BY <1>1, <1>3, <1>4

\* A claim takes from the vault what it takes off the escrow.
LEMMA CycleClaimStep ==
    ASSUME CycleInv, CycleClaim
    PROVE  CycleInv'
<1>1. PICK account \in Accounts :
          \/ mint(account, claimableDepositShares[account], account, account)
          \/ redeem(account, claimableRedeemShares[account], account, account)
          \/ claimDepositRefund(account, account, account)
    BY DEF CycleClaim
<1> DEFINE ds == claimableDepositShares[account]
           da == claimableDepositAssets[account]
           rs == claimableRedeemShares[account]
           ra == claimableRedeemAssets[account]
           refund == refundableDepositAssets[account]
<1>2. /\ account \in Holders /\ account # Vault /\ IInv
      /\ ds \in Nat /\ da \in Nat /\ rs \in Nat /\ ra \in Nat /\ refund \in Nat
    BY VaultAssumption DEF CycleInv, IInv, TypeOK, DepositTypes, RedeemTypes, Ledger, Holders
<1>3. UNCHANGED <<venueVars, price, history, plan, savedVenue, strikeGhosts>>
    BY DEF CycleClaim, navVars
<1>4. Claim /\ Idle /\ UNCHANGED <<block, phase>> /\ Backing' = Backing
    <2>1. CASE mint(account, ds, account, account)
        <3>1. ds \in 1 .. ds
            BY <1>2, <2>1 DEF mint
        <3>2. Claim
            BY <1>2, <2>1, <3>1 DEF Claim
        <3>3. /\ Idle /\ UNCHANGED <<block, phase, usdc, totalPendingDepositAssets,
                                     totalClaimableRedeemAssets, totalRefundableDepositAssets>>
            BY <2>1 DEF mint, ClaimDeposit, attestVars, requestDepositVars, refundVars, redeemVars,
                        claimRedeemVars, strikeVars
        <3> QED BY <1>3, <3>2, <3>3 DEF Backing, EscrowFloorAmount, venueVars
    <2>2. CASE redeem(account, rs, account, account)
        <3> DEFINE split == SplitClaim(rs, rs, ra)
        <3>1. rs \in 1 .. rs
            BY <1>2, <2>2 DEF redeem
        <3>2. Claim
            BY <1>2, <2>2, <3>1 DEF Claim
        <3>3. split[2] \in Nat
            BY <1>2, <3>1, SplitClaimBounds
        <3>4. Idle /\ ClaimRedeem(account, account, split[1], split[2])
            BY <2>2 DEF redeem
        <3> HIDE DEF split
        <3>5. /\ UNCHANGED <<block, phase, totalPendingDepositAssets, totalRefundableDepositAssets>>
              /\ totalClaimableRedeemAssets' = totalClaimableRedeemAssets - split[2]
              /\ usdc' = usdc - split[2]
            BY <1>2, <3>4 DEF ClaimRedeem, SendUsdc, attestVars, depositVars, requestDepositVars,
                              refundVars, strikeVars
        <3>6. Backing' = Backing
            BY <1>3, <3>3, <3>5, VaultAmounts DEF Backing, EscrowFloorAmount, venueVars
        <3> QED BY <3>2, <3>4, <3>5, <3>6
    <2>3. CASE claimDepositRefund(account, account, account)
        <3>1. Claim
            BY <1>2, <2>3 DEF Claim
        <3>2. /\ Idle
              /\ UNCHANGED <<block, phase, totalPendingDepositAssets, totalClaimableRedeemAssets>>
              /\ totalRefundableDepositAssets' = totalRefundableDepositAssets - refund
              /\ usdc' = usdc - refund
            BY <1>2, <2>3 DEF claimDepositRefund, SendUsdc, attestVars, requestDepositVars,
                              redeemVars, claimRedeemVars, strikeVars
        <3> HIDE DEF refund
        <3>3. Backing' = Backing
            BY <1>2, <1>3, <3>2, VaultAmounts DEF Backing, EscrowFloorAmount, venueVars
        <3> QED BY <3>1, <3>2, <3>3
    <2> QED BY <1>1, <2>1, <2>2, <2>3
<1>5. IInv'
    BY <1>2, <1>4, ClaimStep
<1>6. CycleTypes'
    BY <1>3, <1>4, CycleTypesFrame
<1>7. Idle' /\ UNCHANGED <<block, history, landed, collateral>>
    BY <1>3, <1>4 DEF Idle, venueVars, strikeGhosts
<1> QED BY <1>4, <1>5, <1>6, <1>7, QuietCycleStep DEF CycleInv

\* A repayment spends what it takes off the debt, and never the escrow.
LEMMA TrimStep ==
    ASSUME CycleInv, Trim
    PROVE  CycleInv'
<1> DEFINE free == usdc - EscrowFloorAmount
           spent == Min({debt, free})
<1>1. free \in Int /\ debt \in Nat
    BY VaultAmounts
<1>2. spent > 0 /\ execute(usdc - spent) /\ debt' = debt - spent
    BY DEF Trim
<1>3. UNCHANGED <<collateral, usde, price, history, plan, savedVenue, strikeGhosts>>
    BY DEF Trim
<1>4. spent = IF debt <= free THEN debt ELSE free
    BY <1>1, MinOfTwo
<1> HIDE DEF spent
<1>5. spent \in Nat /\ spent <= debt /\ spent <= usdc
    BY <1>1, <1>2, <1>4, VaultAmounts
<1>6. /\ Idle /\ usdc - spent >= EscrowFloorAmount /\ usdc' = usdc - spent
      /\ UNCHANGED <<depositVars, redeemVars, shareBalance, totalSupply, strikeVars>>
      /\ UNCHANGED attestVars /\ UNCHANGED grantVars
    BY <1>2 DEF execute, StrategistCall
<1>7. IInv'
    <2>1. AttestTypes' /\ GrantTypes'
        BY <1>6, AttestFrame, GrantFrame DEF CycleInv, IInv
    <2>2. usdc' \in Nat /\ usdc' >= EscrowFloorAmount
        BY <1>5, <1>6, VaultAmounts
    <2> QED BY <1>6, <2>1, <2>2, QuietStep DEF CycleInv
<1>8. /\ UNCHANGED <<block, phase, totalPendingDepositAssets, totalClaimableRedeemAssets,
                     totalRefundableDepositAssets>>
    BY <1>6 DEF attestVars, strikeVars, depositVars, requestDepositVars, refundVars, redeemVars,
                claimRedeemVars
<1>9. Backing' = Backing
    BY <1>2, <1>5, <1>6, <1>8, VaultAmounts DEF Backing, EscrowFloorAmount
<1>10. CycleTypes'
    <2>1. debt' \in Nat
        BY <1>1, <1>2, <1>5
    <2> QED BY <1>3, <1>8, <2>1 DEF CycleInv, CycleTypes, strikeGhosts
<1>11. Idle' /\ UNCHANGED <<block, history, landed, collateral>>
    BY <1>3, <1>6, <1>8 DEF Idle, strikeGhosts
<1> QED BY <1>6, <1>7, <1>9, <1>10, <1>11, QuietCycleStep DEF CycleInv

\* An envelope lands: its NAV is bounded by its read, and its read still shows the backing.
LEMMA LandEnvelopeStep ==
    ASSUME CycleInv, NEW b \in 1 .. MaxBlock, LandEnvelope(b)
    PROVE  CycleInv'
<1> DEFINE s == history[b]
           attested == AttestedNav(s)
<1>1. /\ s.known /\ ~CycleFails(s) /\ handleSignedEnvelope(b, attested, b, Breached(s))
      /\ plan' = CyclePlan(s) /\ read' = s /\ landed' = block /\ fresh' = (b >= landed)
      /\ history' = [c \in 1 .. MaxBlock |-> IF c <= b THEN NoState ELSE history[c]]
      /\ UNCHANGED <<venueVars, price, savedVenue>>
    BY DEF LandEnvelope, Strikeable
<1>2. s \in States /\ b \in Nat /\ b \in EventIds
    <2>1. s \in States \cup {NoState} /\ s # NoState
        BY <1>1 DEF CycleInv, CycleTypes, NoState
    <2> QED BY <2>1, NavAssumption, VaultAssumption
<1>3. attested \in Nat /\ CyclePlan(s) \in Seq(PlanSteps)
    BY <1>2, AttestedNavBound, PlanIsSteps
<1>4. Breached(s) \in BOOLEAN
    BY DEF Breached
<1>5. IInv'
    BY <1>1, <1>2, <1>3, <1>4, EnvelopeStep DEF CycleInv
<1>6. /\ nav' = attested /\ phase' = "deposits"
      /\ UNCHANGED <<block, usdc, totalPendingDepositAssets, totalClaimableRedeemAssets,
                     totalRefundableDepositAssets>>
    BY <1>1 DEF handleSignedEnvelope, depositVars, requestDepositVars, refundVars, redeemVars,
                claimRedeemVars
<1>7. CycleTypes'
    <2>1. history' \in [1 .. MaxBlock -> States \cup {NoState}]
        BY <1>1 DEF CycleInv, CycleTypes
    <2>2. landed' \in Nat /\ fresh' \in BOOLEAN
        BY <1>1, VaultAmounts
    <2> QED BY <1>1, <1>2, <1>3, <2>1, <2>2 DEF CycleInv, CycleTypes, venueVars
<1>8. \A c \in 1 .. MaxBlock : history'[c].known => history[c].known
    BY <1>1 DEF NoState
<1>9. \A c \in 1 .. MaxBlock : history'[c].known => c < block
    BY <1>8 DEF CycleInv, BlocksEnded
<1>10. BlocksEnded'
    <2>1. landed' = block' /\ block \in Nat
        BY <1>1, <1>6, VaultAmounts
    <2> QED BY <1>6, <1>9, <2>1 DEF BlocksEnded
<1>11. BackingKept'
    <2>1. \A c \in 1 .. MaxBlock : ~(history'[c].known /\ c >= landed')
        BY <1>1, <1>9, VaultAmounts, VaultAssumption
    <2> QED BY <2>1 DEF BackingKept
<1>12. Priced'
    <2> SUFFICES ASSUME fresh'
                 PROVE  nav' <= Worth' + s.refundable + Overlooked(s)
        BY <1>1 DEF Priced, Overlooked
    <2> DEFINE pc == PricedCollateral(s)
               there == pc + s.balance - Floor(s) - s.debt
    <2>1. /\ s.debt \in Nat /\ s.balance \in Nat /\ s.refundable \in Nat /\ pc \in Nat
          /\ Floor(s) \in Nat
        BY <1>2, ReadAmounts
    <2>2. s.collateral = collateral /\ BackingAt(s) = Backing
        BY <1>1 DEF CycleInv, BackingKept
    <2>3. Worth' = pc + usdc - EscrowFloorAmount - debt
        BY <1>1, <1>6, <2>2 DEF Worth, EscrowFloorAmount, PricedCollateral, venueVars
    <2>4. attested <= IF there >= 0 THEN there ELSE 0
        BY <1>2, AttestedNavBound
    <2>5. s.balance >= Floor(s) /\ ~Drifted(s)
        <3>1. s.balance >= Floor(s)
            BY <1>1, <2>1 DEF CycleFails
        <3> QED BY <1>1, <3>1 DEF CycleFails
    <2> HIDE DEF pc
    <2>6. Worth' + s.refundable = there
        BY <2>1, <2>2, <2>3, VaultAmounts DEF BackingAt, Backing
    <2>7. there + Overlooked(s) >= 0 /\ Overlooked(s) \in Nat
        <3>1. CASE s.debt < OneUsdc \/ Leverage = 0
            BY <2>1, <2>5, <3>1 DEF Overlooked
        <3>2. CASE ~(s.debt < OneUsdc \/ Leverage = 0)
            <4>1. s.debt >= OneUsdc /\ Leverage # 0
                BY <2>1, <3>2, NavAssumption
            <4>2. ~(PricedCollateral(s) <= s.debt)
                BY <2>5, <4>1 DEF Drifted
            <4>3. pc > s.debt
                BY <2>1, <4>2 DEF pc
            <4> QED BY <2>1, <2>5, <3>2, <4>3 DEF Overlooked
        <3> QED BY <3>1, <3>2
    <2>8. attested <= there + Overlooked(s)
        BY <1>3, <2>1, <2>4, <2>7
    <2>9. Worth' + s.refundable + Overlooked(s) = there + Overlooked(s)
        BY <2>6
    <2> QED BY <1>6, <2>8, <2>9
<1> QED BY <1>5, <1>7, <1>10, <1>11, <1>12 DEF CycleInv

\* A refund keeps the escrow as it is; a settled deposit adds as much to the NAV as to its backing.
LEMMA CycleDepositsStep ==
    ASSUME CycleInv, CycleDeposits
    PROVE  CycleInv'
<1> DEFINE assets == pendingDepositAssets[Head(depositQueue)]
<1>1. /\ UNCHANGED <<venueVars, price, history, plan, savedVenue, strikeGhosts>>
      /\ phase = "deposits" /\ depositQueue # <<>>
    BY DEF CycleDeposits, navVars, RefundDeposit, FulfillDeposit
<1>2. assets \in Nat
    <2>1. pendingDepositAssets \in [Accounts -> Nat] /\ depositQueue \in Seq(Accounts)
        BY DEF CycleInv, IInv, TypeOK, DepositTypes, Ledger
    <2>2. Head(depositQueue) \in Accounts
        BY <1>1, <2>1
    <2> QED BY <2>1, <2>2
<1>3. IInv'
    BY RefundDepositStep, FulfillDepositStep DEF CycleDeposits, CycleInv
<1>4. /\ UNCHANGED <<block, phase, usdc, totalClaimableRedeemAssets>>
      /\ totalPendingDepositAssets' = totalPendingDepositAssets - assets
      /\ \/ nav' = nav /\ totalRefundableDepositAssets' = totalRefundableDepositAssets + assets
         \/ nav' = nav + assets /\ totalRefundableDepositAssets' = totalRefundableDepositAssets
    <2>1. CASE RefundDeposit
        BY <2>1 DEF RefundDeposit, DequeueDeposit, attestVars, redeemVars, claimRedeemVars, strikeVars
    <2>2. CASE FulfillDeposit
        BY <2>2 DEF FulfillDeposit, DequeueDeposit, refundVars, redeemVars, claimRedeemVars, strikeVars
    <2> QED BY <2>1, <2>2 DEF CycleDeposits
<1>5. CycleTypes'
    BY <1>1, CycleTypesFrame
<1>6. BlocksEnded' /\ BackingKept'
    BY <1>1, <1>4, InStrikeStep DEF Idle, strikeGhosts
<1>7. Priced'
    <2> DEFINE pc == (collateral * Min({read.price, Par})) \div Par
    <2>1. read \in States
        BY <1>1 DEF CycleInv, CycleTypes
    <2>2. pc \in Nat /\ read.refundable \in Nat /\ Overlooked(read) \in Nat
        <3>1. read.price \in Nat \ {0} /\ read.refundable \in Nat /\ read.debt \in Nat
            BY <2>1, ReadAmounts
        <3>2. Min({read.price, Par}) \in Nat
            BY <3>1, MinOfTwo DEF Par
        <3>3. collateral * Min({read.price, Par}) \in Nat
            BY <3>2, VaultAmounts, ProductIsNat
        <3>4. pc \in Nat
            BY <3>3, QuotientIsNat DEF Par
        <3> QED BY <3>1, <3>4 DEF Overlooked
    <2>3. Worth = pc + usdc - EscrowFloorAmount - debt
        BY DEF Worth
    <2>4. Worth' = pc + usdc - EscrowFloorAmount' - debt
        BY <1>1, <1>4 DEF Worth, EscrowFloorAmount, venueVars, strikeGhosts
    <2> HIDE DEF pc, assets
    <2>5. \/ nav' = nav /\ Worth' = Worth
          \/ nav' = nav + assets /\ Worth' = Worth + assets
        BY <1>2, <1>4, <2>2, <2>3, <2>4, VaultAmounts DEF EscrowFloorAmount
    <2>6. fresh => nav <= Worth + read.refundable + Overlooked(read)
        BY <1>1 DEF CycleInv, Priced
    <2>7. Worth \in Int
        BY <2>2, <2>3, VaultAmounts
    <2>8. fresh => nav' <= Worth' + read.refundable + Overlooked(read)
        BY <1>2, <2>2, <2>5, <2>6, <2>7, VaultAmounts
    <2>9. fresh' = fresh /\ read' = read
        BY <1>1 DEF strikeGhosts
    <2> QED BY <2>8, <2>9 DEF Priced, Overlooked
<1> QED BY <1>3, <1>5, <1>6, <1>7 DEF CycleInv

\* The plan starts: what its revert restores is recorded.
LEMMA CycleEnterPlanStep ==
    ASSUME CycleInv, CycleEnterPlan
    PROVE  CycleInv'
<1>1. /\ EnterPlan(Len(plan)) /\ savedVenue' = <<collateral, debt, usde>>
      /\ UNCHANGED <<venueVars, price, history, plan, strikeGhosts>>
    BY DEF CycleEnterPlan
<1>2. phase = "deposits" /\ phase' = "plan" /\ UNCHANGED block
    BY <1>1 DEF EnterPlan, attestVars
<1>3. IInv'
    <2>1. Len(plan) \in Nat
        BY DEF CycleInv, CycleTypes
    <2> QED BY <1>1, <2>1, EnterPlanStep DEF CycleInv
<1>4. CycleTypes'
    <2>1. savedVenue' \in Nat \X Nat \X Nat
        BY <1>1, VaultAmounts
    <2> QED BY <1>1, <1>2, <2>1 DEF CycleInv, CycleTypes, venueVars, strikeGhosts
<1>5. BlocksEnded' /\ BackingKept'
    BY <1>1, <1>2, InStrikeStep DEF Idle, strikeGhosts
<1>6. Priced'
    BY <1>2 DEF Priced
<1> QED BY <1>3, <1>4, <1>5, <1>6 DEF CycleInv

\* A step carries the amounts its operation uses.
LEMMA StepAmounts ==
    ASSUME NEW step \in PlanSteps
    PROVE  /\ step.op \in {"supply", "swapIn", "swapOut"} => step.in \in Nat
           /\ step.op \in {"swapIn", "swapOut", "flashLoan"} => step.min \in Nat
           /\ step.op \in {"borrow", "withdraw", "flashLoan"} => step.out \in Nat
           /\ step.op = "flashLoan" => step.repay \in Nat
<1>1. CASE step \in [op : {"approve"}]
    BY <1>1
<1>2. CASE step \in [op : {"supply"}, in : Nat]
    BY <1>2
<1>3. CASE step \in [op : {"borrow", "withdraw"}, out : Nat]
    BY <1>3
<1>4. CASE step \in [op : {"swapIn", "swapOut"}, in : Nat, min : Nat]
    BY <1>4
<1>5. CASE step \in [op : {"flashLoan"}, repay : Nat, out : Nat, min : Nat]
    BY <1>5
<1> QED BY <1>1, <1>2, <1>3, <1>4, <1>5 DEF PlanSteps

\* What a swap gives is a natural.
LEMMA OutcomeIsNat ==
    ASSUME NEW least \in Nat, NEW n \in Nat, NEW twap \in Nat \ {0}
    PROVE  Outcomes(least, UsdcFor(n, twap)) \subseteq Nat /\ Outcomes(least, UsdeFor(n, twap)) \subseteq Nat
BY ConvertedIsNat DEF Outcomes

\* Whatever the step does on the venues, positions and balance stay naturals.
LEMMA CycleStepStep ==
    ASSUME CycleInv, CycleStep
    PROVE  CycleInv'
<1> DEFINE step == Head(plan)
<1>1. plan \in Seq(PlanSteps) /\ plan # <<>>
    BY DEF CycleInv, CycleTypes, CycleStep, Empty
<1>2. step \in PlanSteps /\ plan' \in Seq(PlanSteps)
    BY <1>1 DEF CycleStep, StepTaken
<1>3. UNCHANGED <<price, history, savedVenue, strikeGhosts>>
    BY DEF CycleStep, StepTaken
<1>4. /\ step.op \in {"supply", "swapIn", "swapOut"} => step.in \in Nat
      /\ step.op \in {"swapIn", "swapOut", "flashLoan"} => step.min \in Nat
      /\ step.op \in {"borrow", "withdraw", "flashLoan"} => step.out \in Nat
      /\ step.op = "flashLoan" => step.repay \in Nat
    BY <1>2, StepAmounts
<1>5. /\ usdc \in Nat /\ collateral \in Nat /\ debt \in Nat /\ usde \in Nat /\ price \in Nat \ {0}
    BY VaultAmounts DEF CycleInv, CycleTypes
<1>6. /\ \E balance \in Nat : PlanStep(balance)
      /\ collateral' \in Nat /\ debt' \in Nat /\ usde' \in Nat
    <2>1. CASE step.op = "approve" /\ PlanStep(usdc) /\ UNCHANGED venueVars
        BY <1>5, <2>1 DEF venueVars
    <2>2. CASE /\ step.op = "swapIn" /\ step.in <= usdc /\ PlanStep(usdc - step.in)
               /\ \E out \in Outcomes(step.min, UsdeFor(step.in, price)) : usde' = usde + out
               /\ UNCHANGED <<collateral, debt>>
        <3>1. usdc - step.in \in Nat /\ Outcomes(step.min, UsdeFor(step.in, price)) \subseteq Nat
            BY <1>4, <1>5, <2>2, OutcomeIsNat
        <3> QED BY <1>5, <2>2, <3>1
    <2>3. CASE /\ step.op = "supply" /\ step.in <= usde /\ PlanStep(usdc)
               /\ usde' = usde - step.in /\ collateral' = collateral + step.in /\ UNCHANGED debt
        BY <1>4, <1>5, <2>3
    <2>4. CASE /\ step.op = "borrow" /\ PlanStep(usdc + step.out)
               /\ debt' = debt + step.out /\ UNCHANGED <<collateral, usde>>
        <3>1. usdc + step.out \in Nat
            BY <1>4, <1>5, <2>4
        <3> QED BY <1>4, <1>5, <2>4, <3>1
    <2>5. CASE /\ step.op = "withdraw" /\ step.out <= collateral /\ PlanStep(usdc)
               /\ collateral' = collateral - step.out /\ usde' = usde + step.out /\ UNCHANGED debt
        BY <1>4, <1>5, <2>5
    <2>6. CASE /\ step.op = "swapOut" /\ step.in <= usde
               /\ \E out \in Outcomes(step.min, UsdcFor(step.in, price)) : PlanStep(usdc + out)
               /\ usde' = usde - step.in /\ UNCHANGED <<collateral, debt>>
        <3>1. Outcomes(step.min, UsdcFor(step.in, price)) \subseteq Nat
            BY <1>4, <1>5, <2>6, OutcomeIsNat
        <3>2. \A out \in Nat : usdc + out \in Nat
            BY <1>5
        <3> QED BY <1>4, <1>5, <2>6, <3>1, <3>2
    <2>7. CASE /\ step.op = "flashLoan" /\ step.repay <= debt /\ step.out <= collateral
               /\ \E out \in Outcomes(step.min, UsdcFor(step.out, price)) :
                     usdc + out >= step.repay /\ PlanStep(usdc + out - step.repay)
               /\ debt' = debt - step.repay /\ collateral' = collateral - step.out /\ UNCHANGED usde
        <3>1. Outcomes(step.min, UsdcFor(step.out, price)) \subseteq Nat
            BY <1>4, <1>5, <2>7, OutcomeIsNat
        <3>2. \A out \in Nat : usdc + out >= step.repay => usdc + out - step.repay \in Nat
            BY <1>4, <1>5, <2>7
        <3> QED BY <1>4, <1>5, <2>7, <3>1, <3>2
    <2> QED BY <2>1, <2>2, <2>3, <2>4, <2>5, <2>6, <2>7 DEF CycleStep
<1>7. phase = "plan" /\ UNCHANGED <<block, phase>>
    BY <1>6 DEF PlanStep, attestVars
<1>8. IInv'
    BY <1>6, PlanCallStep DEF CycleInv
<1>9. CycleTypes'
    BY <1>2, <1>3, <1>6, <1>7 DEF CycleInv, CycleTypes, strikeGhosts
<1>10. BlocksEnded' /\ BackingKept'
    BY <1>3, <1>7, InStrikeStep DEF Idle, strikeGhosts
<1>11. Priced'
    BY <1>7 DEF Priced
<1> QED BY <1>8, <1>9, <1>10, <1>11 DEF CycleInv

\* The redemptions settle and the plan is kept.
LEMMA CycleSettleStep ==
    ASSUME CycleInv, CycleSettle
    PROVE  CycleInv'
<1>1. UNCHANGED <<venueVars, price, history, plan, savedVenue, strikeGhosts>>
    BY DEF CycleSettle, navVars
<1>2. /\ phase \in {"plan", "redeems"} /\ phase' \in {"redeems", "idle"} /\ UNCHANGED block
      /\ Strike
    BY DEF CycleSettle, PlanStepsDone, FulfillRedeem, PlanExecuted, attestVars, strikeVars, Strike
<1>3. IInv'
    BY <1>2, StrikeStep DEF CycleInv
<1>4. CycleTypes'
    BY <1>1, <1>2, CycleTypesFrame
<1>5. BlocksEnded' /\ BackingKept'
    BY <1>1, <1>2, InStrikeStep DEF Idle, strikeGhosts
<1>6. Priced'
    BY <1>2 DEF Priced
<1> QED BY <1>3, <1>4, <1>5, <1>6 DEF CycleInv

\* A rejected plan restores the venues with the vault.
LEMMA CycleRevertsStep ==
    ASSUME CycleInv, CycleReverts
    PROVE  CycleInv'
<1>1. /\ collateral' = savedVenue[1] /\ debt' = savedVenue[2] /\ usde' = savedVenue[3]
      /\ plan' = Empty /\ UNCHANGED <<price, history, savedVenue, strikeGhosts>>
    BY DEF CycleReverts
<1>2. /\ phase \in {"plan", "redeems"} /\ phase' = "idle" /\ UNCHANGED block /\ Strike
    BY DEF CycleReverts, PlanStepReverts, EscrowFloorBreached, Rollback, Strike
<1>3. IInv'
    BY <1>2, StrikeStep DEF CycleInv
<1>4. CycleTypes'
    <2>1. savedVenue \in Nat \X Nat \X Nat
        BY DEF CycleInv, CycleTypes
    <2>2. collateral' \in Nat /\ debt' \in Nat /\ usde' \in Nat
        BY <1>1, <2>1
    <2>3. plan' \in Seq(PlanSteps)
        BY <1>1 DEF Empty
    <2> QED BY <1>1, <1>2, <2>2, <2>3 DEF CycleInv, CycleTypes, strikeGhosts
<1>5. BlocksEnded' /\ BackingKept'
    BY <1>1, <1>2, InStrikeStep DEF Idle, strikeGhosts
<1>6. Priced'
    BY <1>2 DEF Priced
<1> QED BY <1>3, <1>4, <1>5, <1>6 DEF CycleInv

-----------------------------------------------------------------------------
(* The invariant is inductive                                              *)

\* The invariant holds of a new vault with no position.
LEMMA InitCycleEstablishes ==
    ASSUME InitCycle
    PROVE  CycleInv
<1>1. /\ collateral = 0 /\ debt = 0 /\ usde = 0 /\ price = Par
      /\ history = [b \in 1 .. MaxBlock |-> NoState]
      /\ plan = <<>> /\ savedVenue = <<0, 0, 0>> /\ read = NoState /\ landed = 0 /\ fresh = TRUE
    BY DEF InitCycle, Empty
<1>2. phase = "idle" /\ block = 1 /\ Init
    BY DEF InitCycle, Init
<1>3. IInv
    BY <1>2, InitEstablishes
<1>4. CycleTypes
    <2>1. <<>> \in Seq(PlanSteps) /\ Par \in Nat \ {0}
        BY DEF Par
    <2> QED BY <1>1, <1>2, <2>1 DEF CycleTypes
<1>5. \A b \in 1 .. MaxBlock : ~history[b].known
    BY <1>1 DEF NoState
<1>6. BlocksEnded /\ BackingKept /\ Priced
    BY <1>1, <1>2, <1>5 DEF BlocksEnded, BackingKept, Priced, Idle
<1> QED BY <1>3, <1>4, <1>6 DEF CycleInv

\* The invariant is a predicate of the variables.
LEMMA CycleStutterStep ==
    ASSUME CycleInv, UNCHANGED cycleVars
    PROVE  CycleInv'
<1>1. UNCHANGED vars /\ UNCHANGED <<venueVars, price, history, plan, savedVenue, strikeGhosts>>
    BY DEF cycleVars, navVars
<1>2. UNCHANGED <<block, nav, usdc, phase, totalPendingDepositAssets, totalClaimableRedeemAssets,
                  totalRefundableDepositAssets>>
    BY <1>1 DEF vars, attestVars, depositVars, requestDepositVars, refundVars, redeemVars,
                claimRedeemVars, strikeVars
<1>3. IInv'
    BY <1>1, StutterStep DEF CycleInv
<1>4. CycleTypes'
    BY <1>1, <1>2, CycleTypesFrame
<1>5. UNCHANGED <<collateral, debt, read, landed, fresh, history>>
    BY <1>1 DEF venueVars, strikeGhosts
<1>6. BlocksEnded'
    BY <1>2, <1>5 DEF CycleInv, BlocksEnded, Idle
<1>7. BackingKept'
    BY <1>2, <1>5 DEF CycleInv, BackingKept, Backing, BackingAt, Floor, EscrowFloorAmount
<1>8. Priced'
    BY <1>2, <1>5 DEF CycleInv, Priced, Worth, Overlooked, EscrowFloorAmount
<1> QED BY <1>3, <1>4, <1>6, <1>7, <1>8 DEF CycleInv

\* The invariant is inductive.
LEMMA NextCycleStep ==
    ASSUME CycleInv, [NextCycle]_cycleVars
    PROVE  CycleInv'
BY EndBlockStep, RepriceStep, CycleRequestStep, CycleClaimStep, TrimStep, LandEnvelopeStep,
   CycleDepositsStep, CycleEnterPlanStep, CycleStepStep, CycleSettleStep, CycleRevertsStep,
   CycleStutterStep DEF NextCycle

(***************************************************************************)
(* CycleInv holds in every reachable state: the vault keeps its books when *)
(* the NAVs it takes and the plans it runs are those of the cycle.         *)
(***************************************************************************)
THEOREM CycleInvariance == SpecCycle => []CycleInv
BY InitCycleEstablishes, NextCycleStep, PTL DEF SpecCycle

-----------------------------------------------------------------------------
(* Theorems                                                                *)

(***************************************************************************)
(* A strike read after the one before it landed prices the shares at no    *)
(* more than what backs them, for every leverage, threshold, price path,   *)
(* number of accounts and order of requests, claims and repayments between *)
(* the inputs block and the strike.                                        *)
(***************************************************************************)
THEOREM PricedAtWorthHolds == SpecCycle => []PricedAtWorth
<1>1. CycleInv => PricedAtWorth
    BY DEF CycleInv, Priced, PricedAtWorth
<1> QED BY <1>1, CycleInvariance, PTL

(***************************************************************************)
(* No plan that the cycle builds leaves the vault short of its escrow,     *)
(* whatever the swaps give and wherever the plan reverts.                  *)
(***************************************************************************)
THEOREM CycleEscrowFloor == SpecCycle => []EscrowFloor
<1>1. CycleInv => EscrowFloor
    <2> SUFFICES ASSUME CycleInv, ~TokenMayBurn, phase \in {"idle", "deposits"}
                 PROVE  usdc >= EscrowFloorAmount
        BY DEF EscrowFloor
    <2>1. ~InPlan
        BY DEF InPlan
    <2> QED BY <2>1 DEF CycleInv, IInv, Floors, CoversFloor, EscrowFloorAmount
<1> QED BY <1>1, CycleInvariance, PTL

-----------------------------------------------------------------------------
(* The arithmetic of an unwind                                             *)

\* Products keep an order.
LEMMA ScaledOrder ==
    ASSUME NEW a \in Int, NEW b \in Int, NEW c \in Nat, a <= b
    PROVE  a * c <= b * c /\ c * a <= c * b
OBVIOUS

\* A common positive factor may be cancelled.
LEMMA CancelFactor ==
    ASSUME NEW a \in Int, NEW b \in Int, NEW c \in Nat, c > 0, c * a < c * b + c
    PROVE  a <= b
<1> SUFFICES ASSUME a >= b + 1 PROVE FALSE
    OBVIOUS
<1>1. c * a >= c * (b + 1)
    BY ScaledOrder
<1>2. c * (b + 1) = c * b + c
    OBVIOUS
<1> QED BY <1>1, <1>2

(***************************************************************************)
(* The step behind NeverOverLevered: an unwind of part of the equity takes *)
(* its share of the collateral and repays its share of the debt, both      *)
(* rounded down, from a position whose debt may have been paid down since. *)
(***************************************************************************)
LEMMA UnwindKeepsLeverage ==
    ASSUME NEW coll \in Nat, NEW owed \in Nat, NEW owedNow \in Nat, owedNow <= owed,
           NEW part \in Nat, NEW equity \in Nat, equity > 0, part <= equity,
           NEW L \in Nat, NEW k \in Nat, NEW over \in Nat, owedNow * L - coll * k <= over
    PROVE  LET out == (coll * part) \div equity
               repay == (owed * part) \div equity
           IN  (owedNow - repay) * L - (coll - out) * k <= over + L
<1> DEFINE out == (coll * part) \div equity
           repay == (owed * part) \div equity
           after == (owedNow - repay) * L - (coll - out) * k
<1>1. coll * part \in Nat /\ owed * part \in Nat
    OBVIOUS
<1>2. /\ out \in Nat /\ out * equity <= coll * part
      /\ repay \in Nat /\ owed * part < repay * equity + equity
    BY <1>1, DivBounds
<1> HIDE DEF out, repay
<1>3. (out * equity) * k <= (coll * part) * k
    BY <1>1, <1>2, ScaledOrder
<1>4. (owed * part) * L <= (repay * equity + equity) * L
    BY <1>1, <1>2, ScaledOrder
<1>5. (owedNow * part) * L <= (owed * part) * L
    <2>1. owedNow * part <= owed * part
        BY ScaledOrder
    <2> QED BY <2>1, <1>1, ScaledOrder
<1>6. (owedNow * L - coll * k) * (equity - part) <= over * (equity - part)
    BY ScaledOrder
<1>7. over * (equity - part) <= over * equity
    BY ScaledOrder
<1>8. equity * after = (owedNow * L - coll * k) * (equity - part) + (owedNow * part) * L
                       - (coll * part) * k - (repay * equity) * L + (out * equity) * k
    BY <1>2
<1>9. (repay * equity + equity) * L = (repay * equity) * L + equity * L
    BY <1>2
<1>10. equity * after <= over * equity + equity * L
    BY <1>1, <1>2, <1>3, <1>4, <1>5, <1>6, <1>7, <1>8, <1>9
<1>11. after \in Int
    BY <1>2
<1> HIDE DEF after
<1>12. equity * after < equity * (over + L) + equity
    BY <1>10, <1>11
<1>13. after <= over + L
    BY <1>11, <1>12, CancelFactor
<1> QED BY <1>13 DEF after, out, repay

\* Collateral worth this much at the lower price q gives no less at p, less the 50 bps.
LEMMA FullExitPays ==
    ASSUME NEW coll \in Nat, NEW p \in Nat, NEW q \in Nat, q <= p,
           NEW worth, worth = (coll * q) \div 10000,
           NEW got, got = (((coll * p) \div 10000) * 9950) \div 10000
    PROVE  worth \in Nat /\ got \in Nat /\ got + 1 >= worth - worth \div 200
<1> DEFINE w == (coll * p) \div 10000
           cp == coll * p
           cq == coll * q
<1>1. cp \in Nat /\ cq \in Nat /\ cq <= cp
    BY ScaledOrder
<1> HIDE DEF cp, cq
<1>2. worth = cq \div 10000 /\ w = cp \div 10000 /\ got = (w * 9950) \div 10000
    BY DEF cp, cq
<1> HIDE DEF w
<1>3. worth \in Nat /\ w \in Nat /\ worth <= w
    BY <1>1, <1>2
<1> QED BY <1>2, <1>3

\* What collateral is worth at a price of q bps of par, less the exit reserve.
WorthLessReserve(coll, q) ==
    LET worth == (coll * q) \div 10000
    IN  worth - worth \div 200

\* That is a number.
LEMMA WorthIsInt ==
    ASSUME NEW coll \in Nat, NEW q \in Nat
    PROVE  WorthLessReserve(coll, q) \in Int
<1> DEFINE worth == (coll * q) \div 10000
<1>1. coll * q \in Int
    OBVIOUS
<1>2. worth \in Int
    BY <1>1
<1> HIDE DEF worth
<1>3. worth - worth \div 200 \in Int
    BY <1>2
<1> QED BY <1>3 DEF WorthLessReserve, worth

\* What selling all of the collateral gives at least, at a price of p bps of par.
FullExitGives(coll, p) == (((coll * p) \div 10000) * 9950) \div 10000

\* FullExitPays of these two.
LEMMA FullExitIsWorth ==
    ASSUME NEW coll \in Nat, NEW p \in Nat, NEW q \in Nat, q <= p
    PROVE  /\ FullExitGives(coll, p) \in Nat
           /\ FullExitGives(coll, p) + 1 >= WorthLessReserve(coll, q)
<1> DEFINE worth == (coll * q) \div 10000
           got == (((coll * p) \div 10000) * 9950) \div 10000
<1>1. worth \in Nat /\ got \in Nat /\ got + 1 >= worth - worth \div 200
    BY FullExitPays
<1>2. got = FullExitGives(coll, p) /\ WorthLessReserve(coll, q) = worth - worth \div 200
    BY DEF FullExitGives, WorthLessReserve
<1> HIDE DEF worth, got
<1> QED BY <1>1, <1>2

\* What selling 1% more than the shortfall gives at least, at a price of p bps of par.
SpotUnwindGives(coll, p, short) ==
    LET target == short + short \div 100
        wanted == (((target * 10000) \div 9950) * 10000) \div p
        out == IF wanted <= coll THEN wanted ELSE coll
    IN  (((out * p) \div 10000) * 9950) \div 10000

\* The unlevered unwind: 1% more than the shortfall is swapped.
LEMMA SpotUnwindPays ==
    ASSUME NEW coll \in Nat, NEW p \in Nat, p > 0, NEW q \in Nat, q <= p,
           NEW short \in Nat, short <= WorthLessReserve(coll, q)
    PROVE  /\ SpotUnwindGives(coll, p, short) \in Nat
           /\ SpotUnwindGives(coll, p, short) + 2 + (p - 1) \div 10000 >= short
<1> DEFINE worth == (coll * q) \div 10000
           target == short + short \div 100
           wanted == (((target * 10000) \div 9950) * 10000) \div p
           out == IF wanted <= coll THEN wanted ELSE coll
           got == (((out * p) \div 10000) * 9950) \div 10000
           u == (target * 10000) \div 9950
           j == (p - 1) \div 10000
<1> SUFFICES got \in Nat /\ got + 2 + j >= short
    BY DEF SpotUnwindGives
<1>0. /\ target = short + short \div 100 /\ wanted = (u * 10000) \div p
      /\ out = IF wanted <= coll THEN wanted ELSE coll
      /\ worth = (coll * q) \div 10000 /\ short <= worth - worth \div 200
      /\ got = (((out * p) \div 10000) * 9950) \div 10000
    BY DEF WorthLessReserve
<1>8. got = FullExitGives(out, p)
    BY DEF FullExitGives
<1> HIDE DEF target, got
<1>1. target \in Nat /\ u \in Nat /\ short <= target /\ target * 10000 < u * 9950 + 9950
    BY <1>0
<1> HIDE DEF wanted, u, worth
<1>2. u * 10000 \in Nat
    BY <1>1
<1>3. wanted \in Nat /\ u * 10000 < wanted * p + p
    BY <1>0, <1>1, <1>2, DivBounds
<1>4. j \in Nat /\ p <= j * 10000 + 10000
    OBVIOUS
<1>7. WorthLessReserve(coll, q) \in Int /\ short <= WorthLessReserve(coll, q)
    BY <1>0, WorthIsInt
<1> HIDE DEF j, out
<1>5. CASE wanted <= coll
    <2> DEFINE x == wanted * p
               w == x \div 10000
    <2>1. x \in Nat /\ u * 10000 < x + p
        BY <1>3
    <2>2. out = wanted
        BY <1>0, <1>5
    <2>3. got = (w * 9950) \div 10000
        BY <1>0, <2>2
    <2> HIDE DEF x
    <2>4. w \in Nat /\ w + 1 + j >= u
        BY <1>1, <1>4, <2>1
    <2> HIDE DEF w
    <2> QED BY <1>1, <1>4, <2>3, <2>4
<1>6. CASE ~(wanted <= coll)
    <2>1. out = coll
        BY <1>0, <1>6
    <2>2. got = FullExitGives(coll, p)
        BY <1>8, <2>1
    <2>3. got \in Nat /\ got + 1 >= WorthLessReserve(coll, q)
        BY <2>2, FullExitIsWorth
    <2> QED BY <1>4, <1>7, <2>3
<1> QED BY <1>5, <1>6

\* The cushion for a leverage of m bps, and the target it makes of a shortfall.
CushionBps(m) == 100 + (60 * m) \div 10000
CushionedTarget(short, cushion) == short + (short * cushion) \div 10000

\* The cushion of a target covers the 50 bps of m bps of it, but for a unit.
CushionCovers(m, target, short) ==
    50 * ((m + 1) * target) <= 100000000 * (target - short) + 100000000

\* So do the 50 bps of the collateral withdrawn for it, in parts of the equity.
SlippageCovered(worth, equity, target, short) ==
    500000 * (worth * target)
        <= 100000000 * (equity * target) - 100000000 * (equity * short) + 100000000 * equity

(***************************************************************************)
(* The cushion is worth the 50 bps of the gross leg, up to 39 times        *)
(* leverage: what the target is above the shortfall pays for the swap.     *)
(***************************************************************************)
LEMMA CushionPays ==
    ASSUME NEW short \in Nat, NEW m \in Nat, m <= 39 * 10000
    PROVE  LET target == CushionedTarget(short, CushionBps(m))
           IN  target \in Nat /\ CushionCovers(m, target, short)
<1> DEFINE cushion == CushionBps(m)
           target == CushionedTarget(short, cushion)
<1>1. cushion \in Nat /\ 10000 * cushion >= 990001 + 60 * m
    BY DEF CushionBps
<1>0. target = short + (short * cushion) \div 10000
    BY DEF CushionedTarget
<1> HIDE DEF cushion, target
<1> DEFINE sc == short * cushion
           extra == sc \div 10000
           sm == short * m
<1>2. sc \in Nat /\ sm \in Nat
    BY <1>1
<1>3. short * (10000 * cushion) >= short * (990001 + 60 * m)
    BY <1>1, ScaledOrder
<1>4. 10000 * sc >= 990001 * short + 60 * sm
    BY <1>1, <1>3
<1> HIDE DEF sc, sm
<1>5. extra \in Nat /\ 10000 * extra + 9999 >= sc
    BY <1>2
<1>6. target = short + extra
    BY <1>0 DEF sc
<1> HIDE DEF extra
<1>7. sm <= 390000 * short
    BY ScaledOrder DEF sm
<1>8. extra * m <= extra * 390000
    BY <1>5, ScaledOrder
<1>9. (m + 1) * target = sm + extra * m + short + extra
    BY <1>5, <1>6 DEF sm
<1> DEFINE em == extra * m
<1>10. em \in Nat
    BY <1>5
<1>11. em <= extra * 390000 /\ (m + 1) * target = sm + em + short + extra
    BY <1>8, <1>9
<1> HIDE DEF em
<1>12. 50 * (sm + em + short + extra) <= 100000000 * extra + 100000000
    BY <1>2, <1>4, <1>5, <1>7, <1>10, <1>11
<1>13. target \in Nat /\ CushionCovers(m, target, short)
    BY <1>5, <1>6, <1>11, <1>12 DEF CushionCovers
<1> QED BY <1>13 DEF target, cushion

\* The collateral withdrawn is worth its share of the whole, but for two roundings.
LEMMA WithdrawnIsWorth ==
    ASSUME NEW coll \in Nat, NEW q \in Nat, q <= 10000,
           NEW worth \in Nat, worth * 10000 <= coll * q,
           NEW part \in Nat, NEW equity \in Nat, NEW out \in Nat, NEW w \in Nat,
           coll * part < out * equity + equity, out * q < w * 10000 + 10000
    PROVE  worth * part <= w * equity + 2 * equity
<1>1. (worth * 10000) * part <= (coll * q) * part
    BY ScaledOrder
<1>2. (coll * part) * q <= (out * equity + equity) * q
    BY ScaledOrder
<1>3. (out * q) * equity <= (w * 10000 + 10000) * equity
    BY ScaledOrder
<1>4. equity * q <= equity * 10000
    BY ScaledOrder
<1>5. /\ (worth * 10000) * part = 10000 * (worth * part) /\ (coll * q) * part = (coll * part) * q
      /\ (out * equity + equity) * q = (out * q) * equity + equity * q
      /\ (w * 10000 + 10000) * equity = 10000 * (w * equity) + 10000 * equity
    OBVIOUS
<1> DEFINE wp == worth * part
           we == w * equity
           oqe == (out * q) * equity
           eq == equity * q
           cpq == (coll * part) * q
<1>6. wp \in Int /\ we \in Int /\ oqe \in Int /\ eq \in Int /\ cpq \in Int
    OBVIOUS
<1>7. /\ 10000 * wp <= cpq /\ cpq <= oqe + eq /\ oqe <= 10000 * we + 10000 * equity
      /\ eq <= 10000 * equity
    BY <1>1, <1>2, <1>3, <1>4, <1>5
<1> HIDE DEF wp, we, oqe, eq, cpq
<1>8. wp <= we + 2 * equity
    BY <1>6, <1>7
<1> QED BY <1>8 DEF wp, we

\* The 50 bps of the gross leg are no more than what the target is above the shortfall.
LEMMA SlippageIsCovered ==
    ASSUME NEW worth \in Nat, NEW equity \in Nat, NEW m \in Nat,
           worth * 10000 < m * equity + equity,
           NEW target \in Nat, NEW short \in Nat, CushionCovers(m, target, short)
    PROVE  SlippageCovered(worth, equity, target, short)
<1>1. (worth * 10000) * target <= (m * equity + equity) * target
    BY ScaledOrder
<1>2. (50 * ((m + 1) * target)) * equity <= (100000000 * (target - short) + 100000000) * equity
    BY ScaledOrder DEF CushionCovers
<1>3. /\ (worth * 10000) * target = 10000 * (worth * target)
      /\ (50 * ((m + 1) * target)) * equity = 50 * ((m * equity + equity) * target)
      /\ (100000000 * (target - short) + 100000000) * equity
             = 100000000 * (equity * target) - 100000000 * (equity * short) + 100000000 * equity
    OBVIOUS
<1> DEFINE wt == worth * target
           met == (m * equity + equity) * target
           et == equity * target
           es == equity * short
<1>4. wt \in Int /\ met \in Int /\ et \in Int /\ es \in Int
    OBVIOUS
<1>5. /\ 10000 * wt <= met
      /\ 50 * met <= 100000000 * et - 100000000 * es + 100000000 * equity
    BY <1>1, <1>2, <1>3
<1> HIDE DEF wt, met, et, es
<1>6. 500000 * wt <= 100000000 * et - 100000000 * es + 100000000 * equity
    BY <1>4, <1>5
<1> QED BY <1>6 DEF wt, et, es, SlippageCovered

-----------------------------------------------------------------------------
(* What the plans move                                                     *)

\* The shapes of the plans a cycle builds.
IsDeleverage(steps) == Len(steps) = 1 /\ steps[1].op = "flashLoan"

IsSpotUnwind(steps) ==
    /\ Len(steps) = 3
    /\ steps[1].op = "withdraw" /\ steps[2].op = "approve" /\ steps[3].op = "swapOut"

IsOpening(steps) ==
    /\ Len(steps) \in {4, 5}
    /\ steps[1].op = "approve" /\ steps[2].op = "swapIn" /\ steps[3].op = "approve"
    /\ steps[4].op = "supply"
    /\ Len(steps) = 5 => steps[5].op = "borrow"

\* What the first n steps of such a plan did to the position, and at least freed.
Supplied(steps, n) == IF n >= 4 THEN steps[4].in ELSE 0
Lent(steps, n) == IF n >= 5 THEN steps[5].out ELSE 0
Withdrawn(steps, n) == IF n >= 1 /\ steps[1].op # "approve" THEN steps[1].out ELSE 0
Repaid(steps, n) == IF n >= 1 /\ steps[1].op = "flashLoan" THEN steps[1].repay ELSE 0
Freed(steps, n) ==
    IF n >= 1 /\ steps[1].op = "flashLoan" THEN steps[1].min - steps[1].repay
    ELSE IF n >= 3 THEN steps[3].min ELSE 0

\* What plan_deleverage computes, by its names.
DelevTarget(s) ==
    RedeemShortfall(s) + (RedeemShortfall(s) * Cushion(PricedCollateral(s) - s.debt, s)) \div Par
DelevPart(s) ==
    LET equity == PricedCollateral(s) - s.debt
    IN  IF DelevTarget(s) <= equity THEN DelevTarget(s) ELSE equity

\* A plan is empty, a deleverage, a spot unwind or an opening, with the amounts of its builder.
Deleverages(s, steps) ==
    /\ IsDeleverage(steps) /\ RedeemShortfall(s) # 0 /\ s.debt # 0 /\ PricedCollateral(s) > s.debt
    /\ LET equity == PricedCollateral(s) - s.debt
       IN  /\ steps[1].out = (s.collateral * DelevPart(s)) \div equity
           /\ steps[1].repay = (s.debt * DelevPart(s)) \div equity
           /\ steps[1].min = Tolerated(UsdcFor(steps[1].out, s.price))

SpotUnwinds(s, steps) ==
    /\ IsSpotUnwind(steps) /\ RedeemShortfall(s) # 0 /\ s.debt = 0
    /\ LET target == RedeemShortfall(s) + RedeemShortfall(s) \div 100
           wanted == UsdeFor((target * Par) \div 9950, s.price)
       IN  /\ steps[1].out = (IF wanted <= s.collateral THEN wanted ELSE s.collateral)
           /\ steps[3].min = Tolerated(UsdcFor(steps[1].out, s.price))

Opens(s, steps) ==
    /\ IsOpening(steps) /\ Leverage > Par /\ s.pendingRedeemShares = 0
    /\ Borrowed(steps[4].in) = (IF Len(steps) = 5 THEN steps[5].out ELSE 0)

\* plan_deleverage, by its amounts.
LEMMA DeleverageShape ==
    ASSUME NEW s \in States, RedeemShortfall(s) # 0, s.debt # 0, PricedCollateral(s) > s.debt
    PROVE  Deleverages(s, PlanDeleverage(s))
<1> DEFINE equity == PricedCollateral(s) - s.debt
           part == Min({DelevTarget(s), equity})
           out == (s.collateral * part) \div equity
           repay == (s.debt * part) \div equity
           min == Tolerated(UsdcFor(out, s.price))
<1>1. /\ s.debt \in Nat /\ PricedCollateral(s) \in Nat /\ RedeemShortfall(s) \in Nat
    BY ReadAmounts, ShortfallIsNat
<1>2. equity \in Nat \ {0}
    BY <1>1
<1>3. DelevTarget(s) \in Nat
    <2>1. PricedCollateral(s) * Par \in Nat
        BY <1>1, ProductIsNat DEF Par
    <2> HIDE DEF equity
    <2>2. (PricedCollateral(s) * Par) \div equity \in Nat
        BY <1>2, <2>1, QuotientIsNat
    <2>3. 60 * ((PricedCollateral(s) * Par) \div equity) \in Nat
        BY <2>2, ProductIsNat
    <2>4. Cushion(equity, s) \in Nat
        BY <2>3, QuotientIsNat DEF Cushion, Par
    <2>5. RedeemShortfall(s) * Cushion(equity, s) \in Nat
        BY <1>1, <2>4, ProductIsNat
    <2>6. (RedeemShortfall(s) * Cushion(equity, s)) \div Par \in Nat
        BY <2>5, QuotientIsNat DEF Par
    <2> QED BY <1>1, <2>6 DEF DelevTarget, equity
<1>4. part = DelevPart(s)
    BY <1>2, <1>3, MinOfTwo DEF DelevPart
<1>5. PlanDeleverage(s) = <<[op |-> "flashLoan", repay |-> repay, out |-> out, min |-> min]>>
    BY DEF PlanDeleverage, DelevTarget
<1> HIDE DEF part, equity
<1>6. /\ IsDeleverage(PlanDeleverage(s))
      /\ PlanDeleverage(s)[1].out = out /\ PlanDeleverage(s)[1].repay = repay
      /\ PlanDeleverage(s)[1].min = min
    BY <1>5 DEF IsDeleverage
<1> QED BY <1>4, <1>6 DEF Deleverages, equity

\* plan_redeem_collateral, by its amounts.
LEMMA SpotUnwindShape ==
    ASSUME NEW s \in States, RedeemShortfall(s) # 0, s.debt = 0, PlanRedeemCollateral(s) # Empty
    PROVE  SpotUnwinds(s, PlanRedeemCollateral(s))
<1> DEFINE target == RedeemShortfall(s) + RedeemShortfall(s) \div 100
           wanted == UsdeFor((target * Par) \div 9950, s.price)
           out == Min({wanted, s.collateral})
           min == Tolerated(UsdcFor(out, s.price))
<1>1. s.collateral \in Nat /\ s.price \in Nat \ {0} /\ RedeemShortfall(s) \in Nat
    BY ReadAmounts, ShortfallIsNat
<1>2. target \in Nat
    BY <1>1, QuotientIsNat
<1>3. target * Par \in Nat
    BY <1>2, ProductIsNat DEF Par
<1>4. (target * Par) \div 9950 \in Nat
    BY <1>3, QuotientIsNat
<1>5. wanted \in Nat
    <2> DEFINE u == (target * Par) \div 9950
    <2>1. u \in Nat
        BY <1>4
    <2> HIDE DEF u
    <2>2. UsdeFor(u, s.price) \in Nat
        BY <1>1, <2>1, ConvertedIsNat
    <2> QED BY <2>2 DEF u
<1>6. PlanRedeemCollateral(s) = IF out = 0 THEN Empty
                                ELSE <<[op |-> "withdraw", out |-> out], [op |-> "approve"],
                                       [op |-> "swapOut", in |-> out, min |-> min]>>
    BY DEF PlanRedeemCollateral
<1> HIDE DEF wanted
<1>7. out = IF wanted <= s.collateral THEN wanted ELSE s.collateral
    BY <1>1, <1>5, MinOfTwo
<1> HIDE DEF out
<1>8. PlanRedeemCollateral(s) = <<[op |-> "withdraw", out |-> out], [op |-> "approve"],
                                  [op |-> "swapOut", in |-> out, min |-> min]>>
    BY <1>6
<1> HIDE DEF min, target
<1>9. /\ IsSpotUnwind(PlanRedeemCollateral(s))
      /\ PlanRedeemCollateral(s)[1].out = out /\ PlanRedeemCollateral(s)[3].min = min
    BY <1>8 DEF IsSpotUnwind
<1> QED BY <1>7, <1>9 DEF SpotUnwinds, wanted, min, target

\* Four steps and one more.
LEMMA FourAndOne ==
    ASSUME NEW a, NEW b, NEW c, NEW d, NEW e
    PROVE  LET steps == <<a, b, c, d>> \o <<e>>
           IN  /\ Len(steps) = 5 /\ steps[1] = a /\ steps[2] = b /\ steps[3] = c
               /\ steps[4] = d /\ steps[5] = e
<1> DEFINE any == {a, b, c, d, e}
           first == <<a, b, c, d>>
           last == <<e>>
<1>1. /\ first \in Seq(any) /\ last \in Seq(any) /\ Len(first) = 4 /\ Len(last) = 1
      /\ first[1] = a /\ first[2] = b /\ first[3] = c /\ first[4] = d /\ last[1] = e
    OBVIOUS
<1> HIDE DEF first, last, any
<1>2. /\ Len(first \o last) = 5
      /\ \A i \in 1 .. 5 : (first \o last)[i] = IF i <= 4 THEN first[i] ELSE last[i - 4]
    <2>1. /\ Len(first \o last) = Len(first) + Len(last)
          /\ \A i \in 1 .. Len(first) + Len(last) :
                 (first \o last)[i] = IF i <= Len(first) THEN first[i] ELSE last[i - Len(first)]
        BY <1>1, ConcatProperties
    <2> QED BY <1>1, <2>1
<1>3. LET steps == first \o last
      IN  /\ Len(steps) = 5 /\ steps[1] = a /\ steps[2] = b /\ steps[3] = c
          /\ steps[4] = d /\ steps[5] = e
    <2> DEFINE steps == first \o last
    <2>1. Len(steps) = 5 /\ \A i \in 1 .. 5 : steps[i] = IF i <= 4 THEN first[i] ELSE last[i - 4]
        BY <1>2
    <2> HIDE DEF steps
    <2>2. /\ steps[1] = first[1] /\ steps[2] = first[2] /\ steps[3] = first[3]
          /\ steps[4] = first[4] /\ steps[5] = last[1]
        BY <2>1
    <2> QED BY <1>1, <2>1, <2>2 DEF steps
<1> QED BY <1>3 DEF first, last

\* plan_open_position, by what it borrows against what it supplies.
LEMMA OpeningShape ==
    ASSUME NEW s \in States, Leverage > Par, s.pendingRedeemShares = 0, PlanOpenPosition(s) # Empty
    PROVE  Opens(s, PlanOpenPosition(s))
<1> DEFINE usable == Min({AttestedNav(s), s.balance})
           deployed == (usable * 99) \div 100
           supplied == Tolerated(UsdeFor(deployed, s.price))
           opens == <<[op |-> "approve"], [op |-> "swapIn", in |-> deployed, min |-> supplied],
                      [op |-> "approve"], [op |-> "supply", in |-> supplied]>>
           borrows == <<[op |-> "borrow", out |-> Borrowed(supplied)]>>
<1>1. PlanOpenPosition(s) = IF deployed < OneUsdc THEN Empty
                            ELSE opens \o IF Borrowed(supplied) = 0 THEN <<>> ELSE borrows
    BY DEF PlanOpenPosition
<1> HIDE DEF deployed, supplied
<1>2. CASE Borrowed(supplied) = 0
    <2>1. PlanOpenPosition(s) = opens
        BY <1>1, <1>2
    <2>2. IsOpening(PlanOpenPosition(s)) /\ Len(PlanOpenPosition(s)) = 4
          /\ PlanOpenPosition(s)[4].in = supplied
        BY <2>1 DEF IsOpening
    <2> QED BY <1>2, <2>2 DEF Opens
<1>3. CASE Borrowed(supplied) # 0
    <2>1. PlanOpenPosition(s) = opens \o borrows
        BY <1>1, <1>3
    <2>2. /\ Len(PlanOpenPosition(s)) = 5
          /\ PlanOpenPosition(s)[1] = opens[1] /\ PlanOpenPosition(s)[2] = opens[2]
          /\ PlanOpenPosition(s)[3] = opens[3] /\ PlanOpenPosition(s)[4] = opens[4]
          /\ PlanOpenPosition(s)[5] = borrows[1]
        BY <2>1, FourAndOne
    <2>3. /\ opens[1].op = "approve" /\ opens[2].op = "swapIn" /\ opens[3].op = "approve"
          /\ opens[4].op = "supply" /\ opens[4].in = supplied
          /\ borrows[1].op = "borrow" /\ borrows[1].out = Borrowed(supplied)
        OBVIOUS
    <2> HIDE DEF opens, borrows
    <2>4. IsOpening(PlanOpenPosition(s)) /\ Len(PlanOpenPosition(s)) = 5
          /\ PlanOpenPosition(s)[4].in = supplied
          /\ PlanOpenPosition(s)[5].out = Borrowed(supplied)
        BY <2>2, <2>3 DEF IsOpening
    <2> QED BY <2>4 DEF Opens
<1> QED BY <1>2, <1>3

\* Every plan has one of the shapes.
LEMMA PlanShape ==
    ASSUME NEW s \in States
    PROVE  \/ CyclePlan(s) = Empty
           \/ Deleverages(s, CyclePlan(s)) \/ SpotUnwinds(s, CyclePlan(s)) \/ Opens(s, CyclePlan(s))
<1>1. s.debt \in Nat /\ PricedCollateral(s) \in Nat /\ s.collateral \in Nat
      /\ RedeemShortfall(s) \in Nat
    BY ReadAmounts, ShortfallIsNat
<1>2. CASE RedeemShortfall(s) # 0 /\ s.debt # 0
    <2>1. BuildActionPlan(s) = IF PricedCollateral(s) <= s.debt THEN Empty ELSE PlanDeleverage(s)
        BY <1>2 DEF BuildActionPlan
    <2> QED BY <1>1, <1>2, <2>1, DeleverageShape DEF CyclePlan
<1>3. CASE RedeemShortfall(s) # 0 /\ s.debt = 0 /\ s.collateral # 0
    <2>1. BuildActionPlan(s) = PlanRedeemCollateral(s)
        BY <1>3 DEF BuildActionPlan
    <2> QED BY <1>3, <2>1, SpotUnwindShape DEF CyclePlan
<1>4. CASE RedeemShortfall(s) = 0 \/ (s.debt = 0 /\ s.collateral = 0)
    <2>1. BuildActionPlan(s) = IF s.pendingRedeemShares # 0 \/ Leverage <= Par \/ s.debt # 0
                               THEN Empty ELSE PlanOpenPosition(s)
        BY <1>4 DEF BuildActionPlan
    <2>2. ~(Leverage <= Par) => Leverage > Par
        BY NavAssumption DEF Par
    <2> QED BY <2>1, <2>2, OpeningShape DEF CyclePlan
<1> QED BY <1>2, <1>3, <1>4

-----------------------------------------------------------------------------
(* The leverage of the position                                            *)

\* How many steps of the plan attested by the strike in flight were taken.
StepsTaken == Len(CyclePlan(read)) - Len(plan)

\* What is left of the plan is its end; the rest was taken, and moved this much.
PlanRuns ==
    LET steps == CyclePlan(read)
    IN  /\ StepsTaken \in 0 .. Len(steps) /\ stepsLeft = Len(plan)
        /\ \A i \in 1 .. Len(plan) : plan[i] = steps[StepsTaken + i]
        /\ phase = "redeems" => Len(plan) = 0
        /\ collateral = savedVenue[1] + Supplied(steps, StepsTaken) - Withdrawn(steps, StepsTaken)
        /\ debt = savedVenue[2] + Lent(steps, StepsTaken) - Repaid(steps, StepsTaken)
        /\ ~IsOpening(steps) => usdc >= saved.usdc + Freed(steps, StepsTaken)

\* No transaction adds to the debt between a block read after the last strike and the next one.
DebtKept ==
    \A b \in 1 .. MaxBlock : history[b].known /\ b >= landed => debt <= history[b].debt

\* The strike in flight is about the position it was computed from, unless it was read too early.
StrikeInFlight ==
    /\ ~Idle => read \in States
    /\ phase = "deposits" =>
          /\ plan = CyclePlan(read)
          /\ fresh => collateral = read.collateral /\ debt <= read.debt
    /\ InPlan =>
          /\ PlanRuns
          /\ fresh => savedVenue[1] = read.collateral /\ savedVenue[2] <= read.debt

\* What the plan in flight did, and what it is about.
PlanInv == DebtKept /\ StrikeInFlight /\ NeverOverLevered

\* The amount a deleverage is to free is a natural.
LEMMA TargetIsNat ==
    ASSUME NEW s \in States, PricedCollateral(s) > s.debt
    PROVE  DelevTarget(s) \in Nat
<1> DEFINE equity == PricedCollateral(s) - s.debt
<1>1. /\ s.debt \in Nat /\ PricedCollateral(s) \in Nat /\ RedeemShortfall(s) \in Nat
    BY ReadAmounts, ShortfallIsNat
<1>2. equity \in Nat \ {0}
    BY <1>1
<1>3. PricedCollateral(s) * Par \in Nat
    BY <1>1, ProductIsNat DEF Par
<1> HIDE DEF equity
<1>4. (PricedCollateral(s) * Par) \div equity \in Nat
    BY <1>2, <1>3, QuotientIsNat
<1>5. 60 * ((PricedCollateral(s) * Par) \div equity) \in Nat
    BY <1>4, ProductIsNat
<1>6. Cushion(equity, s) \in Nat
    BY <1>5, QuotientIsNat DEF Cushion, Par
<1>7. RedeemShortfall(s) * Cushion(equity, s) \in Nat
    BY <1>1, <1>6, ProductIsNat
<1>8. (RedeemShortfall(s) * Cushion(equity, s)) \div Par \in Nat
    BY <1>7, QuotientIsNat DEF Par
<1> QED BY <1>1, <1>8 DEF DelevTarget, equity

\* A spot unwind sells no more than the collateral there is.
LEMMA SpotOutIsNat ==
    ASSUME NEW s \in States, NEW steps, SpotUnwinds(s, steps)
    PROVE  steps[1].out \in Nat /\ steps[1].out <= s.collateral
<1> DEFINE target == RedeemShortfall(s) + RedeemShortfall(s) \div 100
           u == (target * Par) \div 9950
           wanted == UsdeFor(u, s.price)
<1>1. s.collateral \in Nat /\ s.price \in Nat \ {0} /\ RedeemShortfall(s) \in Nat
    BY ReadAmounts, ShortfallIsNat
<1>2. target \in Nat
    BY <1>1, QuotientIsNat
<1>3. target * Par \in Nat
    BY <1>2, ProductIsNat DEF Par
<1>4. u \in Nat
    BY <1>3, QuotientIsNat
<1> HIDE DEF u
<1>5. wanted \in Nat
    BY <1>1, <1>4, ConvertedIsNat
<1>6. steps[1].out = (IF wanted <= s.collateral THEN wanted ELSE s.collateral)
    BY DEF SpotUnwinds, u
<1> HIDE DEF wanted
<1> QED BY <1>1, <1>5, <1>6

\* The borrowed part of the leverage is a natural.
LEMMA LeverFactor ==
    /\ Leverage \in Nat /\ Max({Leverage - Par, 0}) \in Nat
    /\ Leverage > Par => Max({Leverage - Par, 0}) = Leverage - Par
<1>1. Leverage \in Nat /\ Par \in Nat
    BY NavAssumption DEF Par
<1> QED BY <1>1, MaxOfTwo

\* What a plan leaves of the leverage, from the position it started with.
LEMMA ExcessAfter ==
    ASSUME NEW s \in States, NEW steps, steps = CyclePlan(s),
           NEW c0 \in Nat, NEW d0 \in Nat,
           RedeemShortfall(s) # 0 => c0 = s.collateral /\ d0 <= s.debt,
           NEW c, NEW d,
           c = c0 + Supplied(steps, Len(steps)) - Withdrawn(steps, Len(steps)),
           d = d0 + Lent(steps, Len(steps)) - Repaid(steps, Len(steps))
    PROVE  Excess(d, c) <= Max({Excess(d0, c0), 0}) + Leverage
<1> DEFINE k == Max({Leverage - Par, 0})
           over == Max({Excess(d0, c0), 0})
<1>1. Leverage \in Nat /\ k \in Nat /\ (Leverage > Par => k = Leverage - Par)
    BY LeverFactor
<1>2. Excess(d0, c0) = d0 * Leverage - c0 * k /\ Excess(d, c) = d * Leverage - c * k
    BY DEF Excess
<1> HIDE DEF k
<1>3. Excess(d0, c0) \in Int
    BY <1>1, <1>2
<1>4. over \in Nat /\ Excess(d0, c0) <= over
    BY <1>3, MaxOfTwo
<1> HIDE DEF over
<1>5. /\ s.collateral \in Nat /\ s.debt \in Nat /\ PricedCollateral(s) \in Nat
      /\ RedeemShortfall(s) \in Nat
    BY ReadAmounts, ShortfallIsNat
<1>6. CASE steps = Empty
    <2>1. Len(steps) = 0
        BY <1>6 DEF Empty
    <2>2. c = c0 /\ d = d0
        BY <2>1 DEF Supplied, Withdrawn, Lent, Repaid
    <2> QED BY <1>1, <1>3, <1>4, <2>2 DEF over
<1>7. CASE Deleverages(s, steps)
    <2> DEFINE equity == PricedCollateral(s) - s.debt
               part == DelevPart(s)
               out == (s.collateral * part) \div equity
               repay == (s.debt * part) \div equity
    <2>1. c0 = s.collateral /\ d0 <= s.debt /\ equity \in Nat /\ equity > 0
        BY <1>5, <1>7 DEF Deleverages
    <2>2. part \in Nat /\ part <= equity
        <3>1. PricedCollateral(s) > s.debt
            BY <1>7 DEF Deleverages
        <3>2. DelevTarget(s) \in Nat
            BY <3>1, TargetIsNat
        <3>3. part = IF DelevTarget(s) <= equity THEN DelevTarget(s) ELSE equity
            BY DEF DelevPart
        <3> HIDE DEF equity, part
        <3> QED BY <2>1, <3>2, <3>3
    <2>3. /\ Len(steps) = 1
          /\ steps[1].op = "flashLoan" /\ steps[1].out = out /\ steps[1].repay = repay
        BY <1>7 DEF Deleverages, IsDeleverage
    <2>4. c = c0 + 0 - out /\ d = d0 + 0 - repay
        BY <2>3 DEF Supplied, Withdrawn, Lent, Repaid
    <2> HIDE DEF equity, part
    <2>5. out \in Nat /\ repay \in Nat
        <3>1. s.collateral * part \in Nat /\ s.debt * part \in Nat
            BY <1>5, <2>2, ProductIsNat
        <3>2. equity \in Nat \ {0}
            BY <2>1
        <3> QED BY <3>1, <3>2, QuotientIsNat
    <2>6. d0 * Leverage - c0 * k <= over
        BY <1>2, <1>4
    <2>7. (d0 - repay) * Leverage - (s.collateral - out) * k <= over + Leverage
        BY <1>1, <1>4, <1>5, <2>1, <2>2, <2>6, UnwindKeepsLeverage
    <2> HIDE DEF out, repay
    <2>8. c = c0 - out /\ d = d0 - repay
        BY <2>4, <2>5
    <2> QED BY <1>2, <2>1, <2>7, <2>8 DEF over
<1>8. CASE SpotUnwinds(s, steps)
    <2>1. s.debt = 0 /\ RedeemShortfall(s) # 0 /\ Len(steps) = 3 /\ steps[1].op = "withdraw"
        BY <1>8 DEF SpotUnwinds, IsSpotUnwind
    <2>2. d0 = 0
        BY <2>1
    <2>3. d = 0
        BY <2>1, <2>2 DEF Lent, Repaid
    <2>4. steps[1].out \in Nat /\ steps[1].out <= s.collateral
        BY <1>5, <1>8, SpotOutIsNat
    <2>5. c \in Nat
        BY <2>1, <2>4 DEF Supplied, Withdrawn
    <2>6. c * k \in Nat
        BY <1>1, <2>5, ProductIsNat
    <2>7. d * Leverage = 0
        BY <1>1, <2>3
    <2>8. Excess(d, c) <= 0
        BY <1>2, <2>6, <2>7
    <2> QED BY <1>1, <1>2, <1>4, <2>6, <2>7 DEF over
<1>9. CASE Opens(s, steps)
    <2> DEFINE x == steps[4].in
               lent == Borrowed(x)
    <2>1. /\ Len(steps) \in {4, 5} /\ steps[1].op = "approve" /\ steps[4].op = "supply"
          /\ Leverage > Par /\ lent = IF Len(steps) = 5 THEN steps[5].out ELSE 0
        BY <1>9 DEF Opens, IsOpening
    <2>2. x \in Nat
        <3>1. steps \in Seq(PlanSteps)
            BY PlanIsSteps
        <3>2. steps[4] \in PlanSteps
            BY <2>1, <3>1
        <3> QED BY <2>1, <3>2, StepAmounts
    <2>3. k = Leverage - Par
        BY <1>1, <2>1
    <2>4. x * k \in Nat
        BY <1>1, <2>2, ProductIsNat
    <2>5. lent \in Nat /\ lent * Leverage <= x * k
        <3> DEFINE xk == x * k
        <3>1. lent = xk \div Leverage /\ xk \in Nat
            BY <2>3, <2>4 DEF Borrowed
        <3>2. Leverage \in Nat /\ Leverage > 0
            BY <1>1, <2>1, NavAssumption DEF Par
        <3> HIDE DEF xk, lent, x
        <3>3. lent \in Nat /\ lent * Leverage <= xk
            BY <3>1, <3>2, DivBounds
        <3> QED BY <3>3 DEF xk
    <2>6. c = c0 + x - 0 /\ d = d0 + lent - 0
        BY <2>1 DEF Supplied, Withdrawn, Lent, Repaid
    <2> HIDE DEF x, lent
    <2>7. c = c0 + x /\ d = d0 + lent
        BY <2>2, <2>5, <2>6
    <2>8. /\ d * Leverage = d0 * Leverage + lent * Leverage /\ c * k = c0 * k + x * k
          /\ d0 * Leverage \in Int /\ c0 * k \in Int /\ lent * Leverage \in Int
        BY <1>1, <2>2, <2>5, <2>7
    <2> DEFINE dl == d0 * Leverage
               ck == c0 * k
               ll == lent * Leverage
               xk == x * k
    <2>9. Excess(d, c) = (dl + ll) - (ck + xk) /\ Excess(d0, c0) = dl - ck
        BY <1>2, <2>8
    <2>10. dl \in Int /\ ck \in Int /\ ll \in Int /\ xk \in Int /\ ll <= xk
        BY <2>4, <2>5, <2>8
    <2> HIDE DEF dl, ck, ll, xk
    <2> QED BY <1>1, <1>4, <2>9, <2>10 DEF over
<1> QED BY <1>6, <1>7, <1>8, <1>9, PlanShape

\* A step of the plan on the position and on the vault's balance.
StepEffect(step) ==
    /\ collateral' = collateral + (IF step.op = "supply" THEN step.in ELSE 0)
                                - (IF step.op \in {"withdraw", "flashLoan"} THEN step.out ELSE 0)
    /\ debt' = debt + (IF step.op = "borrow" THEN step.out ELSE 0)
                    - (IF step.op = "flashLoan" THEN step.repay ELSE 0)
    /\ step.op \in {"approve", "withdraw", "swapOut", "flashLoan"} =>
           usdc' >= usdc + (IF step.op \in {"swapOut", "flashLoan"} THEN step.min ELSE 0)
                         - (IF step.op = "flashLoan" THEN step.repay ELSE 0)

\* A plan step that succeeds takes the head of the plan, and has its effect.
LEMMA CycleStepEffect ==
    ASSUME CycleInv, CycleStep
    PROVE  /\ plan # <<>> /\ Head(plan) \in PlanSteps /\ plan' = Tail(plan)
           /\ StepEffect(Head(plan))
           /\ phase = "plan" /\ phase' = "plan" /\ stepsLeft' = stepsLeft - 1 /\ saved' = saved
           /\ UNCHANGED <<price, history, savedVenue, strikeGhosts>>
<1> DEFINE step == Head(plan)
<1>1. plan \in Seq(PlanSteps) /\ plan # <<>>
    BY DEF CycleInv, CycleTypes, CycleStep, Empty
<1>2. step \in PlanSteps
    BY <1>1
<1>3. plan' = Tail(plan) /\ UNCHANGED <<price, history, savedVenue, strikeGhosts>>
    BY DEF CycleStep, StepTaken
<1>4. /\ step.op \in {"supply", "swapIn", "swapOut"} => step.in \in Nat
      /\ step.op \in {"swapIn", "swapOut", "flashLoan"} => step.min \in Nat
      /\ step.op \in {"borrow", "withdraw", "flashLoan"} => step.out \in Nat
      /\ step.op = "flashLoan" => step.repay \in Nat
    BY <1>2, StepAmounts
<1>5. usdc \in Nat /\ collateral \in Nat /\ debt \in Nat /\ price \in Nat \ {0}
    BY VaultAmounts DEF CycleInv, CycleTypes
<1>6. \A balance : PlanStep(balance) =>
          /\ usdc' = balance /\ phase = "plan" /\ phase' = "plan"
          /\ stepsLeft' = stepsLeft - 1 /\ saved' = saved
    BY DEF PlanStep
<1>7. /\ \E balance : PlanStep(balance)
      /\ StepEffect(step)
    <2>1. CASE step.op = "approve" /\ PlanStep(usdc) /\ UNCHANGED venueVars
        BY <1>5, <1>6, <2>1 DEF venueVars, StepEffect
    <2>2. CASE /\ step.op = "swapIn" /\ step.in <= usdc /\ PlanStep(usdc - step.in)
               /\ \E out \in Outcomes(step.min, UsdeFor(step.in, price)) : usde' = usde + out
               /\ UNCHANGED <<collateral, debt>>
        BY <1>5, <1>6, <2>2 DEF StepEffect
    <2>3. CASE /\ step.op = "supply" /\ step.in <= usde /\ PlanStep(usdc)
               /\ usde' = usde - step.in /\ collateral' = collateral + step.in /\ UNCHANGED debt
        BY <1>4, <1>5, <1>6, <2>3 DEF StepEffect
    <2>4. CASE /\ step.op = "borrow" /\ PlanStep(usdc + step.out)
               /\ debt' = debt + step.out /\ UNCHANGED <<collateral, usde>>
        BY <1>4, <1>5, <1>6, <2>4 DEF StepEffect
    <2>5. CASE /\ step.op = "withdraw" /\ step.out <= collateral /\ PlanStep(usdc)
               /\ collateral' = collateral - step.out /\ usde' = usde + step.out /\ UNCHANGED debt
        BY <1>4, <1>5, <1>6, <2>5 DEF StepEffect
    <2>6. CASE /\ step.op = "swapOut" /\ step.in <= usde
               /\ \E out \in Outcomes(step.min, UsdcFor(step.in, price)) : PlanStep(usdc + out)
               /\ usde' = usde - step.in /\ UNCHANGED <<collateral, debt>>
        <3>1. PICK out \in Outcomes(step.min, UsdcFor(step.in, price)) : PlanStep(usdc + out)
            BY <2>6
        <3>2. out \in Nat /\ out >= step.min
            BY <1>4, <1>5, <2>6, <3>1, ConvertedIsNat DEF Outcomes
        <3>3. usdc' >= usdc + step.min
            BY <1>4, <1>5, <1>6, <2>6, <3>1, <3>2
        <3> QED BY <1>4, <1>5, <2>6, <3>1, <3>3 DEF StepEffect
    <2>7. CASE /\ step.op = "flashLoan" /\ step.repay <= debt /\ step.out <= collateral
               /\ \E out \in Outcomes(step.min, UsdcFor(step.out, price)) :
                     usdc + out >= step.repay /\ PlanStep(usdc + out - step.repay)
               /\ debt' = debt - step.repay /\ collateral' = collateral - step.out /\ UNCHANGED usde
        <3>1. PICK out \in Outcomes(step.min, UsdcFor(step.out, price)) :
                     PlanStep(usdc + out - step.repay)
            BY <2>7
        <3>2. step.min \in Nat /\ step.repay \in Nat /\ step.out \in Nat
            BY <1>4, <2>7
        <3>3. out \in Nat /\ out >= step.min
            BY <1>5, <3>1, <3>2, ConvertedIsNat DEF Outcomes
        <3>4. usdc' = usdc + out - step.repay
            BY <1>6, <3>1
        <3>5. usdc' >= usdc + step.min - step.repay
            BY <1>5, <3>2, <3>3, <3>4
        <3> QED BY <1>5, <2>7, <3>2, <3>5 DEF StepEffect
    <2> QED BY <2>1, <2>2, <2>3, <2>4, <2>5, <2>6, <2>7 DEF CycleStep
<1> QED BY <1>1, <1>2, <1>3, <1>6, <1>7

\* What one more step of a plan of this shape moves is what it is counted for.
LEMMA StepIsCounted ==
    ASSUME NEW s \in States, NEW steps, steps = CyclePlan(s), NEW n \in Nat, n < Len(steps),
           StepEffect(steps[n + 1]), CycleInv,
           NEW c0 \in Nat, NEW d0 \in Nat, NEW u0 \in Nat,
           collateral = c0 + Supplied(steps, n) - Withdrawn(steps, n),
           debt = d0 + Lent(steps, n) - Repaid(steps, n),
           ~IsOpening(steps) => usdc >= u0 + Freed(steps, n),
           usdc' \in Nat
    PROVE  /\ collateral' = c0 + Supplied(steps, n + 1) - Withdrawn(steps, n + 1)
           /\ debt' = d0 + Lent(steps, n + 1) - Repaid(steps, n + 1)
           /\ ~IsOpening(steps) => usdc' >= u0 + Freed(steps, n + 1)
<1>1. collateral \in Nat /\ debt \in Nat /\ usdc \in Nat
    BY VaultAmounts
<1>2. steps \in Seq(PlanSteps)
    BY PlanIsSteps
<1>3. \A i \in 1 .. Len(steps) :
          /\ steps[i].op \in {"supply", "swapIn", "swapOut"} => steps[i].in \in Nat
          /\ steps[i].op \in {"swapIn", "swapOut", "flashLoan"} => steps[i].min \in Nat
          /\ steps[i].op \in {"borrow", "withdraw", "flashLoan"} => steps[i].out \in Nat
          /\ steps[i].op = "flashLoan" => steps[i].repay \in Nat
    BY <1>2, StepAmounts
<1>4. CASE steps = Empty
    BY <1>4 DEF Empty
<1>5. CASE Deleverages(s, steps)
    <2>1. Len(steps) = 1 /\ steps[1].op = "flashLoan" /\ n = 0
        BY <1>5 DEF Deleverages, IsDeleverage
    <2>2. /\ Supplied(steps, 0) = 0 /\ Withdrawn(steps, 0) = 0 /\ Lent(steps, 0) = 0
          /\ Repaid(steps, 0) = 0 /\ Freed(steps, 0) = 0
          /\ Supplied(steps, 1) = 0 /\ Withdrawn(steps, 1) = steps[1].out /\ Lent(steps, 1) = 0
          /\ Repaid(steps, 1) = steps[1].repay /\ Freed(steps, 1) = steps[1].min - steps[1].repay
        BY <2>1 DEF Supplied, Withdrawn, Lent, Repaid, Freed
    <2>3. ~IsOpening(steps)
        BY <2>1 DEF IsOpening
    <2> QED BY <1>1, <1>3, <2>1, <2>2, <2>3 DEF StepEffect
<1>6. CASE SpotUnwinds(s, steps)
    <2>1. /\ Len(steps) = 3 /\ steps[1].op = "withdraw" /\ steps[2].op = "approve"
          /\ steps[3].op = "swapOut" /\ ~IsOpening(steps)
        BY <1>6 DEF SpotUnwinds, IsSpotUnwind, IsOpening
    <2>2. /\ \A m \in 0 .. 3 : /\ Supplied(steps, m) = 0 /\ Lent(steps, m) = 0
                               /\ Repaid(steps, m) = 0
                               /\ Withdrawn(steps, m) = IF m >= 1 THEN steps[1].out ELSE 0
                               /\ Freed(steps, m) = IF m >= 3 THEN steps[3].min ELSE 0
        BY <2>1 DEF Supplied, Withdrawn, Lent, Repaid, Freed
    <2>3. n \in {0, 1, 2} /\ n \in 0 .. 3 /\ n + 1 \in 0 .. 3
        BY <2>1
    <2>4. CASE n = 0
        BY <1>1, <1>3, <2>1, <2>2, <2>3, <2>4 DEF StepEffect
    <2>5. CASE n = 1
        BY <1>1, <1>3, <2>1, <2>2, <2>3, <2>5 DEF StepEffect
    <2>6. CASE n = 2
        BY <1>1, <1>3, <2>1, <2>2, <2>3, <2>6 DEF StepEffect
    <2> QED BY <2>3, <2>4, <2>5, <2>6
<1>7. CASE Opens(s, steps)
    <2>1. /\ Len(steps) \in {4, 5} /\ steps[1].op = "approve" /\ steps[2].op = "swapIn"
          /\ steps[3].op = "approve" /\ steps[4].op = "supply"
          /\ Len(steps) = 5 => steps[5].op = "borrow"
          /\ IsOpening(steps)
        BY <1>7 DEF Opens, IsOpening
    <2>2. /\ \A m \in 0 .. 5 : /\ Supplied(steps, m) = IF m >= 4 THEN steps[4].in ELSE 0
                               /\ Lent(steps, m) = IF m >= 5 THEN steps[5].out ELSE 0
                               /\ Repaid(steps, m) = 0 /\ Withdrawn(steps, m) = 0
        BY <2>1 DEF Supplied, Withdrawn, Lent, Repaid
    <2>3. n \in {0, 1, 2, 3, 4} /\ n \in 0 .. 5 /\ n + 1 \in 0 .. 5 /\ (n = 4 => Len(steps) = 5)
        BY <2>1
    <2>4. CASE n = 3
        BY <1>1, <1>3, <2>1, <2>2, <2>3, <2>4 DEF StepEffect
    <2>5. CASE n = 4
        BY <1>1, <1>3, <2>1, <2>2, <2>3, <2>5 DEF StepEffect
    <2>6. CASE n \in {0, 1, 2}
        <3>1. steps[n + 1].op \in {"approve", "swapIn"}
            BY <2>1, <2>6
        <3>2. collateral' = collateral + 0 - 0 /\ debt' = debt + 0 - 0
            BY <3>1 DEF StepEffect
        <3>3. /\ Supplied(steps, n) = 0 /\ Supplied(steps, n + 1) = 0
              /\ Lent(steps, n) = 0 /\ Lent(steps, n + 1) = 0
            BY <2>2, <2>3, <2>6
        <3> QED BY <1>1, <2>1, <2>2, <2>3, <3>2, <3>3
    <2> QED BY <2>3, <2>4, <2>5, <2>6
<1> QED BY <1>4, <1>5, <1>6, <1>7, PlanShape

\* Inside a strike no block that may be attested is as late as the strike.
LEMMA NoneIsLater ==
    ASSUME CycleInv, ~Idle
    PROVE  \A b \in 1 .. MaxBlock : ~(history[b].known /\ b >= landed)
<1>1. landed = block /\ block \in Nat /\ \A b \in 1 .. MaxBlock : history[b].known => b < block
    BY VaultAmounts DEF CycleInv, BlocksEnded
<1> QED BY <1>1, VaultAssumption

\* A smaller debt is no further above the leverage.
LEMMA ExcessOfLess ==
    ASSUME NEW d \in Nat, NEW e \in Nat, NEW c \in Nat, e <= d
    PROVE  Excess(e, c) \in Int /\ Excess(d, c) \in Int /\ Excess(e, c) <= Excess(d, c)
<1> DEFINE k == Max({Leverage - Par, 0})
<1>1. Leverage \in Nat /\ k \in Nat
    BY LeverFactor
<1>2. e * Leverage <= d * Leverage
    BY <1>1, ScaledOrder
<1>3. e * Leverage \in Nat /\ d * Leverage \in Nat /\ c * k \in Nat
    BY <1>1, ProductIsNat
<1> HIDE DEF k
<1>4. Excess(e, c) = e * Leverage - c * k /\ Excess(d, c) = d * Leverage - c * k
    BY DEF Excess, k
<1> QED BY <1>2, <1>3, <1>4

\* Between strikes the position changes by repayments only.
LEMMA QuietPlanStep ==
    ASSUME CycleInv, PlanInv, Idle, Idle', UNCHANGED <<collateral, savedVenue, read, fresh>>,
           debt' \in Nat, debt' <= debt
    PROVE  StrikeInFlight' /\ NeverOverLevered'
<1>1. StrikeInFlight'
    BY DEF StrikeInFlight, Idle, InPlan
<1>2. collateral \in Nat /\ debt \in Nat /\ savedVenue \in Nat \X Nat \X Nat
    BY DEF CycleInv, CycleTypes
<1>3. Excess(debt', collateral) <= Excess(debt, collateral) /\ Excess(debt', collateral) \in Int
      /\ Excess(debt, collateral) \in Int
    BY <1>2, ExcessOfLess
<1>4. SUFFICES ASSUME fresh \/ RedeemShortfall(read) = 0
               PROVE  Excess(debt', collateral)
                          <= Max({Excess(savedVenue[2], savedVenue[1]), 0}) + Leverage
    BY <1>1 DEF NeverOverLevered
<1> DEFINE bound == Max({Excess(savedVenue[2], savedVenue[1]), 0}) + Leverage
<1>5. Excess(debt, collateral) <= bound
    BY <1>4 DEF PlanInv, NeverOverLevered
<1>6. bound \in Int
    <2>1. Excess(savedVenue[2], savedVenue[1]) \in Int
        BY <1>2, ExcessOfLess
    <2>2. Max({Excess(savedVenue[2], savedVenue[1]), 0}) \in Int
        BY <2>1, MaxOfTwo
    <2> QED BY <2>2, LeverFactor
<1> HIDE DEF bound
<1>7. Excess(debt', collateral) <= bound
    BY <1>3, <1>5, <1>6
<1> QED BY <1>7 DEF bound

\* The blocks still read as they did, whatever was repaid since.
LEMMA DebtKeptFrame ==
    ASSUME CycleInv, PlanInv, UNCHANGED <<history, landed>>, debt' \in Nat, debt' <= debt
    PROVE  DebtKept'
<1> SUFFICES ASSUME NEW b \in 1 .. MaxBlock, history[b].known, b >= landed
             PROVE  debt' <= history[b].debt
    BY DEF DebtKept
<1>1. debt <= history[b].debt
    BY DEF PlanInv, DebtKept
<1>2. history[b] \in States
    BY DEF CycleInv, CycleTypes, NoState
<1>3. history[b].debt \in Nat /\ debt \in Nat
    BY <1>2, ReadAmounts, VaultAmounts
<1> QED BY <1>1, <1>3

\* The block that ends shows the debt as it is.
LEMMA EndBlockPlan ==
    ASSUME CycleInv, PlanInv, EndBlock
    PROVE  PlanInv'
<1>1. Idle /\ UNCHANGED <<phase, debt, collateral, savedVenue, read, fresh, landed>>
    BY DEF EndBlock, NextBlock, venueVars, strikeGhosts, strikeVars
<1>2. history' = [history EXCEPT ![block] = ChainState] /\ ChainState.debt = debt
    BY DEF EndBlock, ChainState
<1>3. debt \in Nat /\ history \in [1 .. MaxBlock -> States \cup {NoState}]
    BY VaultAmounts DEF CycleInv, CycleTypes
<1>4. Idle'
    BY <1>1 DEF Idle
<1>5. DebtKept'
    <2> SUFFICES ASSUME NEW b \in 1 .. MaxBlock, history'[b].known, b >= landed
                 PROVE  debt <= history'[b].debt
        BY <1>1 DEF DebtKept
    <2>1. CASE b = block
        <3>1. history'[b] = ChainState
            BY <1>2, <1>3, <2>1
        <3> QED BY <1>2, <1>3, <3>1
    <2>2. CASE b # block
        <3>1. history'[b] = history[b]
            BY <1>2, <1>3, <2>2
        <3> QED BY <3>1 DEF PlanInv, DebtKept
    <2> QED BY <2>1, <2>2
<1> QED BY <1>1, <1>3, <1>4, <1>5, QuietPlanStep DEF PlanInv

\* Between strikes only a repayment touches the position.
LEMMA QuietPlanSteps ==
    ASSUME CycleInv, PlanInv,
           CycleRequest \/ CycleClaim \/ Trim \/ (\E twap \in Prices : Reprice(twap))
    PROVE  PlanInv'
<1>1. Idle /\ UNCHANGED <<phase, collateral, savedVenue, read, fresh, landed, history>>
      /\ debt' \in Nat /\ debt' <= debt
    <2>1. debt \in Nat
        BY VaultAmounts
    <2>2. CASE CycleRequest
        <3>1. Idle /\ UNCHANGED phase
            BY <2>2 DEF CycleRequest, requestDeposit, requestRedeem, strikeVars
        <3> QED BY <2>1, <2>2, <3>1 DEF CycleRequest, venueVars, strikeGhosts
    <2>3. CASE CycleClaim
        <3>1. Idle /\ UNCHANGED phase
            BY <2>3 DEF CycleClaim, mint, redeem, claimDepositRefund, ClaimDeposit, ClaimRedeem,
                        strikeVars
        <3> QED BY <2>1, <2>3, <3>1 DEF CycleClaim, navVars, venueVars, strikeGhosts
    <2>4. CASE Trim
        <3> DEFINE free == usdc - EscrowFloorAmount
                   spent == Min({debt, free})
        <3>1. Idle /\ UNCHANGED phase
            BY <2>4 DEF Trim, execute, StrategistCall, strikeVars
        <3>2. spent > 0 /\ debt' = debt - spent
              /\ UNCHANGED <<collateral, savedVenue, read, fresh, landed, history>>
            BY <2>4 DEF Trim, strikeGhosts
        <3>3. free \in Int
            BY VaultAmounts
        <3>4. spent = IF debt <= free THEN debt ELSE free
            BY <2>1, <3>3, MinOfTwo
        <3> HIDE DEF spent, free
        <3>5. debt' \in Nat /\ debt' <= debt
            BY <2>1, <3>2, <3>3, <3>4
        <3> QED BY <3>1, <3>2, <3>5
    <2>5. CASE \E twap \in Prices : Reprice(twap)
        <3>1. Idle /\ UNCHANGED vars
            BY <2>5 DEF Reprice
        <3>2. UNCHANGED <<venueVars, history, savedVenue, strikeGhosts>>
            BY <2>5 DEF Reprice
        <3> QED BY <2>1, <3>1, <3>2 DEF vars, strikeVars, venueVars, strikeGhosts
    <2> QED BY <2>2, <2>3, <2>4, <2>5
<1>2. Idle'
    BY <1>1 DEF Idle
<1> QED BY <1>1, <1>2, QuietPlanStep, DebtKeptFrame DEF PlanInv

\* A strike lands: no debt was added since the block it was read at, if it is fresh.
LEMMA LandEnvelopePlan ==
    ASSUME CycleInv, PlanInv, NEW b \in 1 .. MaxBlock, LandEnvelope(b)
    PROVE  PlanInv'
<1> DEFINE s == history[b]
<1>1. /\ s.known /\ handleSignedEnvelope(b, AttestedNav(s), b, Breached(s))
      /\ plan' = CyclePlan(s) /\ read' = s /\ fresh' = (b >= landed)
      /\ UNCHANGED <<venueVars, price, savedVenue>>
    BY DEF LandEnvelope, Strikeable
<1>2. s \in States
    BY <1>1 DEF CycleInv, CycleTypes, NoState
<1>3. phase' = "deposits"
    BY <1>1 DEF handleSignedEnvelope
<1>4. CycleInv'
    BY LandEnvelopeStep
<1>5. ~Idle' /\ ~InPlan'
    BY <1>3 DEF Idle, InPlan
<1>6. \A c \in 1 .. MaxBlock : ~(history'[c].known /\ c >= landed')
    <2>1. /\ landed' = block /\ \A c \in 1 .. MaxBlock : history'[c].known => history[c].known
        BY DEF LandEnvelope, NoState
    <2>2. block \in Nat /\ \A c \in 1 .. MaxBlock : history[c].known => c < block
        BY VaultAmounts DEF CycleInv, BlocksEnded
    <2> QED BY <2>1, <2>2, VaultAssumption
<1>7. DebtKept'
    BY <1>6 DEF DebtKept
<1>8. NeverOverLevered'
    BY <1>5 DEF NeverOverLevered
<1>9. fresh' => collateral' = s.collateral /\ debt' <= s.debt
    BY <1>1 DEF CycleInv, BackingKept, PlanInv, DebtKept, venueVars
<1>10. StrikeInFlight'
    BY <1>1, <1>2, <1>5, <1>9 DEF StrikeInFlight, CyclePlan, Breached, BuildActionPlan
<1> QED BY <1>7, <1>8, <1>10 DEF PlanInv

\* A step inside a strike is about what it may change of the strike's own state.
LEMMA InStrikePlan ==
    ASSUME CycleInv, ~Idle, UNCHANGED <<history, landed>>
    PROVE  DebtKept'
BY NoneIsLater DEF DebtKept

\* Settling a deposit touches neither the plan nor the position.
LEMMA CycleDepositsPlan ==
    ASSUME CycleInv, PlanInv, CycleDeposits
    PROVE  PlanInv'
<1>1. /\ UNCHANGED <<venueVars, price, history, plan, savedVenue, strikeGhosts>>
      /\ phase = "deposits" /\ phase' = "deposits"
    BY DEF CycleDeposits, navVars, RefundDeposit, FulfillDeposit, strikeVars
<1>2. ~Idle /\ ~Idle' /\ ~InPlan'
    BY <1>1 DEF Idle, InPlan
<1>3. UNCHANGED <<collateral, debt, read, fresh, landed>>
    BY <1>1 DEF venueVars, strikeGhosts
<1>4. DebtKept'
    BY <1>1, <1>2, <1>3, InStrikePlan
<1>5. StrikeInFlight'
    BY <1>1, <1>2, <1>3 DEF PlanInv, StrikeInFlight, CyclePlan, Breached, BuildActionPlan
<1> QED BY <1>2, <1>4, <1>5 DEF PlanInv, NeverOverLevered

\* The plan starts with all its steps left, from the position it will be compared with.
LEMMA CycleEnterPlanPlan ==
    ASSUME CycleInv, PlanInv, CycleEnterPlan
    PROVE  PlanInv'
<1>1. /\ EnterPlan(Len(plan)) /\ savedVenue' = <<collateral, debt, usde>>
      /\ UNCHANGED <<venueVars, price, history, plan, strikeGhosts>>
    BY DEF CycleEnterPlan
<1>2. /\ phase = "deposits" /\ phase' = "plan" /\ stepsLeft' = Len(plan)
      /\ saved' = CurrentSnapshot /\ usdc' = usdc
    BY <1>1 DEF EnterPlan
<1>3. ~Idle /\ ~Idle' /\ read \in States
    BY <1>2 DEF Idle, PlanInv, StrikeInFlight
<1>4. UNCHANGED <<collateral, debt, read, fresh, landed, plan>>
    BY <1>1 DEF venueVars, strikeGhosts
<1> DEFINE steps == CyclePlan(read)
<1>5. plan = steps /\ steps \in Seq(PlanSteps)
    BY <1>2, <1>3, PlanIsSteps DEF PlanInv, StrikeInFlight
<1>6. DebtKept'
    BY <1>1, <1>3, <1>4, InStrikePlan
<1>7. collateral \in Nat /\ debt \in Nat /\ usdc \in Nat
    BY VaultAmounts
<1>8. saved'.usdc = usdc
    BY <1>2 DEF CurrentSnapshot
<1>9. PlanRuns'
    <2>1. StepsTaken' = 0 /\ Len(plan) \in Nat
        BY <1>4, <1>5 DEF StepsTaken
    <2>2. CyclePlan(read)' = steps
        BY <1>4
    <2>3. /\ Supplied(steps, 0) = 0 /\ Withdrawn(steps, 0) = 0 /\ Lent(steps, 0) = 0
          /\ Repaid(steps, 0) = 0 /\ Freed(steps, 0) = 0
        BY DEF Supplied, Withdrawn, Lent, Repaid, Freed
    <2> HIDE DEF steps
    <2>4. \A i \in 1 .. Len(plan) : plan[i] = steps[0 + i]
        BY <1>5
    <2> QED BY <1>1, <1>2, <1>4, <1>5, <1>7, <1>8, <2>1, <2>2, <2>3, <2>4 DEF PlanRuns
<1>10. fresh => collateral = read.collateral /\ debt <= read.debt
    BY <1>2 DEF PlanInv, StrikeInFlight
<1>11. StrikeInFlight'
    BY <1>1, <1>2, <1>3, <1>4, <1>9, <1>10 DEF StrikeInFlight
<1> QED BY <1>3, <1>6, <1>11 DEF PlanInv, NeverOverLevered

\* One step of the plan is counted.
LEMMA CycleStepPlan ==
    ASSUME CycleInv, PlanInv, CycleStep
    PROVE  PlanInv'
<1>1. /\ plan # <<>> /\ Head(plan) \in PlanSteps /\ plan' = Tail(plan)
      /\ StepEffect(Head(plan))
      /\ phase = "plan" /\ phase' = "plan" /\ stepsLeft' = stepsLeft - 1 /\ saved' = saved
      /\ UNCHANGED <<price, history, savedVenue, strikeGhosts>>
    BY CycleStepEffect
<1>2. ~Idle /\ ~Idle' /\ InPlan /\ read \in States
    BY <1>1 DEF Idle, InPlan, PlanInv, StrikeInFlight
<1>3. UNCHANGED <<read, fresh, landed>>
    BY <1>1 DEF strikeGhosts
<1> DEFINE steps == CyclePlan(read)
           n == StepsTaken
<1>4. PlanRuns /\ (fresh => savedVenue[1] = read.collateral /\ savedVenue[2] <= read.debt)
    BY <1>2 DEF PlanInv, StrikeInFlight
<1>5. /\ plan \in Seq(PlanSteps) /\ savedVenue \in Nat \X Nat \X Nat /\ steps \in Seq(PlanSteps)
      /\ saved.usdc \in Nat /\ usdc' \in Nat
    <2>1. CycleInv'
        BY CycleStepStep
    <2>2. saved \in Snapshot
        BY DEF CycleInv, IInv, TypeOK, StrikeTypes
    <2> QED BY <1>2, <2>1, <2>2, PlanIsSteps
            DEF CycleInv, CycleTypes, Snapshot, IInv, TypeOK, TokenTypes
<1>6. /\ Len(plan) \in Nat /\ Len(plan) > 0 /\ Len(Tail(plan)) = Len(plan) - 1
      /\ Head(plan) = plan[1] /\ \A i \in 1 .. Len(plan) - 1 : Tail(plan)[i] = plan[i + 1]
    BY <1>1, <1>5
<1>7. /\ n \in 0 .. Len(steps) /\ n = Len(steps) - Len(plan) /\ Len(steps) \in Nat
      /\ \A i \in 1 .. Len(plan) : plan[i] = steps[n + i]
    BY <1>4, <1>5 DEF PlanRuns, StepsTaken
<1>8. n \in Nat /\ n < Len(steps) /\ Head(plan) = steps[n + 1]
    BY <1>6, <1>7
<1>9. StepsTaken' = n + 1 /\ CyclePlan(read)' = steps
    <2>1. StepsTaken' = Len(steps) - Len(plan')
        BY <1>3 DEF StepsTaken
    <2> QED BY <1>1, <1>3, <1>6, <1>7, <2>1
<1>10. /\ savedVenue[1] \in Nat /\ savedVenue[2] \in Nat
    BY <1>5
<1>11. /\ collateral = savedVenue[1] + Supplied(steps, n) - Withdrawn(steps, n)
       /\ debt = savedVenue[2] + Lent(steps, n) - Repaid(steps, n)
       /\ ~IsOpening(steps) => usdc >= saved.usdc + Freed(steps, n)
    BY <1>4 DEF PlanRuns
<1>12. StepEffect(steps[n + 1])
    BY <1>1, <1>8
<1> HIDE DEF n, steps
<1>13. /\ collateral' = savedVenue[1] + Supplied(steps, n + 1) - Withdrawn(steps, n + 1)
       /\ debt' = savedVenue[2] + Lent(steps, n + 1) - Repaid(steps, n + 1)
       /\ ~IsOpening(steps) => usdc' >= saved.usdc + Freed(steps, n + 1)
    BY <1>2, <1>5, <1>8, <1>10, <1>11, <1>12, StepIsCounted DEF steps
<1>14. PlanRuns'
    <2>1. n + 1 \in 0 .. Len(steps) /\ Len(plan') = Len(plan) - 1
        BY <1>1, <1>6, <1>7, <1>8
    <2>2. stepsLeft' = Len(plan')
        BY <1>1, <1>4, <2>1 DEF PlanRuns
    <2>3. ASSUME NEW i \in 1 .. Len(plan') PROVE plan'[i] = steps[(n + 1) + i]
        <3>1. i \in 1 .. Len(plan) - 1 /\ i + 1 \in 1 .. Len(plan)
            BY <1>6, <2>1
        <3>2. plan'[i] = plan[i + 1]
            BY <1>1, <1>6, <3>1
        <3>3. plan[i + 1] = steps[n + (i + 1)]
            BY <1>7, <3>1
        <3>4. n + (i + 1) = (n + 1) + i
            BY <1>8
        <3> QED BY <3>2, <3>3, <3>4
    <2>4. saved'.usdc = saved.usdc /\ savedVenue' = savedVenue
        BY <1>1
    <2> QED BY <1>1, <1>9, <1>13, <2>1, <2>2, <2>3, <2>4 DEF PlanRuns
<1>15. StrikeInFlight'
    BY <1>1, <1>2, <1>3, <1>4, <1>14 DEF StrikeInFlight
<1>16. DebtKept'
    BY <1>1, <1>2, <1>3, InStrikePlan
<1> QED BY <1>2, <1>15, <1>16 DEF PlanInv, NeverOverLevered

\* The plan ends: what all its steps moved keeps the leverage.
LEMMA CycleSettlePlan ==
    ASSUME CycleInv, PlanInv, CycleSettle
    PROVE  PlanInv'
<1>1. UNCHANGED <<venueVars, price, history, plan, savedVenue, strikeGhosts>>
    BY DEF CycleSettle, navVars
<1>2. UNCHANGED <<collateral, debt, read, fresh, landed>>
    BY <1>1 DEF venueVars, strikeGhosts
<1>3. phase \in {"plan", "redeems"}
    BY DEF CycleSettle, PlanStepsDone, FulfillRedeem, PlanExecuted
<1>4. ~Idle /\ InPlan /\ read \in States
    BY <1>3 DEF Idle, InPlan, PlanInv, StrikeInFlight
<1>5. PlanRuns /\ (fresh => savedVenue[1] = read.collateral /\ savedVenue[2] <= read.debt)
    BY <1>4 DEF PlanInv, StrikeInFlight
<1>6. DebtKept'
    BY <1>1, <1>2, <1>4, InStrikePlan
<1>7. CASE PlanStepsDone \/ FulfillRedeem
    <2>1. /\ phase' = "redeems" /\ UNCHANGED <<stepsLeft, saved, usdc>>
          /\ phase = "redeems" \/ stepsLeft = 0
        BY <1>7 DEF PlanStepsDone, FulfillRedeem, strikeVars
    <2>2. Len(plan) = 0
        BY <1>5, <2>1 DEF PlanRuns
    <2>3. StepsTaken' = StepsTaken /\ CyclePlan(read)' = CyclePlan(read)
        BY <1>1, <1>2 DEF StepsTaken
    <2>4. PlanRuns'
        BY <1>1, <1>2, <1>5, <2>1, <2>2, <2>3 DEF PlanRuns
    <2>5. StrikeInFlight' /\ ~Idle'
        BY <1>1, <1>2, <1>4, <1>5, <2>1, <2>4 DEF StrikeInFlight, Idle
    <2> QED BY <1>6, <2>5 DEF PlanInv, NeverOverLevered
<1>8. CASE PlanExecuted
    <2>1. phase = "redeems" /\ phase' = "idle"
        BY <1>8 DEF PlanExecuted
    <2> DEFINE steps == CyclePlan(read)
    <2>2. StepsTaken = Len(steps)
        <3>1. Len(plan) = 0 /\ steps \in Seq(PlanSteps)
            BY <1>4, <1>5, <2>1, PlanIsSteps DEF PlanRuns
        <3> QED BY <3>1 DEF StepsTaken
    <2>3. /\ collateral = savedVenue[1] + Supplied(steps, Len(steps)) - Withdrawn(steps, Len(steps))
          /\ debt = savedVenue[2] + Lent(steps, Len(steps)) - Repaid(steps, Len(steps))
        BY <1>5, <2>2 DEF PlanRuns
    <2>4. savedVenue[1] \in Nat /\ savedVenue[2] \in Nat
        BY DEF CycleInv, CycleTypes
    <2>5. NeverOverLevered'
        <3> SUFFICES ASSUME fresh \/ RedeemShortfall(read) = 0
                     PROVE  Excess(debt, collateral)
                                <= Max({Excess(savedVenue[2], savedVenue[1]), 0}) + Leverage
            BY <1>1, <1>2 DEF NeverOverLevered
        <3>1. RedeemShortfall(read) # 0 =>
                  savedVenue[1] = read.collateral /\ savedVenue[2] <= read.debt
            BY <1>5
        <3> HIDE DEF steps
        <3> QED BY <1>4, <2>3, <2>4, <3>1, ExcessAfter DEF steps
    <2>6. StrikeInFlight'
        BY <2>1 DEF StrikeInFlight, Idle, InPlan
    <2> QED BY <1>6, <2>5, <2>6 DEF PlanInv
<1> QED BY <1>7, <1>8 DEF CycleSettle

\* A position is no further above the leverage than it was.
LEMMA SameExcess ==
    ASSUME NEW d \in Nat, NEW c \in Nat
    PROVE  Excess(d, c) <= Max({Excess(d, c), 0}) + Leverage
<1>1. Excess(d, c) \in Int
    BY ExcessOfLess
<1>2. Excess(d, c) <= Max({Excess(d, c), 0}) /\ Max({Excess(d, c), 0}) \in Int
    BY <1>1, MaxOfTwo
<1> QED BY <1>1, <1>2, LeverFactor

\* A rejected plan leaves the position it started from.
LEMMA CycleRevertsPlan ==
    ASSUME CycleInv, PlanInv, CycleReverts
    PROVE  PlanInv'
<1>1. /\ collateral' = savedVenue[1] /\ debt' = savedVenue[2]
      /\ UNCHANGED <<history, savedVenue, strikeGhosts>>
    BY DEF CycleReverts
<1>2. /\ phase \in {"plan", "redeems"} /\ phase' = "idle"
    BY DEF CycleReverts, PlanStepReverts, EscrowFloorBreached, Rollback
<1>3. ~Idle /\ ~InPlan'
    BY <1>2 DEF Idle, InPlan
<1>4. DebtKept'
    BY <1>1, <1>3, InStrikePlan DEF strikeGhosts
<1>5. StrikeInFlight'
    BY <1>2, <1>3 DEF StrikeInFlight, Idle
<1>6. savedVenue[1] \in Nat /\ savedVenue[2] \in Nat
    BY DEF CycleInv, CycleTypes
<1>7. NeverOverLevered'
    BY <1>1, <1>6, SameExcess DEF NeverOverLevered
<1> QED BY <1>4, <1>5, <1>7 DEF PlanInv

\* At first there is no position.
LEMMA InitCyclePlan ==
    ASSUME InitCycle
    PROVE  PlanInv
<1>1. /\ collateral = 0 /\ debt = 0 /\ savedVenue = <<0, 0, 0>>
      /\ history = [b \in 1 .. MaxBlock |-> NoState] /\ phase = "idle"
    BY DEF InitCycle, Init
<1>2. DebtKept
    BY <1>1 DEF DebtKept, NoState
<1>3. StrikeInFlight
    BY <1>1 DEF StrikeInFlight, Idle, InPlan
<1>4. NeverOverLevered
    BY <1>1, SameExcess DEF NeverOverLevered
<1> QED BY <1>2, <1>3, <1>4 DEF PlanInv

\* Nothing else moves the plan or the position.
LEMMA CycleStutterPlan ==
    ASSUME CycleInv, PlanInv, UNCHANGED cycleVars
    PROVE  PlanInv'
<1>1. UNCHANGED vars /\ UNCHANGED <<venueVars, price, history, plan, savedVenue, strikeGhosts>>
    BY DEF cycleVars, navVars
<1>2. UNCHANGED <<collateral, debt, read, landed, fresh, history, plan, savedVenue,
                  usdc, phase, stepsLeft, saved>>
    BY <1>1 DEF venueVars, strikeGhosts, vars, strikeVars
<1>3. DebtKept'
    BY <1>2 DEF PlanInv, DebtKept
<1>4. PlanRuns => PlanRuns'
    <2>1. StepsTaken' = StepsTaken /\ CyclePlan(read)' = CyclePlan(read)
        BY <1>2 DEF StepsTaken
    <2> QED BY <1>2, <2>1 DEF PlanRuns
<1>5. StrikeInFlight'
    BY <1>2, <1>4 DEF PlanInv, StrikeInFlight, Idle, InPlan
<1>6. NeverOverLevered'
    BY <1>2 DEF PlanInv, NeverOverLevered, Idle
<1> QED BY <1>3, <1>5, <1>6 DEF PlanInv

\* Every step keeps the plan invariant.
LEMMA NextPlanStep ==
    ASSUME CycleInv, PlanInv, [NextCycle]_cycleVars
    PROVE  PlanInv'
BY EndBlockPlan, QuietPlanSteps, LandEnvelopePlan, CycleDepositsPlan, CycleEnterPlanPlan,
   CycleStepPlan, CycleSettlePlan, CycleRevertsPlan, CycleStutterPlan DEF NextCycle

(***************************************************************************)
(* PlanInv holds in every reachable state: what is left of a plan in       *)
(* flight is the end of the plan the cycle built, what was taken of it     *)
(* moved the amounts it was built with, and a strike read after the one    *)
(* before it landed acts on the position it was computed from, its debt at *)
(* most paid down.                                                         *)
(***************************************************************************)
THEOREM PlanInvariance == SpecCycle => []PlanInv
BY CycleInvariance, InitCyclePlan, NextPlanStep, PTL DEF SpecCycle

(***************************************************************************)
(* No strike levers the position above the configured leverage at par, nor *)
(* further above it, but by the unit an unwind rounds off: for every       *)
(* leverage, amount and price, however many envelopes are late, as long as *)
(* the unwinds among them were read after the strike before them.          *)
(***************************************************************************)
THEOREM NeverOverLeveredHolds == SpecCycle => []NeverOverLevered
<1>1. PlanInv => NeverOverLevered
    BY DEF PlanInv
<1> QED BY <1>1, PlanInvariance, PTL

-----------------------------------------------------------------------------
(* What the plans free                                                     *)

\* What the redemptions lack is no more than the equity less the exit reserve.
LEMMA ShortfallBound ==
    ASSUME NEW s \in States, ~CycleFails(s), s.pendingRedeemShares <= s.supply,
           RedeemShortfall(s) # 0
    PROVE  RedeemShortfall(s) <= PricedCollateral(s) - s.debt - PricedCollateral(s) \div 200
<1> DEFINE pc == PricedCollateral(s)
           kept == pc \div 200
           raw == (pc + s.balance - Floor(s)) - (s.debt + kept)
           attested == AttestedNav(s)
           out == RedeemAssetsOut(s)
           short == s.claimableRedeem + out - s.balance
<1>1. /\ s.debt \in Nat /\ s.balance \in Nat /\ s.pendingDeposit \in Nat
      /\ s.claimableRedeem \in Nat
      /\ s.pendingRedeemShares \in Nat /\ s.supply \in Nat /\ pc \in Nat /\ Floor(s) \in Nat
      /\ Floor(s) = s.pendingDeposit + s.claimableRedeem
    BY ReadAmounts DEF Floor
<1>2. s.balance >= Floor(s)
    BY <1>1 DEF CycleFails
<1>3. kept \in Nat
    BY <1>1, QuotientIsNat
<1>4. NavUsdc(s) = Max({raw, 0})
    BY <1>1 DEF NavUsdc
<1> HIDE DEF pc, kept
<1>5. raw \in Int
    BY <1>1, <1>3
<1>6. NavUsdc(s) = IF raw >= 0 THEN raw ELSE 0
    BY <1>4, <1>5, MaxOfTwo
<1>7. attested \in Nat /\ attested <= NavUsdc(s)
    <2>1. NavUsdc(s) \in Nat
        BY <1>5, <1>6
    <2>2. Par - Haircut \in 0 .. Par
        BY NavAssumption DEF Par
    <2> QED BY <2>1, <2>2, ShareOfAmount DEF AttestedNav
<1> HIDE DEF attested
<1>8. out \in Nat /\ out <= attested + s.pendingDeposit
    <2>1. CASE s.supply = 0
        BY <1>1, <1>7, <2>1 DEF RedeemAssetsOut
    <2>2. CASE s.supply # 0
        <3>1. out = (s.pendingRedeemShares * (attested + s.pendingDeposit)) \div s.supply
            BY <2>2 DEF RedeemAssetsOut, attested
        <3>2. attested + s.pendingDeposit \in Nat /\ s.supply > 0
            BY <1>1, <1>7, <2>2
        <3> QED BY <1>1, <3>1, <3>2, ProRataBounds
    <2> QED BY <2>1, <2>2
<1>9. RedeemShortfall(s) = Max({short, 0})
    BY DEF RedeemShortfall
<1> HIDE DEF out
<1>10. short \in Int
    BY <1>1, <1>8
<1>11. RedeemShortfall(s) = short /\ short > 0
    <2>1. RedeemShortfall(s) = IF short >= 0 THEN short ELSE 0
        BY <1>9, <1>10, MaxOfTwo
    <2> QED BY <1>10, <2>1
<1>12. short <= pc - s.debt - kept
    <2>1. CASE raw >= 0
        BY <1>1, <1>3, <1>6, <1>7, <1>8, <2>1
    <2>2. CASE ~(raw >= 0)
        BY <1>1, <1>2, <1>5, <1>6, <1>7, <1>8, <1>11, <2>2
    <2> QED BY <2>1, <2>2
<1> QED BY <1>11, <1>12 DEF pc, kept

\* The price the collateral is valued at is never above the one it is sold at.
LEMMA ValuedLower ==
    ASSUME NEW s \in States
    PROVE  /\ Min({s.price, Par}) \in Nat /\ Min({s.price, Par}) <= s.price
           /\ Min({s.price, Par}) <= Par
           /\ PricedCollateral(s) = (s.collateral * Min({s.price, Par})) \div Par
<1>1. s.price \in Nat /\ Par \in Nat
    BY ReadAmounts DEF Par
<1>2. Min({s.price, Par}) = IF s.price <= Par THEN s.price ELSE Par
    BY <1>1, MinOfTwo
<1> QED BY <1>1, <1>2 DEF PricedCollateral

\* A deleverage of part of the equity frees the shortfall, up to three units.
LEMMA PartialPays ==
    ASSUME NEW s \in States, NEW steps, Deleverages(s, steps), CushionSuffices(s),
           DelevTarget(s) <= PricedCollateral(s) - s.debt
    PROVE  RedeemShortfall(s) <= steps[1].min - steps[1].repay + 3
<1> DEFINE worth == PricedCollateral(s)
           equity == worth - s.debt
           short == RedeemShortfall(s)
           m == (worth * 10000) \div equity
           target == DelevTarget(s)
           q == Min({s.price, Par})
           out == (s.collateral * target) \div equity
           repay == (s.debt * target) \div equity
           w == (out * s.price) \div 10000
           got == (w * 9950) \div 10000
<1>1. /\ s.collateral \in Nat /\ s.debt \in Nat /\ s.price \in Nat /\ worth \in Nat /\ short \in Nat
    BY ReadAmounts, ShortfallIsNat
<1>2. worth > s.debt
    BY DEF Deleverages
<1>3. equity \in Nat /\ equity > 0
    BY <1>1, <1>2
<1>4. worth <= 39 * equity
    BY DEF CushionSuffices
<1>5. q \in Nat /\ q <= s.price /\ q <= 10000 /\ worth = (s.collateral * q) \div 10000
    BY ValuedLower DEF Par
<1>6. target = DelevPart(s)
    BY DEF DelevPart
<1>7. steps[1].out = out /\ steps[1].repay = repay /\ steps[1].min = got
    BY <1>6 DEF Deleverages, Tolerated, UsdcFor, Par
<1>8. target = CushionedTarget(short, CushionBps(m))
    BY DEF Cushion, DelevTarget, Par, CushionBps, CushionedTarget
<1> HIDE DEF worth, short, q, target
<1>9. worth * 10000 \in Nat
    BY <1>1
<1>10. m \in Nat /\ m * equity <= worth * 10000 /\ worth * 10000 < m * equity + equity
    BY <1>3, <1>9, DivBounds
<1> HIDE DEF m, equity
<1>11. m <= 39 * 10000
    <2>1. equity * m <= equity * 39 * 10000
        BY <1>1, <1>3, <1>4, <1>10
    <2>2. equity * m < equity * 39 * 10000 + equity
        BY <1>3, <1>10, <2>1
    <2> QED BY <1>3, <1>10, <2>2, CancelFactor
<1>12. target \in Nat /\ CushionCovers(m, target, short)
    BY <1>1, <1>8, <1>10, <1>11, CushionPays
<1>13. SlippageCovered(worth, equity, target, short)
    BY <1>1, <1>3, <1>10, <1>12, SlippageIsCovered
<1>14. s.collateral * target \in Nat /\ s.debt * target \in Nat /\ s.collateral * q \in Nat
    <2>1. target \in Nat /\ q \in Nat
        BY <1>5, <1>12
    <2> QED BY <1>1, <2>1, ProductIsNat
<1>15. /\ out \in Nat /\ s.collateral * target < out * equity + equity
       /\ repay \in Nat /\ repay * equity <= s.debt * target
    BY <1>3, <1>14, DivBounds
<1>16. worth * 10000 <= s.collateral * q
    BY <1>5, <1>14, DivBounds
<1> HIDE DEF out, repay
<1>17. out * s.price \in Nat /\ out * q <= out * s.price
    BY <1>1, <1>5, <1>15, ProductIsNat, ScaledOrder
<1>18. w \in Nat /\ out * s.price < w * 10000 + 10000
    BY <1>17, DivBounds
<1>19. out * q < w * 10000 + 10000
    <2> DEFINE oq == out * q
               op == out * s.price
    <2>1. oq \in Int /\ op \in Int /\ oq <= op /\ op < w * 10000 + 10000
        BY <1>5, <1>15, <1>17, <1>18
    <2> HIDE DEF oq, op, w
    <2> QED BY <1>18, <2>1 DEF oq
<1> HIDE DEF w
<1>20. worth * target <= w * equity + 2 * equity
    BY <1>1, <1>3, <1>5, <1>12, <1>15, <1>16, <1>18, <1>19, WithdrawnIsWorth
<1>21. got \in Nat /\ w * 9950 < got * 10000 + 10000
    BY <1>18
<1> HIDE DEF got
<1>22. repay + short <= got + 3
    <2>1. equity = worth - s.debt
        BY DEF equity, worth
    <2> DEFINE owed == s.debt
               wt == worth * target
               we == w * equity
               ge == got * equity
               re == repay * equity
               et == equity * target
               es == equity * short
    <2>2. /\ owed \in Nat /\ worth \in Nat /\ equity \in Nat /\ equity > 0 /\ equity = worth - owed
          /\ target \in Nat /\ short \in Nat /\ repay \in Nat /\ w \in Nat /\ got \in Nat
          /\ re <= owed * target
        BY <1>1, <1>3, <1>12, <1>15, <1>18, <1>21, <2>1
    <2> HIDE DEF owed
    <2>3. (w * 9950) * equity <= (got * 10000 + 9999) * equity
        BY <1>21, <2>2, ScaledOrder
    <2>4. /\ (w * 9950) * equity = 9950 * we
          /\ (got * 10000 + 9999) * equity = 10000 * ge + 9999 * equity
          /\ owed * target = wt - et
          /\ equity * (repay + short) = re + es /\ equity * (got + 3) = ge + 3 * equity
          /\ wt \in Nat /\ we \in Nat /\ ge \in Nat /\ re \in Nat /\ et \in Nat /\ es \in Nat
        BY <2>2
    <2>5. /\ wt <= we + 2 * equity
          /\ 9950 * we <= 10000 * ge + 9999 * equity
          /\ 500000 * wt <= 100000000 * et - 100000000 * es + 100000000 * equity
          /\ re <= wt - et
        BY <1>13, <1>20, <2>2, <2>3, <2>4 DEF SlippageCovered
    <2> HIDE DEF wt, we, ge, re, et, es
    <2>6. re + es < ge + 4 * equity
        BY <2>2, <2>4, <2>5
    <2>7. equity * (repay + short) < equity * (got + 3) + equity
        BY <2>2, <2>4, <2>6
    <2> QED BY <2>2, <2>7, CancelFactor
<1>23. short <= got - repay + 3
    BY <1>1, <1>15, <1>21, <1>22
<1> QED BY <1>7, <1>23 DEF short

\* The whole is its share of the whole.
LEMMA WholeShare ==
    ASSUME NEW n \in Nat, NEW k \in Nat, k > 0
    PROVE  (n * k) \div k = n
<1> DEFINE x == (n * k) \div k
<1>1. n * k \in Nat
    BY ProductIsNat
<1>2. x \in Nat /\ x * k <= n * k /\ n * k < x * k + k
    BY <1>1, DivBounds
<1> HIDE DEF x
<1>3. k * x < k * n + k /\ k * n < k * x + k
    BY <1>2
<1>4. x <= n /\ n <= x
    BY <1>2, <1>3, CancelFactor
<1> QED BY <1>2, <1>4 DEF x

\* A deleverage of the whole equity frees the shortfall, up to one unit.
LEMMA FullPays ==
    ASSUME NEW s \in States, NEW steps, Deleverages(s, steps), ~CycleFails(s),
           s.pendingRedeemShares <= s.supply, ~(DelevTarget(s) <= PricedCollateral(s) - s.debt)
    PROVE  RedeemShortfall(s) <= steps[1].min - steps[1].repay + 1
<1> DEFINE worth == PricedCollateral(s)
           equity == worth - s.debt
           q == Min({s.price, Par})
           got == (((s.collateral * s.price) \div 10000) * 9950) \div 10000
<1>1. /\ s.collateral \in Nat /\ s.debt \in Nat /\ s.price \in Nat /\ worth \in Nat
      /\ RedeemShortfall(s) \in Nat /\ RedeemShortfall(s) # 0
    BY ReadAmounts, ShortfallIsNat DEF Deleverages
<1>2. worth > s.debt
    BY DEF Deleverages
<1>3. equity \in Nat /\ equity > 0
    BY <1>1, <1>2
<1>4. DelevPart(s) = equity
    BY DEF DelevPart
<1>5. /\ steps[1].out = (s.collateral * equity) \div equity
      /\ steps[1].repay = (s.debt * equity) \div equity
      /\ steps[1].min = Tolerated(UsdcFor(steps[1].out, s.price))
    BY <1>4 DEF Deleverages
<1> HIDE DEF equity
<1>6. (s.collateral * equity) \div equity = s.collateral /\ (s.debt * equity) \div equity = s.debt
    BY <1>1, <1>3, WholeShare
<1>7. steps[1].repay = s.debt /\ steps[1].min = got
    BY <1>5, <1>6 DEF Tolerated, UsdcFor, Par
<1>8. q \in Nat /\ q <= s.price /\ worth = (s.collateral * q) \div 10000
    BY ValuedLower DEF Par
<1> HIDE DEF worth, q
<1>9. got \in Nat /\ got + 1 >= worth - worth \div 200
    BY <1>1, <1>8, FullExitPays
<1>10. RedeemShortfall(s) <= worth - s.debt - worth \div 200
    BY <1>1, ShortfallBound DEF worth
<1>11. worth \div 200 \in Nat
    BY <1>1, QuotientIsNat
<1> HIDE DEF got
<1> QED BY <1>1, <1>7, <1>9, <1>10, <1>11

\* The price in whole pars, less the last unit.
LEMMA RoundingsAtLeast ==
    ASSUME NEW s \in States
    PROVE  Roundings(s) \in Nat /\ Roundings(s) >= 3
           /\ Roundings(s) = 3 + (s.price - 1) \div 10000
<1>1. s.price \in Nat \ {0}
    BY ReadAmounts
<1>2. s.price - 1 \in Nat
    BY <1>1
<1>3. (s.price - 1) \div 10000 \in Nat
    BY <1>2, QuotientIsNat
<1> QED BY <1>3 DEF Roundings, Par

\* What the spot unwind sells: 1% more than the shortfall, or the whole collateral.
SpotOut(s) ==
    LET target == RedeemShortfall(s) + RedeemShortfall(s) \div 100
        wanted == UsdeFor((target * Par) \div 9950, s.price)
    IN  IF wanted <= s.collateral THEN wanted ELSE s.collateral

\* The spot unwind frees the shortfall, up to the units the code rounds.
LEMMA SpotPays ==
    ASSUME NEW s \in States, ~CycleFails(s), s.pendingRedeemShares <= s.supply,
           RedeemShortfall(s) # 0, s.debt = 0
    PROVE  RedeemShortfall(s) <= Tolerated(UsdcFor(SpotOut(s), s.price)) + Roundings(s)
<1> DEFINE worth == PricedCollateral(s)
           q == Min({s.price, Par})
           short == RedeemShortfall(s)
           p == s.price
           coll == s.collateral
           got == SpotUnwindGives(coll, p, short)
<1>1. /\ coll \in Nat /\ p \in Nat /\ p > 0 /\ worth \in Nat /\ short \in Nat
    BY ReadAmounts, ShortfallIsNat
<1>2. q \in Nat /\ q <= p /\ worth = (coll * q) \div 10000
    BY ValuedLower DEF Par
<1>3. short <= worth - worth \div 200
    <2>1. RedeemShortfall(s) <= worth - 0 - worth \div 200
        BY ShortfallBound
    <2>2. worth \div 200 \in Nat
        BY <1>1, QuotientIsNat
    <2> QED BY <1>1, <2>1, <2>2
<1>4. Tolerated(UsdcFor(SpotOut(s), s.price)) = got
    BY DEF SpotUnwindGives, SpotOut, UsdeFor, Tolerated, UsdcFor, Par
<1>5. Roundings(s) = 3 + (p - 1) \div 10000 /\ (p - 1) \div 10000 \in Nat
    <2>1. p - 1 \in Nat
        BY <1>1
    <2> QED BY <2>1, QuotientIsNat, RoundingsAtLeast
<1>6. short <= WorthLessReserve(coll, q)
    BY <1>2, <1>3 DEF WorthLessReserve
<1> HIDE DEF worth, q, short, p, coll
<1>7. got \in Nat /\ got + 2 + (p - 1) \div 10000 >= short
    <2>1. coll \in Nat /\ p \in Nat /\ p > 0 /\ q \in Nat /\ q <= p /\ short \in Nat
        BY <1>1, <1>2
    <2> QED BY <1>6, <2>1, SpotUnwindPays
<1> HIDE DEF got
<1>8. short <= got + Roundings(s)
    BY <1>1, <1>5, <1>7
<1> QED BY <1>4, <1>8 DEF short

\* The unwind is empty when it would sell nothing.
LEMMA EmptyUnwind ==
    ASSUME NEW s \in States, PlanRedeemCollateral(s) = Empty
    PROVE  SpotOut(s) = 0 /\ Tolerated(UsdcFor(0, s.price)) = 0
<1> DEFINE target == RedeemShortfall(s) + RedeemShortfall(s) \div 100
           u == (target * Par) \div 9950
           wanted == UsdeFor(u, s.price)
           out == Min({wanted, s.collateral})
           min == Tolerated(UsdcFor(out, s.price))
<1>1. s.collateral \in Nat /\ s.price \in Nat \ {0} /\ RedeemShortfall(s) \in Nat
    BY ReadAmounts, ShortfallIsNat
<1>2. target \in Nat
    BY <1>1, QuotientIsNat
<1>3. target * Par \in Nat
    BY <1>2, ProductIsNat DEF Par
<1>4. u \in Nat
    BY <1>3, QuotientIsNat
<1>5. PlanRedeemCollateral(s) = IF out = 0 THEN Empty
                                ELSE <<[op |-> "withdraw", out |-> out], [op |-> "approve"],
                                       [op |-> "swapOut", in |-> out, min |-> min]>>
    BY DEF PlanRedeemCollateral
<1>6. SpotOut(s) = IF wanted <= s.collateral THEN wanted ELSE s.collateral
    BY DEF SpotOut
<1> HIDE DEF u, min
<1>7. wanted \in Nat
    BY <1>1, <1>4, ConvertedIsNat
<1> HIDE DEF wanted
<1>8. out = SpotOut(s)
    BY <1>1, <1>6, <1>7, MinOfTwo
<1> HIDE DEF out
<1>9. out = 0
    BY <1>5 DEF Empty
<1>10. 0 * s.price = 0 /\ 0 \div 10000 = 0 /\ 0 * 9950 = 0
    BY <1>1
<1> QED BY <1>8, <1>9, <1>10 DEF Tolerated, UsdcFor, Par

(***************************************************************************)
(* The plan built for redemptions frees what they lack, at the minimums of *)
(* its swaps and up to the units the code rounds.                          *)
(***************************************************************************)
LEMMA PlanFrees ==
    ASSUME NEW s \in States, ~CycleFails(s), ~Breached(s), CushionSuffices(s),
           s.pendingRedeemShares # 0, s.pendingRedeemShares <= s.supply,
           NEW steps, steps = CyclePlan(s)
    PROVE  /\ ~IsOpening(steps)
           /\ RedeemShortfall(s) <= Freed(steps, Len(steps)) + Roundings(s)
<1> DEFINE worth == PricedCollateral(s)
           short == RedeemShortfall(s)
<1>1. /\ s.collateral \in Nat /\ s.debt \in Nat /\ worth \in Nat /\ short \in Nat
      /\ s.price \in Nat \ {0}
    BY ReadAmounts, ShortfallIsNat
<1>2. Roundings(s) \in Nat /\ Roundings(s) >= 3
    BY RoundingsAtLeast
<1>3. steps = BuildActionPlan(s)
    BY DEF CyclePlan
<1>4. worth <= 39 * (worth - s.debt)
    BY DEF CushionSuffices
<1>5. /\ Len(Empty) = 0 /\ ~IsOpening(Empty) /\ Freed(Empty, Len(Empty)) = 0
    BY DEF Empty, IsOpening, Freed
<1>6. CASE short = 0
    <2>1. steps = Empty
        BY <1>3, <1>6 DEF BuildActionPlan
    <2> QED BY <1>2, <1>5, <1>6, <2>1
<1>7. CASE short # 0 /\ s.debt # 0
    <2>1. worth > s.debt
        <3> HIDE DEF worth
        <3> QED BY <1>1, <1>4, <1>7
    <2>2. steps = PlanDeleverage(s)
        BY <1>1, <1>3, <1>7, <2>1 DEF BuildActionPlan
    <2>3. Deleverages(s, steps)
        BY <1>7, <2>1, <2>2, DeleverageShape
    <2>4. /\ Len(steps) = 1 /\ steps[1].op = "flashLoan"
        BY <2>3 DEF Deleverages, IsDeleverage
    <2>5. ~IsOpening(steps) /\ Freed(steps, Len(steps)) = steps[1].min - steps[1].repay
        BY <2>4 DEF IsOpening, Freed
    <2>6. steps[1].min \in Nat /\ steps[1].repay \in Nat
        <3>1. steps \in Seq(PlanSteps)
            BY PlanIsSteps
        <3>2. steps[1] \in PlanSteps
            BY <2>4, <3>1
        <3> QED BY <2>4, <3>2, StepAmounts
    <2>7. RedeemShortfall(s) <= steps[1].min - steps[1].repay + 3
        <3>1. CASE DelevTarget(s) <= PricedCollateral(s) - s.debt
            BY <2>3, <3>1, PartialPays
        <3>2. CASE ~(DelevTarget(s) <= PricedCollateral(s) - s.debt)
            <4>1. RedeemShortfall(s) <= steps[1].min - steps[1].repay + 1
                BY <2>3, <3>2, FullPays
            <4> QED BY <1>1, <2>6, <4>1
        <3> QED BY <3>1, <3>2
    <2> QED BY <1>1, <1>2, <2>5, <2>6, <2>7
<1>8. CASE short # 0 /\ s.debt = 0
    <2>1. RedeemShortfall(s) <= Tolerated(UsdcFor(SpotOut(s), s.price)) + Roundings(s)
        BY <1>8, SpotPays
    <2>2. s.collateral # 0
        <3>1. CASE s.collateral = 0
            <4>1. short <= worth - 0 - worth \div 200
                BY <1>8, ShortfallBound
            <4>2. worth = 0
                <5>1. s.collateral * Min({s.price, Par}) = 0
                    BY <3>1, ValuedLower
                <5> QED BY <5>1 DEF PricedCollateral, Par
            <4> HIDE DEF worth
            <4> QED BY <1>1, <1>8, <4>1, <4>2
        <3> QED BY <3>1
    <2>3. steps = PlanRedeemCollateral(s)
        BY <1>3, <1>8, <2>2 DEF BuildActionPlan
    <2>4. CASE steps = Empty
        <3>2. Tolerated(UsdcFor(SpotOut(s), s.price)) = 0
            BY <2>3, <2>4, EmptyUnwind
        <3> QED BY <1>1, <1>2, <1>5, <2>1, <2>4, <3>2
    <2>5. CASE steps # Empty
        <3>1. SpotUnwinds(s, steps)
            BY <1>8, <2>3, <2>5, SpotUnwindShape
        <3>2. /\ Len(steps) = 3 /\ steps[1].op = "withdraw"
              /\ steps[1].out = SpotOut(s)
              /\ steps[3].min = Tolerated(UsdcFor(SpotOut(s), s.price))
            BY <3>1 DEF SpotUnwinds, IsSpotUnwind, SpotOut
        <3>3. ~IsOpening(steps) /\ Freed(steps, Len(steps)) = steps[3].min
            BY <3>2 DEF IsOpening, Freed
        <3> QED BY <2>1, <3>2, <3>3
    <2> QED BY <2>4, <2>5
<1> QED BY <1>1, <1>6, <1>7, <1>8

-----------------------------------------------------------------------------
(* What the redemptions are owed                                           *)

\* What comes in after the sizing is owed to the redeemers at most in full.
LEMMA OwedOfMore ==
    ASSUME NEW s \in Nat, NEW supply \in Nat, supply > 0, s <= supply,
           NEW n \in Nat, NEW more \in Nat
    PROVE  (s * (n + more)) \div supply <= (s * n) \div supply + more
<1> DEFINE x == (s * n) \div supply
           y == (s * (n + more)) \div supply
<1>1. s * n \in Nat /\ s * (n + more) \in Nat
    OBVIOUS
<1>2. x \in Nat /\ y \in Nat /\ y * supply <= s * (n + more) /\ s * n < x * supply + supply
    BY <1>1, DivBounds
<1> HIDE DEF x, y
<1>3. s * more <= supply * more
    BY ScaledOrder
<1>4. s * (n + more) = s * n + s * more /\ supply * (x + more) = x * supply + supply * more
    BY <1>2
<1>5. supply * y < supply * (x + more) + supply
    BY <1>1, <1>2, <1>3, <1>4
<1>6. y <= x + more
    BY <1>2, <1>5, CancelFactor
<1> QED BY <1>6 DEF x, y

\* Shares minted for what was already counted take nothing from the others' part.
LEMMA OwedOfDiluted ==
    ASSUME NEW s \in Nat, NEW supply \in Nat, supply > 0, NEW n \in Nat, NEW minted \in Nat
    PROVE  (s * n) \div (supply + minted) <= (s * n) \div supply
<1> DEFINE x == (s * n) \div supply
           y == (s * n) \div (supply + minted)
<1>1. s * n \in Nat
    OBVIOUS
<1>2. x \in Nat /\ y \in Nat /\ y * (supply + minted) <= s * n /\ s * n < x * supply + supply
    BY <1>1, DivBounds
<1> HIDE DEF x, y
<1>3. y * supply <= y * (supply + minted)
    BY <1>2, ScaledOrder
<1>4. supply * y < supply * x + supply
    BY <1>1, <1>2, <1>3
<1>5. y <= x
    BY <1>2, <1>4, CancelFactor
<1> QED BY <1>5 DEF x, y

\* What one redemption takes and what the rest is then owed is no more than was owed.
LEMMA OwedOfRest ==
    ASSUME NEW s \in Nat, NEW supply \in Nat, supply > 0, s <= supply, NEW n \in Nat,
           NEW first \in Nat, first <= s, supply - first > 0
    PROVE  LET taken == (first * n) \div supply
           IN  taken + ((s - first) * (n - taken)) \div (supply - first) <= (s * n) \div supply
<1> DEFINE taken == (first * n) \div supply
           rest == ((s - first) * (n - taken)) \div (supply - first)
           x == (s * n) \div supply
           left == supply - first
<1>1. s * n \in Nat /\ first * n \in Nat /\ left \in Nat
    OBVIOUS
<1>2. taken \in Nat /\ taken <= n
    BY ProRataBounds
<1>3. taken * supply <= first * n
    BY <1>1, DivBounds
<1>4. x \in Nat /\ s * n < x * supply + supply
    BY <1>1, DivBounds
<1> HIDE DEF taken, x
<1>5. (s - first) * (n - taken) \in Nat
    BY <1>2
<1>6. rest \in Nat /\ rest * left <= (s - first) * (n - taken)
    BY <1>1, <1>5, DivBounds
<1> HIDE DEF rest
<1>7. (rest * left) * supply <= ((s - first) * (n - taken)) * supply
    BY <1>1, <1>2, <1>5, <1>6, ScaledOrder
<1>8. (taken * supply) * (supply - s) <= (first * n) * (supply - s)
    BY <1>1, <1>2, <1>3, ScaledOrder
<1>9. left * (s * n) - (taken * supply) * left - ((s - first) * (n - taken)) * supply
          = (first * n) * (supply - s) - (taken * supply) * (supply - s)
    BY <1>2
<1>10. left * (supply * (taken + rest)) = (taken * supply) * left + (rest * left) * supply
    BY <1>1, <1>2, <1>6
<1>11. left * (supply * (taken + rest)) <= left * (s * n)
    BY <1>1, <1>2, <1>6, <1>7, <1>8, <1>9, <1>10
<1>12. supply * (taken + rest) <= s * n
    BY <1>1, <1>2, <1>6, <1>11, CancelFactor
<1>13. supply * (taken + rest) < supply * x + supply
    BY <1>1, <1>2, <1>4, <1>6, <1>12
<1>14. taken + rest <= x
    BY <1>2, <1>4, <1>6, <1>13, CancelFactor
<1> QED BY <1>14 DEF taken, rest, x, left

\* What these shares of the supply are worth, of this amount.
OwedOf(shares, amount, supply) == IF supply = 0 THEN 0 ELSE (shares * amount) \div supply

\* What is owed of a greater amount is at most that much more.
OwedGrowsBy(shares, supply, n, total) ==
    OwedOf(shares, total, supply) + n <= OwedOf(shares, n, supply) + total

\* It is a natural.
LEMMA OwedIsNat ==
    ASSUME NEW s \in Nat, NEW n \in Nat, NEW supply \in Nat
    PROVE  OwedOf(s, n, supply) \in Nat
<1>1. s * n \in Nat
    OBVIOUS
<1>2. CASE supply # 0
    <2>1. supply \in Nat \ {0}
        BY <1>2
    <2>2. (s * n) \div supply \in Nat
        BY <1>1, <2>1, QuotientIsNat
    <2> QED BY <1>2, <2>2 DEF OwedOf
<1> QED BY <1>2 DEF OwedOf

\* OwedOfMore, also where there is no supply.
LEMMA OwedGrows ==
    ASSUME NEW s \in Nat, NEW supply \in Nat, NEW n \in Nat, NEW total \in Nat,
           s <= supply, n <= total
    PROVE  OwedGrowsBy(s, supply, n, total)
<1>1. OwedOf(s, n, supply) \in Nat /\ OwedOf(s, total, supply) \in Nat
    BY OwedIsNat
<1>2. CASE supply = 0
    BY <1>2 DEF OwedOf, OwedGrowsBy
<1>3. CASE supply # 0
    <2> DEFINE more == total - n
               x == (s * n) \div supply
               y == (s * total) \div supply
    <2>1. supply > 0 /\ more \in Nat /\ total = n + more
        BY <1>3
    <2>2. y <= x + more
        <3>1. (s * (n + more)) \div supply <= x + more
            BY <2>1, OwedOfMore
        <3> HIDE DEF x, more
        <3> QED BY <2>1, <3>1
    <2>3. OwedOf(s, n, supply) = x /\ OwedOf(s, total, supply) = y
        BY <1>3 DEF OwedOf
    <2> HIDE DEF x, y
    <2> QED BY <1>1, <2>1, <2>2, <2>3 DEF OwedGrowsBy
<1> QED BY <1>2, <1>3

\* OwedOfDiluted, also where these are the first shares.
LEMMA OwedIsDiluted ==
    ASSUME NEW s \in Nat, NEW supply \in Nat, NEW n \in Nat, NEW minted \in Nat, s <= supply
    PROVE  /\ OwedOf(s, n, supply + minted) \in Nat
           /\ OwedOf(s, n, supply + minted) <= OwedOf(s, n, supply)
<1> DEFINE more == supply + minted
<1>0. more \in Nat /\ s <= more /\ s * n \in Nat
    OBVIOUS
<1>1. OwedOf(s, n, supply) \in Nat /\ OwedOf(s, n, more) \in Nat
    <2> HIDE DEF more
    <2> QED BY <1>0, OwedIsNat
<1>2. CASE supply = 0
    <2>1. s = 0 /\ s * n = 0
        BY <1>2
    <2>2. OwedOf(s, n, more) = 0
        <3>1. more # 0 => 0 \div more = 0
            BY <1>0
        <3> HIDE DEF more
        <3> QED BY <2>1, <3>1 DEF OwedOf
    <2> QED BY <1>1, <2>2
<1>3. CASE supply # 0
    <2>1. supply > 0 /\ supply + minted # 0
        BY <1>3
    <2>2. (s * n) \div (supply + minted) <= (s * n) \div supply
        BY <2>1, OwedOfDiluted
    <2>3. /\ OwedOf(s, n, supply) = (s * n) \div supply
          /\ OwedOf(s, n, supply + minted) = (s * n) \div (supply + minted)
        BY <1>3, <2>1 DEF OwedOf
    <2> QED BY <1>1, <2>2, <2>3
<1> QED BY <1>2, <1>3

\* OwedOfRest, also where the first takes the whole supply.
LEMMA OwedIsTaken ==
    ASSUME NEW s \in Nat, NEW supply \in Nat, NEW n \in Nat, NEW first \in Nat,
           s <= supply, first > 0, first <= s
    PROVE  LET taken == (first * n) \div supply
           IN  /\ taken \in Nat /\ taken <= n
               /\ OwedOf(s - first, n - taken, supply - first) \in Nat
               /\ taken + OwedOf(s - first, n - taken, supply - first) <= OwedOf(s, n, supply)
<1> DEFINE taken == (first * n) \div supply
           left == supply - first
<1>1. supply > 0 /\ first <= supply /\ left \in Nat /\ s - first \in Nat /\ s - first <= left
    OBVIOUS
<1>2. taken \in Nat /\ taken <= n
    BY <1>1, ProRataBounds
<1>3. OwedOf(s, n, supply) = (s * n) \div supply
    BY <1>1 DEF OwedOf
<1>4. OwedOf(s - first, n - taken, left) \in Nat
    <2>1. n - taken \in Nat
        BY <1>2
    <2> HIDE DEF taken, left
    <2> QED BY <1>1, <2>1, OwedIsNat
<1>5. CASE left = 0
    <2>1. s = first
        BY <1>5
    <2>2. OwedOf(s - first, n - taken, left) = 0
        BY <1>5 DEF OwedOf
    <2> HIDE DEF left
    <2> QED BY <1>2, <1>3, <2>1, <2>2 DEF left
<1>6. CASE left # 0
    <2>1. left > 0
        BY <1>1, <1>6
    <2>2. taken + ((s - first) * (n - taken)) \div left <= (s * n) \div supply
        BY <1>1, <2>1, OwedOfRest
    <2>3. OwedOf(s - first, n - taken, left) = ((s - first) * (n - taken)) \div left
        BY <1>6 DEF OwedOf
    <2> QED BY <1>2, <1>3, <1>4, <2>2, <2>3
<1> QED BY <1>5, <1>6

-----------------------------------------------------------------------------
(* What the plan in flight was sized for                                   *)

\* The queued redemptions, priced at the NAV the strike settles at.
Owed == OwedOf(totalPendingRedeemShares, nav + totalPendingDepositAssets, totalSupply)

\* The blocks a next strike may be computed from count the shares as they are.
SupplyKept ==
    \A b \in 1 .. MaxBlock :
        history[b].known =>
            /\ history[b].pendingRedeemShares <= history[b].supply
            /\ b >= landed => /\ history[b].supply = totalSupply
                              /\ history[b].pendingDeposit <= totalPendingDepositAssets

\* What is booked and owed is no more than this balance and what the plan was sized to free.
Sized(balance, pending, owed) ==
    /\ fresh /\ read.refundable = 0 /\ totalRefundableDepositAssets = 0
    /\ pending = read.pendingRedeemShares /\ owed = read.debt
    => totalClaimableRedeemAssets + Owed <= balance + RedeemShortfall(read)

\* The plan in flight was sized for what its strike settles.
StrikeSized ==
    /\ ~Idle => ~CycleFails(read) /\ read.pendingRedeemShares <= read.supply
    /\ phase = "deposits" => Sized(usdc, totalPendingRedeemShares, debt)
    /\ InPlan => Sized(saved.usdc, saved.totalPendingRedeemShares, savedVenue[2])

\* What the plan in flight was sized for.
SizeInv == SupplyKept /\ StrikeSized

\* The vault's shares cover those queued for redemption.
LEMMA PendingIsIssued ==
    ASSUME CycleInv
    PROVE  totalPendingRedeemShares <= totalSupply
<1>1. shareBalance \in [Holders -> Nat] /\ Vault \in Holders /\ totalPendingRedeemShares \in Nat
      /\ totalSupply \in Nat
    BY VaultAmounts DEF CycleInv, IInv, TypeOK, TokenTypes, Holders
<1>2. PICK owed \in Nat : shareBalance[Vault] >= totalPendingRedeemShares + owed
    BY DEF CycleInv, IInv, ShareBooks, CurrentSnapshot
<1>3. IsSum(Holders, shareBalance, totalSupply)
    BY DEF CycleInv, IInv, ShareBooks, CurrentSnapshot
<1>4. shareBalance[Vault] <= totalSupply /\ shareBalance[Vault] \in Nat
    BY <1>1, <1>3, SumBounds
<1> QED BY <1>1, <1>2, <1>4

\* Inside a strike no block counts for the next one yet.
LEMMA InStrikeSupply ==
    ASSUME CycleInv, SizeInv, ~Idle, UNCHANGED <<history, landed>>
    PROVE  SupplyKept'
BY NoneIsLater DEF SizeInv, SupplyKept

\* Between strikes the supply stays, and deposits are only added.
LEMMA QuietSizeStep ==
    ASSUME CycleInv, SizeInv, Idle, Idle', UNCHANGED <<history, landed, totalSupply>>,
           totalPendingDepositAssets' \in Nat,
           totalPendingDepositAssets' >= totalPendingDepositAssets
    PROVE  SizeInv'
<1>1. StrikeSized'
    BY DEF StrikeSized, Idle, InPlan
<1>2. SupplyKept'
    <2> SUFFICES ASSUME NEW b \in 1 .. MaxBlock, history[b].known
                 PROVE  /\ history[b].pendingRedeemShares <= history[b].supply
                        /\ b >= landed =>
                              /\ history[b].supply = totalSupply
                              /\ history[b].pendingDeposit <= totalPendingDepositAssets'
        BY DEF SupplyKept
    <2>1. history[b] \in States
        BY DEF CycleInv, CycleTypes, NoState
    <2>2. history[b].pendingDeposit \in Nat /\ totalPendingDepositAssets \in Nat
        BY <2>1, ReadAmounts, VaultAmounts
    <2> QED BY <2>2 DEF SizeInv, SupplyKept
<1> QED BY <1>1, <1>2 DEF SizeInv

\* The block that ends counts the shares as they are, the earlier ones still do.
LEMMA EndBlockSize ==
    ASSUME CycleInv, SizeInv, EndBlock
    PROVE  SizeInv'
<1>1. Idle /\ UNCHANGED <<phase, totalSupply, totalPendingDepositAssets, landed>>
    BY DEF EndBlock, NextBlock, strikeVars, strikeGhosts, depositVars, requestDepositVars
<1>2. /\ history' = [history EXCEPT ![block] = ChainState]
      /\ history \in [1 .. MaxBlock -> States \cup {NoState}]
    BY DEF EndBlock, CycleInv, CycleTypes
<1>3. /\ ChainState.supply = totalSupply /\ ChainState.pendingDeposit = totalPendingDepositAssets
      /\ ChainState.pendingRedeemShares = totalPendingRedeemShares
    BY DEF ChainState
<1>4. totalPendingRedeemShares <= totalSupply /\ totalPendingDepositAssets \in Nat
    BY PendingIsIssued, VaultAmounts
<1>5. SupplyKept'
    <2> SUFFICES ASSUME NEW b \in 1 .. MaxBlock, history'[b].known
                 PROVE  /\ history'[b].pendingRedeemShares <= history'[b].supply
                        /\ b >= landed =>
                              /\ history'[b].supply = totalSupply
                              /\ history'[b].pendingDeposit <= totalPendingDepositAssets
        BY <1>1 DEF SupplyKept
    <2>1. CASE b = block
        <3>1. history'[b] = ChainState
            BY <1>2, <2>1
        <3> QED BY <1>3, <1>4, <3>1
    <2>2. CASE b # block
        <3>1. history'[b] = history[b]
            BY <1>2, <2>2
        <3> QED BY <3>1 DEF SizeInv, SupplyKept
    <2> QED BY <2>1, <2>2
<1>6. StrikeSized'
    BY <1>1 DEF StrikeSized, Idle, InPlan
<1> QED BY <1>5, <1>6 DEF SizeInv

\* A request adds to the deposits at most; claims, repayments and prices leave them alone.
LEMMA QuietSizeSteps ==
    ASSUME CycleInv, SizeInv,
           CycleRequest \/ CycleClaim \/ Trim \/ (\E twap \in Prices : Reprice(twap))
    PROVE  SizeInv'
<1>1. totalPendingDepositAssets \in Nat
    BY VaultAmounts
<1>2. CASE CycleRequest
    <2>1. PICK account \in Accounts :
              \/ \E assets \in Amounts : requestDeposit(account, assets, account, account)
              \/ \E shares \in {shareBalance[account], shareBalance[account] \div 2} :
                    requestRedeem(account, shares, account, account)
        BY <1>2 DEF CycleRequest
    <2>2. UNCHANGED <<history, landed>>
        BY <1>2 DEF CycleRequest, strikeGhosts
    <2>3. CASE \E assets \in Amounts : requestDeposit(account, assets, account, account)
        <3>1. PICK assets \in Amounts : requestDeposit(account, assets, account, account)
            BY <2>3
        <3>2. assets \in Nat
            BY VaultAssumption
        <3>3. /\ Idle /\ UNCHANGED <<phase, totalSupply>>
              /\ totalPendingDepositAssets' = totalPendingDepositAssets + assets
            BY <3>1 DEF requestDeposit, strikeVars
        <3>4. Idle' /\ totalPendingDepositAssets' \in Nat
              /\ totalPendingDepositAssets' >= totalPendingDepositAssets
            BY <1>1, <3>2, <3>3 DEF Idle
        <3> QED BY <2>2, <3>3, <3>4, QuietSizeStep
    <2>4. CASE \E shares \in {shareBalance[account], shareBalance[account] \div 2} :
                  requestRedeem(account, shares, account, account)
        <3>1. Idle /\ UNCHANGED <<phase, totalSupply, totalPendingDepositAssets>>
            BY <2>4 DEF requestRedeem, strikeVars, depositVars, requestDepositVars
        <3>2. Idle'
            BY <3>1 DEF Idle
        <3> QED BY <1>1, <2>2, <3>1, <3>2, QuietSizeStep
    <2> QED BY <2>1, <2>3, <2>4
<1>3. CASE CycleClaim
    <2>1. /\ Idle /\ UNCHANGED <<phase, totalSupply, totalPendingDepositAssets>>
        BY <1>3 DEF CycleClaim, mint, redeem, claimDepositRefund, ClaimDeposit, ClaimRedeem,
                    strikeVars, depositVars, requestDepositVars
    <2>2. Idle' /\ UNCHANGED <<history, landed>>
        BY <1>3, <2>1 DEF CycleClaim, navVars, strikeGhosts, Idle
    <2> QED BY <1>1, <2>1, <2>2, QuietSizeStep
<1>4. CASE Trim
    <2>1. Idle /\ UNCHANGED <<phase, totalSupply, totalPendingDepositAssets>>
        BY <1>4 DEF Trim, execute, StrategistCall, strikeVars, depositVars, requestDepositVars
    <2>2. Idle' /\ UNCHANGED <<history, landed>>
        BY <1>4, <2>1 DEF Trim, strikeGhosts, Idle
    <2> QED BY <1>1, <2>1, <2>2, QuietSizeStep
<1>5. CASE \E twap \in Prices : Reprice(twap)
    <2>1. Idle /\ UNCHANGED vars /\ UNCHANGED <<history, strikeGhosts>>
        BY <1>5 DEF Reprice
    <2>2. Idle' /\ UNCHANGED <<totalSupply, totalPendingDepositAssets, history, landed>>
        BY <2>1 DEF vars, strikeVars, strikeGhosts, depositVars, requestDepositVars, Idle
    <2> QED BY <1>1, <2>1, <2>2, QuietSizeStep
<1> QED BY <1>2, <1>3, <1>4, <1>5

\* A strike lands: its plan was sized for all the requests but the deposits made since the read.
LEMMA LandEnvelopeSize ==
    ASSUME CycleInv, SizeInv, NEW b \in 1 .. MaxBlock, LandEnvelope(b)
    PROVE  SizeInv'
<1> DEFINE s == history[b]
           attested == AttestedNav(s)
           more == totalPendingDepositAssets - s.pendingDeposit
           n == attested + s.pendingDeposit
           total == attested + totalPendingDepositAssets
           short == s.claimableRedeem + RedeemAssetsOut(s) - s.balance
<1>1. /\ s.known /\ ~CycleFails(s) /\ handleSignedEnvelope(b, attested, b, Breached(s))
      /\ read' = s /\ landed' = block /\ fresh' = (b >= landed)
      /\ history' = [c \in 1 .. MaxBlock |-> IF c <= b THEN NoState ELSE history[c]]
      /\ UNCHANGED venueVars
    BY DEF LandEnvelope, Strikeable
<1>2. s \in States
    BY <1>1 DEF CycleInv, CycleTypes, NoState
<1>3. /\ phase' = "deposits" /\ nav' = attested /\ debt' = debt
      /\ UNCHANGED <<usdc, totalSupply, totalPendingDepositAssets, totalClaimableRedeemAssets,
                     totalRefundableDepositAssets, totalPendingRedeemShares>>
    BY <1>1 DEF handleSignedEnvelope, depositVars, requestDepositVars, refundVars, redeemVars,
                requestRedeemVars, claimRedeemVars, venueVars
<1>4. SupplyKept'
    <2>1. /\ \A c \in 1 .. MaxBlock : history'[c].known => c < block
        BY <1>1 DEF NoState, CycleInv, BlocksEnded
    <2>2. \A c \in 1 .. MaxBlock : ~(history'[c].known /\ c >= landed')
        BY <1>1, <2>1, VaultAmounts, VaultAssumption
    <2>3. \A c \in 1 .. MaxBlock : history'[c].known => history[c].known /\ history'[c] = history[c]
        BY <1>1 DEF NoState
    <2> QED BY <2>2, <2>3 DEF SizeInv, SupplyKept
<1>5. s.pendingRedeemShares <= s.supply
    BY <1>1 DEF SizeInv, SupplyKept
<1>6. Sized(usdc, totalPendingRedeemShares, debt)'
    <2> SUFFICES ASSUME b >= landed, s.refundable = 0, totalRefundableDepositAssets = 0,
                        totalPendingRedeemShares = s.pendingRedeemShares, debt = s.debt
                 PROVE  totalClaimableRedeemAssets + Owed' <= usdc + RedeemShortfall(s)
        BY <1>1, <1>3 DEF Sized
    <2>1. /\ s.debt \in Nat /\ s.balance \in Nat /\ s.pendingDeposit \in Nat /\ s.supply \in Nat
          /\ s.claimableRedeem \in Nat /\ s.pendingRedeemShares \in Nat /\ attested \in Nat
        BY <1>2, ReadAmounts, AttestedNavBound
    <2>2. s.supply = totalSupply /\ s.pendingDeposit <= totalPendingDepositAssets
        BY <1>1 DEF SizeInv, SupplyKept
    <2>3. BackingAt(s) = Backing
        BY <1>1 DEF CycleInv, BackingKept
    <2>4. totalClaimableRedeemAssets
              = usdc - totalPendingDepositAssets - s.balance + s.pendingDeposit + s.claimableRedeem
        <3>1. BackingAt(s)
              = s.balance - (s.pendingDeposit + s.claimableRedeem) - s.refundable - s.debt
            BY DEF BackingAt, Floor
        <3>2. Backing = usdc - (totalPendingDepositAssets + totalClaimableRedeemAssets
                                + totalRefundableDepositAssets) - debt
            BY DEF Backing, EscrowFloorAmount
        <3>3. /\ usdc \in Nat /\ totalPendingDepositAssets \in Nat /\ debt \in Nat
              /\ totalClaimableRedeemAssets \in Nat
            BY VaultAmounts
        <3> HIDE DEF s
        <3>4. s.balance - (s.pendingDeposit + s.claimableRedeem) - 0 - debt
                  = usdc - (totalPendingDepositAssets + totalClaimableRedeemAssets + 0) - debt
            BY <2>3, <3>1, <3>2
        <3> QED BY <2>1, <3>3, <3>4
    <2>5. more \in Nat /\ totalPendingDepositAssets = s.pendingDeposit + more
        BY <2>1, <2>2, VaultAmounts
    <2>6. Owed' = OwedOf(s.pendingRedeemShares, total, s.supply)
        BY <1>3, <2>2 DEF Owed
    <2>7. RedeemAssetsOut(s) = OwedOf(s.pendingRedeemShares, n, s.supply)
        BY DEF RedeemAssetsOut, OwedOf
    <2>8. n \in Nat /\ total \in Nat /\ n <= total /\ total - n = more
        BY <2>1, <2>5, VaultAmounts
    <2> HIDE DEF n, total
    <2>9. /\ Owed' \in Nat /\ RedeemAssetsOut(s) \in Nat
          /\ Owed' + n <= RedeemAssetsOut(s) + total
        <3>1. /\ OwedOf(s.pendingRedeemShares, n, s.supply) \in Nat
              /\ OwedOf(s.pendingRedeemShares, total, s.supply) \in Nat
            BY <2>1, <2>8, OwedIsNat
        <3>2. OwedGrowsBy(s.pendingRedeemShares, s.supply, n, total)
            BY <1>5, <2>1, <2>8, OwedGrows
        <3> QED BY <2>6, <2>7, <3>1, <3>2 DEF OwedGrowsBy
    <2>10. RedeemShortfall(s) \in Int /\ short <= RedeemShortfall(s)
        <3>1. RedeemShortfall(s) = Max({short, 0})
            BY DEF RedeemShortfall
        <3>2. short \in Int
            BY <2>1, <2>9
        <3> HIDE DEF short
        <3> QED BY <3>1, <3>2, MaxOfTwo
    <2> HIDE DEF more
    <2> QED BY <2>1, <2>4, <2>5, <2>8, <2>9, <2>10, VaultAmounts
<1>7. StrikeSized'
    BY <1>1, <1>3, <1>5, <1>6 DEF StrikeSized, InPlan, CycleFails
<1> QED BY <1>4, <1>7 DEF SizeInv

\* A refund leaves the plan aside; a settled deposit keeps the amount and dilutes the shares.
LEMMA CycleDepositsSize ==
    ASSUME CycleInv, SizeInv, CycleDeposits
    PROVE  SizeInv'
<1> DEFINE assets == pendingDepositAssets[Head(depositQueue)]
           shares == SharesFor(assets)
<1>1. /\ UNCHANGED <<venueVars, history, strikeGhosts>> /\ phase = "deposits" /\ phase' = "deposits"
      /\ depositQueue # <<>>
    BY DEF CycleDeposits, navVars, RefundDeposit, FulfillDeposit, strikeVars
<1>2. UNCHANGED <<debt, history, read, fresh, landed>> /\ ~Idle /\ ~Idle' /\ ~InPlan'
    BY <1>1 DEF venueVars, strikeGhosts, Idle, InPlan
<1>3. SupplyKept'
    BY <1>2, InStrikeSupply
<1>4. assets \in Nat /\ assets > 0
    <2>1. /\ pendingDepositAssets \in Ledger /\ depositQueue \in Seq(Accounts)
          /\ QueuedOnce(depositQueue, pendingDepositAssets)
        BY DEF CycleInv, IInv, TypeOK, DepositTypes, DepositBooks
    <2> QED BY <1>1, <2>1, DequeueKeepsQueue
<1>5. shares \in Nat
    BY <1>4, SharesForIsNat DEF CycleInv, IInv
<1>6. /\ UNCHANGED <<usdc, totalClaimableRedeemAssets, totalPendingRedeemShares>>
      /\ \/ totalRefundableDepositAssets' = totalRefundableDepositAssets + assets
         \/ /\ nav' = nav + assets
            /\ totalPendingDepositAssets' = totalPendingDepositAssets - assets
            /\ totalSupply' = totalSupply + shares
            /\ UNCHANGED totalRefundableDepositAssets
    <2>1. CASE RefundDeposit
        BY <2>1 DEF RefundDeposit, redeemVars, requestRedeemVars, claimRedeemVars
    <2>2. CASE FulfillDeposit
        BY <2>2 DEF FulfillDeposit, DequeueDeposit, refundVars, redeemVars, requestRedeemVars,
                    claimRedeemVars
    <2> QED BY <2>1, <2>2 DEF CycleDeposits
<1> HIDE DEF assets, shares
<1>7. Sized(usdc, totalPendingRedeemShares, debt)
    BY <1>1 DEF SizeInv, StrikeSized
<1>8. Sized(usdc, totalPendingRedeemShares, debt)'
    <2> SUFFICES ASSUME fresh, read.refundable = 0, totalRefundableDepositAssets' = 0,
                        totalPendingRedeemShares = read.pendingRedeemShares, debt = read.debt
                 PROVE  totalClaimableRedeemAssets + Owed' <= usdc + RedeemShortfall(read)
        BY <1>2, <1>6 DEF Sized
    <2>1. /\ nav' = nav + assets /\ totalPendingDepositAssets' = totalPendingDepositAssets - assets
          /\ totalSupply' = totalSupply + shares
          /\ totalRefundableDepositAssets = 0
        BY <1>4, <1>6, VaultAmounts
    <2>2. totalClaimableRedeemAssets + Owed <= usdc + RedeemShortfall(read)
        BY <1>7, <2>1 DEF Sized
    <2> DEFINE n == nav + totalPendingDepositAssets
               s == totalPendingRedeemShares
    <2>3. nav' + totalPendingDepositAssets' = n /\ n \in Nat /\ s \in Nat
        BY <1>4, <2>1, VaultAmounts
    <2>4. Owed' = OwedOf(s, n, totalSupply + shares) /\ Owed = OwedOf(s, n, totalSupply)
        BY <1>6, <2>1, <2>3 DEF Owed
    <2> HIDE DEF n, s
    <2>5. s <= totalSupply /\ totalSupply \in Nat
        BY PendingIsIssued, VaultAmounts DEF s
    <2>6. /\ OwedOf(s, n, totalSupply + shares) \in Nat
          /\ OwedOf(s, n, totalSupply + shares) <= OwedOf(s, n, totalSupply)
        BY <1>5, <2>3, <2>5, OwedIsDiluted
    <2>7. OwedOf(s, n, totalSupply) \in Nat
        BY <2>3, <2>5, OwedIsNat
    <2>8. RedeemShortfall(read) \in Nat
        BY <1>1, ShortfallIsNat DEF CycleInv, CycleTypes
    <2> QED BY <2>2, <2>4, <2>6, <2>7, <2>8, VaultAmounts
<1>9. StrikeSized'
    BY <1>1, <1>2, <1>8 DEF SizeInv, StrikeSized, CycleFails
<1> QED BY <1>3, <1>9 DEF SizeInv

\* The plan starts from the balance it was sized for.
LEMMA CycleEnterPlanSize ==
    ASSUME CycleInv, SizeInv, CycleEnterPlan
    PROVE  SizeInv'
<1>1. /\ EnterPlan(Len(plan)) /\ savedVenue' = <<collateral, debt, usde>>
      /\ UNCHANGED <<history, strikeGhosts>>
    BY DEF CycleEnterPlan
<1>2. /\ phase = "deposits" /\ phase' = "plan" /\ saved' = CurrentSnapshot
      /\ UNCHANGED <<nav, totalSupply, totalPendingDepositAssets, totalRefundableDepositAssets,
                     totalPendingRedeemShares, totalClaimableRedeemAssets>>
    BY <1>1 DEF EnterPlan, attestVars, depositVars, requestDepositVars, refundVars, redeemVars,
                requestRedeemVars, claimRedeemVars
<1>3. UNCHANGED <<read, fresh, landed>> /\ ~Idle
    BY <1>1, <1>2 DEF strikeGhosts, Idle
<1>4. SupplyKept'
    BY <1>1, <1>3, InStrikeSupply
<1>5. /\ saved'.usdc = usdc /\ saved'.totalPendingRedeemShares = totalPendingRedeemShares
      /\ savedVenue'[2] = debt
    BY <1>1, <1>2 DEF CurrentSnapshot
<1>6. Owed' = Owed
    BY <1>2 DEF Owed
<1>7. Sized(usdc, totalPendingRedeemShares, debt)
    BY <1>2 DEF SizeInv, StrikeSized
<1>8. Sized(saved.usdc, saved.totalPendingRedeemShares, savedVenue[2])'
    BY <1>2, <1>3, <1>5, <1>6, <1>7 DEF Sized
<1>9. StrikeSized'
    BY <1>2, <1>3, <1>8 DEF SizeInv, StrikeSized, CycleFails
<1> QED BY <1>4, <1>9 DEF SizeInv

\* What a step frees is compared when the last redemption is settled.
LEMMA CycleStepSize ==
    ASSUME CycleInv, SizeInv, CycleStep
    PROVE  SizeInv'
<1>1. /\ phase = "plan" /\ phase' = "plan" /\ saved' = saved
      /\ UNCHANGED <<history, savedVenue, strikeGhosts>>
    BY CycleStepEffect
<1>2. UNCHANGED <<nav, totalSupply, totalPendingDepositAssets, totalRefundableDepositAssets,
                  totalClaimableRedeemAssets>>
    <2>1. PICK balance : PlanStep(balance)
        BY DEF CycleStep
    <2> QED BY <2>1 DEF PlanStep, attestVars, depositVars, requestDepositVars, refundVars,
                        redeemVars, claimRedeemVars
<1>3. UNCHANGED <<read, fresh, landed>> /\ ~Idle /\ InPlan
    BY <1>1 DEF strikeGhosts, Idle, InPlan
<1>4. SupplyKept'
    BY <1>1, <1>3, InStrikeSupply
<1>5. UNCHANGED totalPendingRedeemShares
    <2>1. PICK balance : PlanStep(balance)
        BY DEF CycleStep
    <2> QED BY <2>1 DEF PlanStep, redeemVars, requestRedeemVars
<1>6. Owed' = Owed
    BY <1>2, <1>5 DEF Owed
<1>7. Sized(saved.usdc, saved.totalPendingRedeemShares, savedVenue[2])
    BY <1>3 DEF SizeInv, StrikeSized
<1>8. Sized(saved.usdc, saved.totalPendingRedeemShares, savedVenue[2])'
    BY <1>1, <1>2, <1>3, <1>6, <1>7 DEF Sized
<1>9. StrikeSized'
    BY <1>1, <1>3, <1>8 DEF SizeInv, StrikeSized, CycleFails
<1> QED BY <1>4, <1>9 DEF SizeInv

\* A redemption books its part of what is owed; the rest is owed the rest.
LEMMA CycleSettleSize ==
    ASSUME CycleInv, PlanInv, SizeInv, CycleSettle
    PROVE  SizeInv'
<1>1. UNCHANGED <<history, savedVenue, strikeGhosts>>
    BY DEF CycleSettle, navVars
<1>2. UNCHANGED <<read, fresh, landed>> /\ phase \in {"plan", "redeems"}
    BY <1>1 DEF strikeGhosts, CycleSettle, PlanStepsDone, FulfillRedeem, PlanExecuted
<1>3. ~Idle /\ InPlan
    BY <1>2 DEF Idle, InPlan
<1>4. SupplyKept'
    BY <1>1, <1>2, <1>3, InStrikeSupply
<1>5. Sized(saved.usdc, saved.totalPendingRedeemShares, savedVenue[2])
    BY <1>3 DEF SizeInv, StrikeSized
<1>6. CASE PlanStepsDone
    <2>1. /\ phase' = "redeems" /\ saved' = saved
          /\ UNCHANGED <<nav, totalSupply, totalPendingDepositAssets, totalRefundableDepositAssets,
                         totalPendingRedeemShares, totalClaimableRedeemAssets>>
        BY <1>6 DEF PlanStepsDone, attestVars, depositVars, requestDepositVars, refundVars,
                    redeemVars, requestRedeemVars, claimRedeemVars
    <2>2. Owed' = Owed
        BY <2>1 DEF Owed
    <2>3. Sized(saved.usdc, saved.totalPendingRedeemShares, savedVenue[2])'
        BY <1>1, <1>2, <1>5, <2>1, <2>2 DEF Sized
    <2>4. StrikeSized'
        BY <1>2, <1>3, <2>1, <2>3 DEF SizeInv, StrikeSized, CycleFails
    <2> QED BY <1>4, <2>4 DEF SizeInv
<1>7. CASE FulfillRedeem
    <2> DEFINE s == totalPendingRedeemShares
               n == nav + totalPendingDepositAssets
               first == pendingRedeemShares[Head(redeemQueue)]
               assets == (first * n) \div totalSupply
               left == OwedOf(s - first, n - assets, totalSupply - first)
    <2>1. totalPendingDepositAssets = 0
        <3>1. /\ depositQueue = <<>> /\ pendingDepositAssets \in Ledger
              /\ QueuedOnce(depositQueue, pendingDepositAssets)
              /\ IsSum(Accounts, pendingDepositAssets, totalPendingDepositAssets)
            BY <1>3 DEF CycleInv, IInv, TypeOK, DepositTypes, DepositBooks
        <3> QED BY <3>1, NothingQueuedIsZero
    <2>2. n = nav /\ n \in Nat /\ s \in Nat /\ s <= totalSupply /\ totalSupply \in Nat
        BY <2>1, VaultAmounts, PendingIsIssued
    <2>3. first \in Nat /\ first > 0 /\ first <= s
        <3>1. /\ pendingRedeemShares \in Ledger /\ redeemQueue \in Seq(Accounts)
              /\ redeemQueue # <<>>
            BY <1>7 DEF CycleInv, IInv, TypeOK, RedeemTypes, FulfillRedeem
        <3>2. /\ QueuedOnce(redeemQueue, pendingRedeemShares)
              /\ IsSum(Accounts, pendingRedeemShares, totalPendingRedeemShares)
            BY DEF CycleInv, IInv, RedeemBooks, CurrentSnapshot
        <3>3. Head(redeemQueue) \in Accounts /\ first \in Nat /\ first > 0
            BY <3>1, <3>2, DequeueKeepsQueue
        <3> QED BY <3>1, <3>2, <3>3, SumBounds DEF Ledger
    <2>4. /\ phase' = "redeems" /\ saved' = saved
          /\ UNCHANGED <<totalPendingDepositAssets, totalRefundableDepositAssets>>
          /\ totalPendingRedeemShares' = s - first
          /\ totalClaimableRedeemAssets' = totalClaimableRedeemAssets + assets
          /\ totalSupply' = totalSupply - first /\ nav' = nav - assets
        BY <1>7, <2>2 DEF FulfillRedeem, strikeVars, depositVars, requestDepositVars, refundVars
    <2> HIDE DEF first, s
    <2>5. assets \in Nat /\ assets <= n /\ left \in Nat
          /\ assets + left <= OwedOf(s, n, totalSupply)
        BY <2>2, <2>3, OwedIsTaken
    <2>6. Owed = OwedOf(s, n, totalSupply)
        BY DEF Owed, s
    <2> HIDE DEF assets
    <2>7. Owed' = left
        <3>1. nav' + totalPendingDepositAssets' = n - assets
            BY <2>1, <2>2, <2>4, <2>5
        <3> QED BY <2>4, <3>1 DEF Owed
    <2> HIDE DEF left, n
    <2>8. Sized(saved.usdc, saved.totalPendingRedeemShares, savedVenue[2])'
        <3> SUFFICES ASSUME fresh, read.refundable = 0, totalRefundableDepositAssets = 0,
                            saved.totalPendingRedeemShares = read.pendingRedeemShares,
                            savedVenue[2] = read.debt
                     PROVE  (totalClaimableRedeemAssets + assets) + left
                                <= saved.usdc + RedeemShortfall(read)
            BY <1>1, <1>2, <2>4, <2>7 DEF Sized
        <3>1. totalClaimableRedeemAssets + Owed <= saved.usdc + RedeemShortfall(read)
            BY <1>5 DEF Sized
        <3>2. OwedOf(s, n, totalSupply) \in Nat
            BY <2>2, OwedIsNat
        <3>3. saved.usdc \in Nat /\ RedeemShortfall(read) \in Nat
            BY <1>3, ShortfallIsNat DEF CycleInv, IInv, TypeOK, StrikeTypes, Snapshot,
                                        PlanInv, StrikeInFlight
        <3> QED BY <2>5, <2>6, <3>1, <3>2, <3>3, VaultAmounts
    <2>9. StrikeSized'
        BY <1>2, <1>3, <2>4, <2>8 DEF SizeInv, StrikeSized, CycleFails
    <2> QED BY <1>4, <2>9 DEF SizeInv
<1>8. CASE PlanExecuted
    <2>1. phase' = "idle"
        BY <1>8 DEF PlanExecuted
    <2>2. StrikeSized'
        BY <2>1 DEF StrikeSized, Idle, InPlan
    <2> QED BY <1>4, <2>2 DEF SizeInv
<1> QED BY <1>6, <1>7, <1>8 DEF CycleSettle

\* A rejected plan leaves nothing in flight.
LEMMA CycleRevertsSize ==
    ASSUME CycleInv, SizeInv, CycleReverts
    PROVE  SizeInv'
<1>1. UNCHANGED <<history, strikeGhosts>> /\ phase \in {"plan", "redeems"} /\ phase' = "idle"
    BY DEF CycleReverts, PlanStepReverts, EscrowFloorBreached, Rollback
<1>2. SupplyKept'
    BY <1>1, InStrikeSupply DEF Idle, strikeGhosts
<1>3. StrikeSized'
    BY <1>1 DEF StrikeSized, Idle, InPlan
<1> QED BY <1>2, <1>3 DEF SizeInv

\* At first no block was read.
LEMMA InitCycleSize ==
    ASSUME InitCycle
    PROVE  SizeInv
BY DEF InitCycle, Init, SizeInv, SupplyKept, StrikeSized, NoState, Idle, InPlan

\* Nothing else moves what the plan was sized for.
LEMMA CycleStutterSize ==
    ASSUME CycleInv, SizeInv, UNCHANGED cycleVars
    PROVE  SizeInv'
<1>1. UNCHANGED vars /\ UNCHANGED <<venueVars, history, savedVenue, strikeGhosts>>
    BY DEF cycleVars, navVars
<1>2. /\ UNCHANGED <<nav, usdc, totalSupply, phase, saved, totalPendingDepositAssets,
                     totalRefundableDepositAssets, totalPendingRedeemShares,
                     totalClaimableRedeemAssets>>
      /\ UNCHANGED <<debt, history, savedVenue, read, landed, fresh>>
    BY <1>1 DEF vars, attestVars, depositVars, requestDepositVars, refundVars, redeemVars,
                requestRedeemVars, claimRedeemVars, strikeVars, venueVars, strikeGhosts
<1>3. SupplyKept'
    BY <1>2 DEF SizeInv, SupplyKept
<1>4. Owed' = Owed
    BY <1>2 DEF Owed
<1>5. StrikeSized'
    BY <1>2, <1>4 DEF SizeInv, StrikeSized, Sized, CycleFails, Idle, InPlan
<1> QED BY <1>3, <1>5 DEF SizeInv

\* What a plan that does not open frees is a number.
LEMMA FreedIsInt ==
    ASSUME NEW s \in States, NEW steps, steps = CyclePlan(s), ~IsOpening(steps)
    PROVE  Freed(steps, Len(steps)) \in Int
<1>1. steps \in Seq(PlanSteps)
    BY PlanIsSteps
<1>2. CASE steps = Empty
    BY <1>2 DEF Empty, Freed
<1>3. CASE Deleverages(s, steps)
    <2>1. Len(steps) = 1 /\ steps[1].op = "flashLoan"
        BY <1>3 DEF Deleverages, IsDeleverage
    <2>2. steps[1] \in PlanSteps
        BY <1>1, <2>1
    <2>3. steps[1].min \in Nat /\ steps[1].repay \in Nat
        BY <2>1, <2>2, StepAmounts
    <2> QED BY <2>1, <2>3 DEF Freed
<1>4. CASE SpotUnwinds(s, steps)
    <2>1. Len(steps) = 3 /\ steps[1].op = "withdraw" /\ steps[3].op = "swapOut"
        BY <1>4 DEF SpotUnwinds, IsSpotUnwind
    <2>2. steps[3] \in PlanSteps
        <3>1. 3 \in 1 .. Len(steps)
            BY <2>1
        <3> QED BY <1>1, <3>1
    <2>3. steps[3].min \in Nat
        BY <2>1, <2>2, StepAmounts
    <2> QED BY <2>1, <2>3 DEF Freed
<1>5. CASE Opens(s, steps)
    BY <1>5 DEF Opens
<1> QED BY <1>2, <1>3, <1>4, <1>5, PlanShape

\* Every step keeps the sizing.
LEMMA NextSizeStep ==
    ASSUME CycleInv, PlanInv, SizeInv, [NextCycle]_cycleVars
    PROVE  SizeInv'
BY EndBlockSize, QuietSizeSteps, LandEnvelopeSize, CycleDepositsSize, CycleEnterPlanSize,
   CycleStepSize, CycleSettleSize, CycleRevertsSize, CycleStutterSize DEF NextCycle

\* What the plan was sized for and what it freed add up when the last redemption is settled.
LEMMA PlanPays ==
    ASSUME CycleInv, PlanInv, SizeInv
    PROVE  PlansPayRedemptions
<1> SUFFICES ASSUME phase = "redeems", redeemQueue = <<>>, fresh, ~Breached(read),
                    read.refundable = 0, totalRefundableDepositAssets = 0,
                    saved.totalPendingRedeemShares = read.pendingRedeemShares,
                    read.pendingRedeemShares # 0, savedVenue[2] = read.debt, CushionSuffices(read)
             PROVE  usdc + Roundings(read) >= EscrowFloorAmount
    BY DEF PlansPayRedemptions
<1> DEFINE steps == CyclePlan(read)
           freed == Freed(steps, Len(steps))
           short == RedeemShortfall(read)
<1>1. InPlan /\ ~Idle
    BY DEF InPlan, Idle
<1>2. /\ read \in States /\ PlanRuns
      /\ ~CycleFails(read) /\ read.pendingRedeemShares <= read.supply
      /\ Sized(saved.usdc, saved.totalPendingRedeemShares, savedVenue[2])
    BY <1>1 DEF PlanInv, StrikeInFlight, SizeInv, StrikeSized
<1>3. ~IsOpening(steps) /\ short <= freed + Roundings(read)
    BY <1>2, PlanFrees
<1>4. freed \in Int /\ short \in Nat /\ Roundings(read) \in Nat
    BY <1>2, <1>3, FreedIsInt, ShortfallIsNat, RoundingsAtLeast
<1>5. usdc >= saved.usdc + freed
    <2>1. Len(plan) = 0 /\ Len(steps) \in Nat
        BY <1>2, PlanIsSteps DEF PlanRuns
    <2>2. StepsTaken = Len(steps)
        BY <2>1 DEF StepsTaken
    <2> QED BY <1>2, <1>3, <2>2 DEF PlanRuns
<1>6. totalClaimableRedeemAssets + Owed <= saved.usdc + short
    BY <1>2 DEF Sized
<1> HIDE DEF freed, short
<1>7. totalPendingDepositAssets = 0
    <2>1. /\ depositQueue = <<>> /\ pendingDepositAssets \in Ledger
          /\ QueuedOnce(depositQueue, pendingDepositAssets)
          /\ IsSum(Accounts, pendingDepositAssets, totalPendingDepositAssets)
        BY <1>1 DEF CycleInv, IInv, TypeOK, DepositTypes, DepositBooks
    <2> QED BY <2>1, NothingQueuedIsZero
<1>8. Owed \in Nat
    <2>1. nav + totalPendingDepositAssets \in Nat
        BY VaultAmounts
    <2> QED BY <2>1, VaultAmounts, OwedIsNat DEF Owed
<1>9. saved.usdc \in Nat
    BY DEF CycleInv, IInv, TypeOK, StrikeTypes, Snapshot
<1>10. EscrowFloorAmount = totalClaimableRedeemAssets
    BY <1>7, VaultAmounts DEF EscrowFloorAmount
<1>11. usdc \in Nat /\ totalClaimableRedeemAssets \in Nat
    BY VaultAmounts
<1>12. totalClaimableRedeemAssets <= saved.usdc + short
    BY <1>4, <1>6, <1>8, <1>9, <1>11
<1>13. short <= freed + Roundings(read)
    BY <1>3 DEF freed, short
<1> HIDE DEF steps
<1>14. totalClaimableRedeemAssets <= usdc + Roundings(read)
    BY <1>4, <1>5, <1>9, <1>11, <1>12, <1>13
<1> QED BY <1>10, <1>14

(***************************************************************************)
(* SizeInv holds in every reachable state: from the landing of a fresh     *)
(* strike to its last redemption, what is booked and still owed is no more *)
(* than the balance the plan started from and the shortfall it was sized   *)
(* by, whatever deposits came in since the read and in whatever order the  *)
(* requests are settled.                                                   *)
(***************************************************************************)
THEOREM SizeInvariance == SpecCycle => []SizeInv
BY CycleInvariance, PlanInvariance, InitCycleSize, NextSizeStep, PTL DEF SpecCycle

(***************************************************************************)
(* A plan all of whose steps succeeded pays the redemptions it was sized   *)
(* for, up to the units the code rounds: for every amount, price, haircut  *)
(* and exit rounding, at every leverage the cushion allows for.            *)
(***************************************************************************)
THEOREM PlansPayRedemptionsHolds == SpecCycle => []PlansPayRedemptions
BY CycleInvariance, PlanInvariance, SizeInvariance, PlanPays, PTL

-----------------------------------------------------------------------------
(***************************************************************************)
(* Subgraph                                                                *)
(***************************************************************************)

-----------------------------------------------------------------------------
(* Folding the handlers over a log                                         *)

\* What the handlers make of the entities e when the log is delivered in order.
Folded(e, log) == FoldLeft(Handle, e, log)

\* A set of natural numbers that is not empty has a least one.
LEMMA LeastExists ==
    ASSUME NEW S \in SUBSET Nat, S # {}
    PROVE  \E m \in S : \A n \in S : m <= n
<1>1. PICK m \in S : \A n \in S : ~(<<n, m>> \in OpToRel(<, Nat))
  BY NatLessThanWellFounded, WFMin
<1>2. ASSUME NEW n \in S PROVE m <= n
  <2>1. ~(n < m)
    BY <1>1, <1>2 DEF OpToRel
  <2> QED BY <2>1
<1> QED BY <1>2

LEMMA LeastIsMin ==
    ASSUME NEW S \in SUBSET Nat, NEW m \in S, \A n \in S : m <= n
    PROVE  Min(S) = m
<1>1. Min(S) \in S /\ \A n \in S : Min(S) <= n
  BY DEF Min
<1>2. Min(S) <= m /\ m <= Min(S) /\ Min(S) \in Nat /\ m \in Nat
  BY <1>1
<1> QED BY <1>2

\* Max of a part of an interval is its largest element.
LEMMA LargestIsMax ==
    ASSUME NEW n \in Nat, NEW S \in SUBSET (1 .. n), S # {}
    PROVE  Max(S) \in S /\ \A x \in S : Max(S) >= x
<1> DEFINE B == {k \in Nat : \A x \in S : k >= x}
<1>1. B \in SUBSET Nat /\ n \in B
  OBVIOUS
<1>2. PICK m \in B : \A k \in B : m <= k
  <2> HIDE DEF B
  <2> QED BY <1>1, LeastExists
<1>3. m \in Nat /\ \A x \in S : m >= x /\ x \in Nat
  BY <1>2
<1>4. m \in S
  <2>1. ASSUME m \notin S PROVE FALSE
    <3>1. PICK x \in S : TRUE
      OBVIOUS
    <3>2. m - 1 \in Nat
      BY <1>3, <3>1
    <3>3. \A y \in S : m - 1 >= y
      BY <1>3, <2>1
    <3>4. m - 1 \in B
      BY <3>2, <3>3
    <3> QED BY <1>2, <1>3, <3>4
  <2> QED BY <2>1
<1> HIDE DEF B
<1> QED BY <1>3, <1>4, Zenon DEF Max

Step(g, e, log, s) == IF s = {} THEN e ELSE Handle(g[s \ {Max(s)}], log[Max(s)])

\* g folds the log over every part of D.
Folds(g, e, log, D) == g = [s \in SUBSET D |-> Step(g, e, log, s)]

LEMMA FoldExists ==
    ASSUME NEW e, NEW log, NEW n \in Nat
    PROVE  \E g : Folds(g, e, log, 1 .. n)
<1> DEFINE D == 1 .. n
           Done(T) == \E g : Folds(g, e, log, T)
           B == {T \in SUBSET D : ~Done(T)}
<1>1. Done({})
  <2> DEFINE g == [s \in SUBSET {} |-> e]
  <2>1. Folds(g, e, log, {})
    BY DEF Folds, Step
  <2> QED BY <2>1
<1>2. ASSUME NEW T \in SUBSET D, T # {}, Done(T \ {Max(T)}) PROVE Done(T)
  <2> DEFINE x == Max(T)
             R == T \ {x}
  <2>1. PICK g : Folds(g, e, log, R)
    BY <1>2
  <2> DEFINE h == [s \in SUBSET T |-> IF x \in s THEN Handle(g[s \ {x}], log[x]) ELSE g[s]]
  <2>2. x \in T /\ \A y \in T : y <= x
    BY <1>2, LargestIsMax
  <2>3. ASSUME NEW s \in SUBSET T PROVE h[s] = Step(h, e, log, s)
    <3>1. CASE x \in s
      <4>1. Max(s) \in s /\ \A y \in s : Max(s) >= y
        BY <1>2, <3>1, LargestIsMax
      <4>2. Max(s) = x
        <5>1. Max(s) \in T
          BY <4>1
        <5>2. Max(s) \in Nat /\ x \in Nat
          <6>1. T \in SUBSET Nat
            OBVIOUS
          <6> HIDE DEF x
          <6> QED BY <2>2, <5>1, <6>1
        <5>3. Max(s) <= x /\ Max(s) >= x
          BY <2>2, <3>1, <4>1, <5>1
        <5> HIDE DEF x
        <5> QED BY <5>2, <5>3
      <4>3. s \ {x} \in SUBSET T /\ x \notin s \ {x}
        OBVIOUS
      <4>4. h[s \ {x}] = g[s \ {x}]
        BY <4>3
      <4>5. h[s] = Handle(g[s \ {x}], log[x])
        BY <3>1
      <4> HIDE DEF h, x
      <4> QED BY <3>1, <4>2, <4>4, <4>5 DEF Step
    <3>2. CASE x \notin s
      <4>1. s \in SUBSET R /\ h[s] = g[s]
        BY <3>2
      <4>2. g[s] = Step(g, e, log, s)
        BY <2>1, <4>1 DEF Folds
      <4>3. s \ {Max(s)} \in SUBSET T /\ x \notin s \ {Max(s)}
        BY <3>2
      <4>4. h[s \ {Max(s)}] = g[s \ {Max(s)}]
        BY <4>3
      <4> HIDE DEF h, x
      <4> QED BY <4>1, <4>2, <4>4 DEF Step
    <3> QED BY <3>1, <3>2
  <2>4. h = [s \in SUBSET T |-> h[s]]
    OBVIOUS
  <2> HIDE DEF h
  <2>5. h = [s \in SUBSET T |-> Step(h, e, log, s)]
    BY <2>3, <2>4
  <2> QED BY <2>5 DEF Folds
<1> HIDE DEF Done
<1>3. ASSUME B # {} PROVE FALSE
  <2>1. B \in SUBSET (SUBSET D) /\ IsFiniteSet(D)
    BY FS_Interval
  <2>2. \E T \in B : \A U \in B : U \subseteq T => U = T
    <3> HIDE DEF B, D
    <3> QED BY <1>3, <2>1, SmallestSubset
  <2>3. PICK T \in B : \A U \in B : U \subseteq T => U = T
    BY <2>2
  <2>4. T # {} /\ T \in SUBSET D
    BY <1>1, <2>3
  <2>5. Max(T) \in T
    BY <2>4, LargestIsMax
  <2>6. T \ {Max(T)} \in SUBSET D /\ T \ {Max(T)} \subseteq T /\ T \ {Max(T)} # T
    BY <2>4, <2>5
  <2>7. Done(T \ {Max(T)})
    BY <2>3, <2>6
  <2> QED BY <1>2, <2>3, <2>4, <2>7
<1>4. Done(D)
  BY <1>3
<1> QED BY <1>4 DEF Done

\* The fold of the community modules is the value of such a function.
LEMMA FoldedIsFold ==
    ASSUME NEW e, NEW log, NEW n \in Nat, DOMAIN log = 1 .. n
    PROVE  \E g : Folds(g, e, log, 1 .. n) /\ Folded(e, log) = g[1 .. n]
<1> DEFINE iter == CHOOSE g : Folds(g, e, log, 1 .. n)
<1>1. Folded(e, log) = iter[1 .. n]
  BY DEF Folded, FoldLeft, MapThenFoldSet, Folds, Step
<1>2. Folds(iter, e, log, 1 .. n)
  BY FoldExists
<1> QED BY <1>1, <1>2

\* An empty log changes nothing.
LEMMA FoldOfNone == ASSUME NEW e PROVE Folded(e, <<>>) = e
<1>1. PICK g : Folds(g, e, <<>>, 1 .. 0) /\ Folded(e, <<>>) = g[1 .. 0]
  BY FoldedIsFold
<1>2. 1 .. 0 = {}
  OBVIOUS
<1>3. g[{}] = Step(g, e, <<>>, {})
  BY <1>1, <1>2 DEF Folds
<1> QED BY <1>1, <1>2, <1>3 DEF Step

\* One more event is handled last.
LEMMA FoldOfOneMore ==
    ASSUME NEW S, NEW log \in Seq(S), NEW event \in S, NEW e
    PROVE  Folded(e, Append(log, event)) = Handle(Folded(e, log), event)
<1> DEFINE n == Len(log)
           longer == Append(log, event)
           D == 1 .. n
           E == 1 .. (n + 1)
<1>1. /\ n \in Nat /\ DOMAIN log = D /\ DOMAIN longer = E
      /\ longer[n + 1] = event /\ \A i \in D : longer[i] = log[i]
  <2>1. n \in Nat /\ DOMAIN log = D
    OBVIOUS
  <2>2. Len(longer) = n + 1 /\ longer \in Seq(S) /\ longer[n + 1] = event
    BY AppendProperties
  <2>3. \A i \in D : longer[i] = log[i]
    BY AppendProperties
  <2>4. DOMAIN longer = E
    <3> HIDE DEF longer, n
    <3> QED BY <2>2
  <2> QED BY <2>1, <2>2, <2>3, <2>4
<1> HIDE DEF longer, n
<1>2. PICK g : Folds(g, e, log, D) /\ Folded(e, log) = g[D]
  BY <1>1, FoldedIsFold
<1>3. PICK h : Folds(h, e, longer, E) /\ Folded(e, longer) = h[E]
  <2>1. n + 1 \in Nat /\ DOMAIN longer = 1 .. (n + 1)
    BY <1>1
  <2> QED BY <2>1, FoldedIsFold
<1> DEFINE B == {s \in SUBSET D : g[s] # h[s]}
<1>4. ASSUME B # {} PROVE FALSE
  <2>1. B \in SUBSET (SUBSET D) /\ IsFiniteSet(D)
    <3>1. IsFiniteSet(D)
      <4>1. 1 \in Int /\ n \in Int
        BY <1>1
      <4> QED BY <4>1, FS_Interval
    <3>2. B \in SUBSET (SUBSET D)
      OBVIOUS
    <3> QED BY <3>1, <3>2
  <2>2. \E T \in B : \A U \in B : U \subseteq T => U = T
    <3> HIDE DEF B, D
    <3> QED BY <1>4, <2>1, SmallestSubset
  <2>3. PICK T \in B : \A U \in B : U \subseteq T => U = T
    BY <2>2
  <2>4. T \in SUBSET D /\ T \in SUBSET E
    BY <1>1, <2>3
  <2>5. g[T] = Step(g, e, log, T) /\ h[T] = Step(h, e, longer, T)
    BY <1>2, <1>3, <2>4 DEF Folds
  <2>6. T # {}
    BY <2>3, <2>5 DEF Step
  <2>7. Max(T) \in T
    BY <1>1, <2>4, <2>6, LargestIsMax
  <2>8. T \ {Max(T)} \in SUBSET D /\ T \ {Max(T)} \subseteq T /\ T \ {Max(T)} # T
    BY <2>4, <2>7
  <2>9. g[T \ {Max(T)}] = h[T \ {Max(T)}]
    BY <2>3, <2>8
  <2>10. longer[Max(T)] = log[Max(T)]
    BY <1>1, <2>4, <2>7
  <2> QED BY <2>3, <2>5, <2>6, <2>9, <2>10 DEF Step
<1>5. g[D] = h[D]
  BY <1>4
<1>6. Max(E) = n + 1
  <2>1. n + 1 \in E
    BY <1>1
  <2>2. Max(E) \in E /\ \A x \in E : Max(E) >= x
    <3>1. n + 1 \in Nat
      BY <1>1
    <3>2. E \in SUBSET (1 .. (n + 1)) /\ E # {}
      BY <2>1
    <3> QED BY <3>1, <3>2, LargestIsMax
  <2> QED BY <1>1, <2>1, <2>2
<1>7. E \ {n + 1} = D /\ E # {}
  <2>1. ASSUME NEW i PROVE i \in E \ {n + 1} <=> i \in D
    BY <1>1
  <2>2. n + 1 \in E
    BY <1>1
  <2> HIDE DEF D, E
  <2> QED BY <2>1, <2>2
<1>8. h[E] = Step(h, e, longer, E)
  BY <1>3 DEF Folds
<1>9. h[E] = Handle(h[D], longer[n + 1])
  <2> HIDE DEF D, E
  <2> QED BY <1>6, <1>7, <1>8 DEF Step
<1> QED BY <1>1, <1>2, <1>3, <1>5, <1>9 DEF longer

-----------------------------------------------------------------------------
(* What the handlers write                                                 *)

StrikeRow == [nav : Nat, day : Nat]

VaultRows ==
    [totalShares : Nat, totalDepositRequested : Nat, totalDepositFulfilled : Nat,
     totalRedeemRequested : Nat, totalRedeemFulfilled : Int,
     lastNav : Nat, lastInputsBlock : Nat, updateCount : Nat, breachFlags : BOOLEAN]

DayRows ==
    [strikeCount : Nat, navEnd : Nat, navMin : Nat, navMax : Nat, depositRequests : Nat,
     redeemRequests : Nat, depositsFulfilled : Nat, redeemsFulfilled : Int,
     planExecuted : Nat, planRejected : Nat]

OtherRows == [strikes : Seq(StrikeRow), refunded : Nat]

Entities == [vault : VaultRows, day : DayRows, rows : OtherRows]

Events ==
    [type : {"DepositRequest", "DepositRequestRefunded"}, assets : Nat]
    \cup [type : {"RedeemRequest"}, shares : Nat]
    \cup [type : {"DepositRequestFulfilled"}, assets : Nat, shares : Nat]
    \cup [type : {"RedeemRequestFulfilled"}, shares : Nat, assets : Int]
    \cup [type : {"NavUpdated"}, nav : Nat, inputsBlock : Nat, updateCount : Nat,
          breachFlags : BOOLEAN, day : Nat]
    \cup [type : {"PlanExecuted", "PlanRejected"}]

\* A strike changes the lowest NAV of its own day only, and as handleNavUpdated does.
LEMMA StrikeLowers ==
    ASSUME NEW strikes \in Seq(StrikeRow), NEW d, NEW strike \in StrikeRow
    PROVE  /\ LowestStruck(strikes, d) \in Nat
           /\ LowestStruck(Append(strikes, strike), d) =
                IF strike.day = d THEN Lowest(LowestStruck(strikes, d), strike.nav)
                ELSE LowestStruck(strikes, d)
<1> DEFINE n == Len(strikes)
           longer == Append(strikes, strike)
           struck == {i \in DOMAIN strikes : strikes[i].day = d}
           after == {i \in DOMAIN longer : longer[i].day = d}
           kept == {j \in struck : \A k \in struck : k >= j => strikes[k].nav # 0}
           keptAfter == {j \in after : \A k \in after : k >= j => longer[k].nav # 0}
           navs == {strikes[i].nav : i \in kept}
           navsAfter == {longer[i].nav : i \in keptAfter}
           low == LowestStruck(strikes, d)
<1>1. /\ n \in Nat /\ DOMAIN strikes = 1 .. n
      /\ DOMAIN longer = 1 .. (n + 1) /\ longer[n + 1] = strike
      /\ \A i \in 1 .. n : longer[i] = strikes[i]
      /\ \A i \in 1 .. n : strikes[i].nav \in Nat
  <2>1. n \in Nat /\ DOMAIN strikes = 1 .. n
    OBVIOUS
  <2>2. Len(longer) = n + 1 /\ longer \in Seq(StrikeRow) /\ longer[n + 1] = strike
    BY AppendProperties
  <2>3. \A i \in 1 .. n : longer[i] = strikes[i]
    BY AppendProperties
  <2>4. DOMAIN longer = 1 .. (n + 1)
    <3> HIDE DEF longer, n
    <3> QED BY <2>2
  <2>5. \A i \in 1 .. n : strikes[i] \in StrikeRow
    OBVIOUS
  <2>6. \A i \in 1 .. n : strikes[i].nav \in Nat
    BY <2>5 DEF StrikeRow
  <2> QED BY <2>1, <2>2, <2>3, <2>4, <2>6
<1>2. strike.nav \in Nat
  BY DEF StrikeRow
<1>3. low = IF navs = {} THEN 0 ELSE Min(navs)
  BY DEF LowestStruck
<1>4. LowestStruck(longer, d) = IF navsAfter = {} THEN 0 ELSE Min(navsAfter)
  BY DEF LowestStruck
<1> HIDE DEF longer, n
<1>5. /\ struck = {i \in 1 .. n : strikes[i].day = d}
      /\ after = {i \in 1 .. (n + 1) : longer[i].day = d}
  BY <1>1
<1>6. navs \in SUBSET (Nat \ {0})
  <2>1. ASSUME NEW j \in kept PROVE strikes[j].nav \in Nat /\ strikes[j].nav # 0
    BY <1>1, <1>5
  <2> QED BY <2>1
<1>7. /\ low \in Nat /\ (low = 0 <=> navs = {})
      /\ navs # {} => low \in navs /\ \A m \in navs : low <= m
  <2>1. CASE navs = {}
    <3> HIDE DEF navs, low
    <3> QED BY <1>3, <2>1
  <2>2. CASE navs # {}
    <3>1. navs \in SUBSET Nat
      BY <1>6
    <3>2. PICK m \in navs : \A k \in navs : m <= k
      <4> HIDE DEF navs
      <4> QED BY <2>2, <3>1, LeastExists
    <3>3. low = m
      <4> HIDE DEF navs, low
      <4> QED BY <1>3, <2>2, <3>1, <3>2, LeastIsMin
    <3>4. m \in Nat /\ m # 0
      BY <1>6, <3>2
    <3> HIDE DEF navs, low
    <3> QED BY <2>2, <3>2, <3>3, <3>4
  <2> QED BY <2>1, <2>2
<1> HIDE DEF low
<1>8. CASE strike.day # d
  <2>1. after = struck
    BY <1>1, <1>5, <1>8
  <2>2. keptAfter = kept
    <3> HIDE DEF struck, after
    <3>1. \A k \in struck : longer[k].nav = strikes[k].nav
      BY <1>1, <1>5
    <3> QED BY <2>1, <3>1
  <2>3. navsAfter = navs
    <3>1. \A k \in kept : longer[k].nav = strikes[k].nav
      BY <1>1, <1>5
    <3> HIDE DEF kept, keptAfter
    <3> QED BY <2>2, <3>1
  <2> HIDE DEF navs, navsAfter
  <2> QED BY <1>3, <1>4, <1>7, <1>8, <2>3 DEF longer, low
<1>9. CASE strike.day = d /\ strike.nav = 0
  <2>1. n + 1 \in after /\ longer[n + 1].nav = 0
    BY <1>1, <1>5, <1>9
  <2>2. \A j \in after : n + 1 >= j
    BY <1>1, <1>5
  <2>3. keptAfter = {}
    <3> HIDE DEF after
    <3> QED BY <2>1, <2>2
  <2>4. navsAfter = {}
    <3> HIDE DEF keptAfter
    <3> QED BY <2>3
  <2>5. Lowest(low, 0) = 0
    BY <1>7 DEF Lowest
  <2> HIDE DEF navsAfter
  <2> QED BY <1>4, <1>7, <1>9, <2>4, <2>5 DEF longer, low
<1>10. CASE strike.day = d /\ strike.nav # 0
  <2>1. after = struck \cup {n + 1} /\ n + 1 \notin struck
    <3>1. ASSUME NEW i PROVE i \in after <=> i \in struck \cup {n + 1}
      BY <1>1, <1>5, <1>10
    <3>2. n + 1 \notin struck
      BY <1>1, <1>5
    <3> HIDE DEF after, struck
    <3> QED BY <3>1, <3>2
  <2>2. longer[n + 1].nav = strike.nav /\ \A k \in struck : longer[k].nav = strikes[k].nav /\ k \in 1 .. n
    BY <1>1, <1>5
  <2>3. keptAfter = kept \cup {n + 1}
    <3> HIDE DEF after, struck
    <3>1. ASSUME NEW j \in kept PROVE j \in keptAfter
      BY <1>10, <2>1, <2>2
    <3>2. n + 1 \in keptAfter
      <4>1. ASSUME NEW k \in after, k >= n + 1 PROVE k = n + 1
        BY <1>1, <2>1, <2>2, <4>1
      <4> QED BY <1>10, <2>1, <2>2, <4>1
    <3>3. ASSUME NEW j \in keptAfter, j # n + 1 PROVE j \in kept
      BY <2>1, <2>2, <3>3
    <3> HIDE DEF kept, keptAfter
    <3> QED BY <3>1, <3>2, <3>3
  <2>4. navsAfter = navs \cup {strike.nav}
    <3>1. \A k \in kept : longer[k].nav = strikes[k].nav
      BY <2>2
    <3> HIDE DEF kept, keptAfter
    <3> QED BY <2>2, <2>3, <3>1
  <2>5. Lowest(low, strike.nav) = IF navs = {} \/ strike.nav < low THEN strike.nav ELSE low
    <3> HIDE DEF navs
    <3> QED BY <1>7 DEF Lowest
  <2> DEFINE new == IF navs = {} \/ strike.nav < low THEN strike.nav ELSE low
  <2>6. new \in navsAfter /\ \A m \in navsAfter : new <= m
    <3> HIDE DEF navs, navsAfter
    <3>1. \A m \in navs : m \in Nat
      BY <1>6
    <3> QED BY <1>2, <1>7, <2>4, <3>1
  <2>7. navsAfter \in SUBSET Nat
    <3> HIDE DEF navs, navsAfter
    <3> QED BY <1>2, <1>6, <2>4
  <2>8. Min(navsAfter) = new /\ navsAfter # {}
    <3> HIDE DEF navsAfter, new
    <3> QED BY <2>6, <2>7, LeastIsMin
  <2> HIDE DEF navsAfter, navs
  <2> QED BY <1>4, <1>7, <1>10, <2>5, <2>8 DEF longer, low
<1> HIDE DEF longer
<1> QED BY <1>7, <1>8, <1>9, <1>10 DEF longer, low

\* What an event adds to each of the running totals.
MintedBy(event) == IF event.type = "DepositRequestFulfilled" THEN event.shares ELSE 0
BurntBy(event) == IF event.type = "RedeemRequestFulfilled" THEN event.shares ELSE 0
RequestedBy(event) == IF event.type = "DepositRequest" THEN event.assets ELSE 0
FulfilledBy(event) == IF event.type = "DepositRequestFulfilled" THEN event.assets ELSE 0
RefundedBy(event) == IF event.type = "DepositRequestRefunded" THEN event.assets ELSE 0

EventEffect(e, event, h) ==
    /\ h \in Entities
    /\ h.vault.totalShares = Burnt(e.vault.totalShares + MintedBy(event), BurntBy(event))
    /\ h.vault.totalDepositRequested = e.vault.totalDepositRequested + RequestedBy(event)
    /\ h.vault.totalDepositFulfilled = e.vault.totalDepositFulfilled + FulfilledBy(event)
    /\ h.rows.refunded = e.rows.refunded + RefundedBy(event)
    /\ h.rows.strikes = IF event.type = "NavUpdated"
                        THEN Append(e.rows.strikes, [nav |-> event.nav, day |-> event.day])
                        ELSE e.rows.strikes
    /\ h.day.navMin = IF event.type = "NavUpdated" THEN Lowest(e.day.navMin, event.nav)
                      ELSE e.day.navMin

\* The handlers write what the event says, and rows of their types.
LEMMA EventEffects ==
    ASSUME NEW e \in Entities, NEW event \in Events
    PROVE  EventEffect(e, event, Handle(e, event))
<1> SUFFICES ASSUME NEW h, h = Handle(e, event) PROVE EventEffect(e, event, h)
  OBVIOUS
<1>1. /\ e.vault \in VaultRows /\ e.day \in DayRows /\ e.rows \in OtherRows
      /\ e = [vault |-> e.vault, day |-> e.day, rows |-> e.rows]
  BY DEF Entities
<1>2. /\ e.vault.totalShares \in Nat /\ e.vault.totalDepositRequested \in Nat
      /\ e.vault.totalDepositFulfilled \in Nat /\ e.rows.refunded \in Nat
      /\ e.day.navMin \in Nat /\ e.rows.strikes \in Seq(StrikeRow)
  BY <1>1 DEF VaultRows, DayRows, OtherRows
<1> USE DEF MintedBy, BurntBy, RequestedBy, FulfilledBy, RefundedBy, Burnt
<1>3. CASE event.type = "DepositRequest"
  <2>1. event.assets \in Nat /\ h = handleDepositRequest(e, event)
    BY <1>3 DEF Events, Handle
  <2>2. h.vault = [e.vault EXCEPT !.totalDepositRequested = @ + event.assets]
        /\ h.day = [e.day EXCEPT !.depositRequests = @ + 1] /\ h.rows = e.rows
        /\ h = [vault |-> h.vault, day |-> h.day, rows |-> h.rows]
    BY <1>1, <2>1 DEF handleDepositRequest
  <2>3. h.vault \in VaultRows /\ h.day \in DayRows
    <3>1. h.vault \in VaultRows
      BY <1>1, <2>1, <2>2 DEF VaultRows
    <3>2. h.day \in DayRows
      BY <1>1, <2>1, <2>2 DEF DayRows
    <3> QED BY <3>1, <3>2
  <2>4. h \in Entities
    BY <1>1, <2>2, <2>3 DEF Entities
  <2>10. /\ h.vault.totalShares = e.vault.totalShares
        /\ h.vault.totalDepositRequested = e.vault.totalDepositRequested + event.assets
        /\ h.vault.totalDepositFulfilled = e.vault.totalDepositFulfilled
        /\ h.rows.refunded = e.rows.refunded
        /\ h.rows.strikes = e.rows.strikes
        /\ h.day.navMin = e.day.navMin
    BY <1>1, <2>2 DEF VaultRows, DayRows
  <2> QED BY <1>2, <1>3, <2>1, <2>4, <2>10 DEF EventEffect
<1>4. CASE event.type = "RedeemRequest"
  <2>1. event.shares \in Nat /\ h = handleRedeemRequest(e, event)
    BY <1>4 DEF Events, Handle
  <2>2. h.vault = [e.vault EXCEPT !.totalRedeemRequested = @ + event.shares]
        /\ h.day = [e.day EXCEPT !.redeemRequests = @ + 1] /\ h.rows = e.rows
        /\ h = [vault |-> h.vault, day |-> h.day, rows |-> h.rows]
    BY <1>1, <2>1 DEF handleRedeemRequest
  <2>3. h.vault \in VaultRows /\ h.day \in DayRows
    <3>1. h.vault \in VaultRows
      BY <1>1, <2>1, <2>2 DEF VaultRows
    <3>2. h.day \in DayRows
      BY <1>1, <2>1, <2>2 DEF DayRows
    <3> QED BY <3>1, <3>2
  <2>4. h \in Entities
    BY <1>1, <2>2, <2>3 DEF Entities
  <2>10. /\ h.vault.totalShares = e.vault.totalShares
        /\ h.vault.totalDepositRequested = e.vault.totalDepositRequested
        /\ h.vault.totalDepositFulfilled = e.vault.totalDepositFulfilled
        /\ h.rows.refunded = e.rows.refunded
        /\ h.rows.strikes = e.rows.strikes
        /\ h.day.navMin = e.day.navMin
    BY <1>1, <2>2 DEF VaultRows, DayRows
  <2> QED BY <1>2, <1>4, <2>1, <2>4, <2>10 DEF EventEffect
<1>5. CASE event.type = "DepositRequestFulfilled"
  <2>1. event.assets \in Nat /\ event.shares \in Nat /\ h = handleDepositRequestFulfilled(e, event)
    BY <1>5 DEF Events, Handle
  <2>2. h.vault = [e.vault EXCEPT !.totalDepositFulfilled = @ + event.assets,
                                  !.totalShares = @ + event.shares]
        /\ h.day = [e.day EXCEPT !.depositsFulfilled = @ + event.assets] /\ h.rows = e.rows
        /\ h = [vault |-> h.vault, day |-> h.day, rows |-> h.rows]
    BY <1>1, <2>1 DEF handleDepositRequestFulfilled
  <2>3. h.vault \in VaultRows /\ h.day \in DayRows
    <3>1. h.vault \in VaultRows
      <4> DEFINE fulfilled == e.vault.totalDepositFulfilled + event.assets
                 shares == e.vault.totalShares + event.shares
      <4>1. fulfilled \in Nat /\ shares \in Nat
        BY <1>2, <2>1
      <4>2. h.vault = [e.vault EXCEPT !.totalDepositFulfilled = fulfilled, !.totalShares = shares]
        BY <2>2
      <4> HIDE DEF fulfilled, shares
      <4> QED BY <1>1, <4>1, <4>2 DEF VaultRows
    <3>2. h.day \in DayRows
      BY <1>1, <2>1, <2>2 DEF DayRows
    <3> QED BY <3>1, <3>2
  <2>4. h \in Entities
    BY <1>1, <2>2, <2>3 DEF Entities
  <2>10. /\ h.vault.totalShares = e.vault.totalShares + event.shares
        /\ h.vault.totalDepositRequested = e.vault.totalDepositRequested
        /\ h.vault.totalDepositFulfilled = e.vault.totalDepositFulfilled + event.assets
        /\ h.rows.refunded = e.rows.refunded
        /\ h.rows.strikes = e.rows.strikes
        /\ h.day.navMin = e.day.navMin
    BY <1>1, <2>2 DEF VaultRows, DayRows
  <2> QED BY <1>2, <1>5, <2>1, <2>4, <2>10 DEF EventEffect
<1>6. CASE event.type = "DepositRequestRefunded"
  <2>1. event.assets \in Nat /\ h = handleDepositRequestRefunded(e, event)
    BY <1>6 DEF Events, Handle
  <2>2. h.vault = e.vault /\ h.day = e.day
        /\ h.rows = [e.rows EXCEPT !.refunded = @ + event.assets]
        /\ h = [vault |-> h.vault, day |-> h.day, rows |-> h.rows]
    BY <1>1, <2>1 DEF handleDepositRequestRefunded
  <2>3. h.rows \in OtherRows
    BY <1>1, <2>1, <2>2 DEF OtherRows
  <2>4. h \in Entities
    BY <1>1, <2>2, <2>3 DEF Entities
  <2> QED BY <1>1, <1>2, <1>6, <2>1, <2>2, <2>4 DEF OtherRows, EventEffect
<1>7. CASE event.type = "NavUpdated"
  <2> DEFINE strike == [nav |-> event.nav, day |-> event.day]
  <2>1. /\ event.nav \in Nat /\ event.day \in Nat /\ event.inputsBlock \in Nat
        /\ event.updateCount \in Nat /\ event.breachFlags \in BOOLEAN
        /\ h = handleNavUpdated(e, event)
    BY <1>7 DEF Events, Handle
  <2>2. /\ h.vault = [e.vault EXCEPT !.lastNav = event.nav, !.lastInputsBlock = event.inputsBlock,
                                     !.updateCount = event.updateCount,
                                     !.breachFlags = event.breachFlags]
        /\ h.day = [e.day EXCEPT !.strikeCount = @ + 1, !.navEnd = event.nav,
                                 !.navMin = Lowest(@, event.nav),
                                 !.navMax = IF event.nav > @ THEN event.nav ELSE @]
        /\ h.rows = [e.rows EXCEPT !.strikes = Append(@, strike)]
        /\ h = [vault |-> h.vault, day |-> h.day, rows |-> h.rows]
    BY <2>1 DEF handleNavUpdated
  <2>3. strike \in StrikeRow
    BY <2>1 DEF StrikeRow
  <2>4. Append(e.rows.strikes, strike) \in Seq(StrikeRow)
    BY <1>2, <2>3, AppendProperties
  <2>5. Lowest(e.day.navMin, event.nav) \in Nat
    BY <1>2, <2>1 DEF Lowest
  <2> HIDE DEF strike
  <2>6. h.vault \in VaultRows
    BY <1>1, <2>1, <2>2 DEF VaultRows
  <2>7. h.day \in DayRows
    <3>1. e.day.navMax \in Nat
      BY <1>1 DEF DayRows
    <3> DEFINE high == IF event.nav > e.day.navMax THEN event.nav ELSE e.day.navMax
               low == Lowest(e.day.navMin, event.nav)
               count == e.day.strikeCount + 1
    <3>2. high \in Nat /\ low \in Nat /\ count \in Nat
      BY <1>1, <2>1, <2>5, <3>1 DEF DayRows
    <3>3. h.day = [e.day EXCEPT !.strikeCount = count, !.navEnd = event.nav, !.navMin = low,
                                !.navMax = high]
      BY <2>2
    <3> HIDE DEF high, low, count
    <3> QED BY <1>1, <2>1, <3>2, <3>3 DEF DayRows
  <2>8. h.rows \in OtherRows
    BY <1>1, <2>2, <2>4 DEF OtherRows
  <2>9. h \in Entities
    BY <2>2, <2>6, <2>7, <2>8 DEF Entities
  <2>10. /\ h.vault.totalShares = e.vault.totalShares
        /\ h.vault.totalDepositRequested = e.vault.totalDepositRequested
        /\ h.vault.totalDepositFulfilled = e.vault.totalDepositFulfilled
        /\ h.rows.refunded = e.rows.refunded
        /\ h.rows.strikes = Append(e.rows.strikes, strike)
        /\ h.day.navMin = Lowest(e.day.navMin, event.nav)
    BY <1>1, <2>2 DEF VaultRows, DayRows, OtherRows
  <2> QED BY <1>2, <1>7, <2>9, <2>10 DEF EventEffect, strike
<1>8. CASE event.type = "RedeemRequestFulfilled"
  <2>1. event.assets \in Int /\ event.shares \in Nat /\ h = handleRedeemRequestFulfilled(e, event)
    BY <1>8 DEF Events, Handle
  <2>2. h.vault = [e.vault EXCEPT !.totalRedeemFulfilled = @ + event.assets,
                                  !.totalShares = Burnt(@, event.shares)]
        /\ h.day = [e.day EXCEPT !.redeemsFulfilled = @ + event.assets] /\ h.rows = e.rows
        /\ h = [vault |-> h.vault, day |-> h.day, rows |-> h.rows]
    BY <1>1, <2>1 DEF handleRedeemRequestFulfilled
  <2>3. h.vault \in VaultRows /\ h.day \in DayRows
    <3>1. h.vault \in VaultRows
      <4> DEFINE fulfilled == e.vault.totalRedeemFulfilled + event.assets
                 shares == Burnt(e.vault.totalShares, event.shares)
      <4>1. fulfilled \in Int /\ shares \in Nat
        BY <1>1, <1>2, <2>1 DEF VaultRows
      <4>2. h.vault = [e.vault EXCEPT !.totalRedeemFulfilled = fulfilled, !.totalShares = shares]
        BY <2>2
      <4> HIDE DEF fulfilled, shares
      <4> QED BY <1>1, <4>1, <4>2 DEF VaultRows
    <3>2. h.day \in DayRows
      BY <1>1, <2>1, <2>2 DEF DayRows
    <3> QED BY <3>1, <3>2
  <2>4. h \in Entities
    BY <1>1, <2>2, <2>3 DEF Entities
  <2>10. /\ h.vault.totalShares = Burnt(e.vault.totalShares, event.shares)
        /\ h.vault.totalDepositRequested = e.vault.totalDepositRequested
        /\ h.vault.totalDepositFulfilled = e.vault.totalDepositFulfilled
        /\ h.rows.refunded = e.rows.refunded
        /\ h.rows.strikes = e.rows.strikes
        /\ h.day.navMin = e.day.navMin
    BY <1>1, <2>2 DEF VaultRows, DayRows
  <2> QED BY <1>2, <1>8, <2>1, <2>4, <2>10 DEF EventEffect
<1>9. CASE event.type = "PlanExecuted"
  <2>1. h = handlePlanExecuted(e)
    BY <1>9 DEF Handle
  <2>2. h.vault = e.vault /\ h.day = [e.day EXCEPT !.planExecuted = @ + 1] /\ h.rows = e.rows
        /\ h = [vault |-> h.vault, day |-> h.day, rows |-> h.rows]
    BY <1>1, <2>1 DEF handlePlanExecuted
  <2>3. h.day \in DayRows
    BY <1>1, <2>2 DEF DayRows
  <2>4. h \in Entities
    BY <1>1, <2>2, <2>3 DEF Entities
  <2>10. /\ h.vault.totalShares = e.vault.totalShares
        /\ h.vault.totalDepositRequested = e.vault.totalDepositRequested
        /\ h.vault.totalDepositFulfilled = e.vault.totalDepositFulfilled
        /\ h.rows.refunded = e.rows.refunded
        /\ h.rows.strikes = e.rows.strikes
        /\ h.day.navMin = e.day.navMin
    BY <1>1, <2>2 DEF DayRows
  <2> QED BY <1>2, <1>9, <2>4, <2>10 DEF EventEffect
<1>10. CASE event.type = "PlanRejected"
  <2>1. h = handlePlanRejected(e)
    BY <1>10 DEF Handle
  <2>2. h.vault = e.vault /\ h.day = [e.day EXCEPT !.planRejected = @ + 1] /\ h.rows = e.rows
        /\ h = [vault |-> h.vault, day |-> h.day, rows |-> h.rows]
    BY <1>1, <2>1 DEF handlePlanRejected
  <2>3. h.day \in DayRows
    BY <1>1, <2>2 DEF DayRows
  <2>4. h \in Entities
    BY <1>1, <2>2, <2>3 DEF Entities
  <2>10. /\ h.vault.totalShares = e.vault.totalShares
        /\ h.vault.totalDepositRequested = e.vault.totalDepositRequested
        /\ h.vault.totalDepositFulfilled = e.vault.totalDepositFulfilled
        /\ h.rows.refunded = e.rows.refunded
        /\ h.rows.strikes = e.rows.strikes
        /\ h.day.navMin = e.day.navMin
    BY <1>1, <2>2 DEF DayRows
  <2> QED BY <1>2, <1>10, <2>4, <2>10 DEF EventEffect
<1>11. event.type \in {"DepositRequest", "RedeemRequest", "DepositRequestFulfilled",
                       "DepositRequestRefunded", "NavUpdated", "RedeemRequestFulfilled",
                       "PlanExecuted", "PlanRejected"}
  BY DEF Events
<1> HIDE DEF MintedBy, BurntBy, RequestedBy, FulfilledBy, RefundedBy, Burnt
<1> QED BY <1>3, <1>4, <1>5, <1>6, <1>7, <1>8, <1>9, <1>10, <1>11

(***************************************************************************)
(* The entities e, with the other days' metrics, account for a vault with  *)
(* this supply and these deposits pending.                                 *)
(***************************************************************************)
AccountsFor(e, metrics, today, supply, pending) ==
    /\ e \in Entities
    /\ e.vault.totalShares = supply
    /\ e.vault.totalDepositRequested = e.vault.totalDepositFulfilled + e.rows.refunded + pending
    /\ \A d \in Days :
          (IF d = today THEN e.day ELSE metrics[d]).navMin = LowestStruck(e.rows.strikes, d)

\* An event that says what the vault did keeps them so.
LEMMA EventAccounts ==
    ASSUME NEW e, NEW metrics, NEW today, NEW supply \in Nat, NEW pending \in Nat,
           AccountsFor(e, metrics, today, supply, pending),
           NEW event \in Events, event.type = "NavUpdated" => event.day = today,
           NEW supplyNow \in Nat, supplyNow = supply + MintedBy(event) - BurntBy(event),
           NEW pendingNow \in Nat,
           pendingNow = pending + RequestedBy(event) - FulfilledBy(event) - RefundedBy(event)
    PROVE  AccountsFor(Handle(e, event), metrics, today, supplyNow, pendingNow)
<1> DEFINE h == Handle(e, event)
<1>1. e \in Entities
  BY DEF AccountsFor
<1>2. /\ e.vault.totalShares \in Nat /\ e.vault.totalDepositRequested \in Nat
      /\ e.vault.totalDepositFulfilled \in Nat /\ e.rows.refunded \in Nat
      /\ e.rows.strikes \in Seq(StrikeRow)
  BY <1>1 DEF Entities, VaultRows, DayRows, OtherRows
<1>3. /\ MintedBy(event) \in Nat /\ BurntBy(event) \in Nat /\ RequestedBy(event) \in Nat
      /\ FulfilledBy(event) \in Nat /\ RefundedBy(event) \in Nat
  <2> USE DEF Events
  <2>1. MintedBy(event) \in Nat
    BY DEF MintedBy
  <2>2. BurntBy(event) \in Nat
    BY DEF BurntBy
  <2>3. RequestedBy(event) \in Nat
    BY DEF RequestedBy
  <2>4. FulfilledBy(event) \in Nat
    BY DEF FulfilledBy
  <2>5. RefundedBy(event) \in Nat
    BY DEF RefundedBy
  <2> QED BY <2>1, <2>2, <2>3, <2>4, <2>5
<1>4. EventEffect(e, event, h)
  BY <1>1, EventEffects
<1> HIDE DEF h
<1>5. h.vault.totalShares = supplyNow
  <2>1. e.vault.totalShares = supply /\ supply + MintedBy(event) >= BurntBy(event)
    BY <1>3 DEF AccountsFor
  <2>2. h.vault.totalShares = Burnt(supply + MintedBy(event), BurntBy(event))
    BY <1>4, <2>1 DEF EventEffect
  <2> QED BY <1>3, <2>1, <2>2 DEF Burnt
<1>6. h.vault.totalDepositRequested = h.vault.totalDepositFulfilled + h.rows.refunded + pendingNow
  <2>1. /\ h.vault.totalDepositRequested = e.vault.totalDepositRequested + RequestedBy(event)
        /\ h.vault.totalDepositFulfilled = e.vault.totalDepositFulfilled + FulfilledBy(event)
        /\ h.rows.refunded = e.rows.refunded + RefundedBy(event)
    BY <1>4 DEF EventEffect
  <2>2. e.vault.totalDepositRequested = e.vault.totalDepositFulfilled + e.rows.refunded + pending
    BY DEF AccountsFor
  <2> DEFINE q == e.vault.totalDepositRequested
             f == e.vault.totalDepositFulfilled
             r == e.rows.refunded
             dq == RequestedBy(event)
             df == FulfilledBy(event)
             dr == RefundedBy(event)
  <2>3. /\ q \in Nat /\ f \in Nat /\ r \in Nat /\ dq \in Nat /\ df \in Nat /\ dr \in Nat
        /\ q = f + r + pending /\ pendingNow = pending + dq - df - dr
    BY <1>2, <1>3, <2>2
  <2>4. /\ h.vault.totalDepositRequested = q + dq
        /\ h.vault.totalDepositFulfilled = f + df /\ h.rows.refunded = r + dr
    BY <2>1
  <2> HIDE DEF q, f, r, dq, df, dr
  <2>5. q + dq = (f + df) + (r + dr) + pendingNow
    BY <2>3
  <2> QED BY <2>4, <2>5
<1>7. ASSUME NEW d \in Days
      PROVE  (IF d = today THEN h.day ELSE metrics[d]).navMin = LowestStruck(h.rows.strikes, d)
  <2>1. (IF d = today THEN e.day ELSE metrics[d]).navMin = LowestStruck(e.rows.strikes, d)
    BY DEF AccountsFor
  <2>2. CASE event.type # "NavUpdated"
    BY <1>4, <2>1, <2>2 DEF EventEffect
  <2>3. CASE event.type = "NavUpdated"
    <3> DEFINE strike == [nav |-> event.nav, day |-> event.day]
    <3>1. strike \in StrikeRow /\ strike.day = today /\ strike.nav = event.nav
      BY <2>3 DEF Events, StrikeRow
    <3>2. h.rows.strikes = Append(e.rows.strikes, strike) /\ h.day.navMin = Lowest(e.day.navMin, strike.nav)
      BY <1>4, <2>3 DEF EventEffect
    <3> HIDE DEF strike
    <3>3. LowestStruck(h.rows.strikes, d) =
             IF strike.day = d THEN Lowest(LowestStruck(e.rows.strikes, d), strike.nav)
             ELSE LowestStruck(e.rows.strikes, d)
      BY <1>2, <3>1, <3>2, StrikeLowers
    <3> QED BY <2>1, <3>1, <3>2, <3>3
  <2> QED BY <2>2, <2>3
<1> QED BY <1>4, <1>5, <1>6, <1>7 DEF AccountsFor, EventEffect, h

-----------------------------------------------------------------------------
(* The inductive invariant                                                 *)

\* What a handler can reach at present.
Entity == [vault |-> index, day |-> daily[Today], rows |-> rows]

\* Were this log delivered now, the entities would account for the vault.
Correct(log, supply) ==
    AccountsFor(Folded(Entity, log), daily, Today, supply, totalPendingDepositAssets)

IndexTypes ==
    /\ logs \in Seq(Events) /\ planLogs \in Nat
    /\ index \in VaultRows /\ daily \in [Days -> DayRows] /\ rows \in OtherRows
    /\ block \in 1 .. MaxBlock

(***************************************************************************)
(* The log of the transaction in flight, delivered now, accounts for the   *)
(* vault as it is; inside a plan, the part of it that a revert would leave *)
(* accounts for the vault that the revert would restore.                   *)
(***************************************************************************)
IndexInv ==
    /\ IndexTypes
    /\ DailyLow
    /\ Correct(logs, totalSupply)
    /\ InPlan => /\ planLogs <= Len(logs)
                 /\ Correct(SubSeq(logs, 1, planLogs), saved.totalSupply)
    /\ Idle => logs = <<>>
    /\ phase = "deposits" => StruckNav \in Nat

LEMMA TodayIsDay ==
    ASSUME block \in 1 .. MaxBlock
    PROVE  Today \in Days
  BY DEF Today, Days

LEMMA EntityType ==
    ASSUME IndexTypes
    PROVE  /\ Entity \in Entities
           /\ Entity.vault = index /\ Entity.day = daily[Today] /\ Entity.rows = rows
<1>1. daily[Today] \in DayRows
  BY TodayIsDay DEF IndexTypes
<1> QED BY <1>1 DEF IndexTypes, Entity, Entities

\* With no event in flight, the entities account for the vault as the properties say.
LEMMA NothingInFlight ==
    ASSUME NEW v \in VaultRows, NEW m \in [Days -> DayRows], NEW r \in OtherRows,
           NEW today \in Days, NEW supply, NEW pending
    PROVE  AccountsFor(Folded([vault |-> v, day |-> m[today], rows |-> r], <<>>),
                       m, today, supply, pending)
             <=> /\ v.totalShares = supply
                 /\ v.totalDepositRequested = v.totalDepositFulfilled + r.refunded + pending
                 /\ \A d \in Days : m[d].navMin = LowestStruck(r.strikes, d)
<1> DEFINE e == [vault |-> v, day |-> m[today], rows |-> r]
<1>1. Folded(e, <<>>) = e
  BY FoldOfNone
<1>2. m[today] \in DayRows
  OBVIOUS
<1>3. e \in Entities /\ e.vault = v /\ e.day = m[today] /\ e.rows = r
  BY <1>2 DEF Entities
<1>4. \A d \in Days : (IF d = today THEN e.day ELSE m[d]) = m[d]
  BY <1>3
<1> HIDE DEF e
<1>5. AccountsFor(e, m, today, supply, pending)
        <=> /\ v.totalShares = supply
            /\ v.totalDepositRequested = v.totalDepositFulfilled + r.refunded + pending
            /\ \A d \in Days : m[d].navMin = LowestStruck(r.strikes, d)
  BY <1>3, <1>4 DEF AccountsFor
<1> QED BY <1>1, <1>5 DEF e

\* So it is in a state with no transaction in flight.
LEMMA CorrectWhenIdle ==
    ASSUME IndexTypes
    PROVE  Correct(<<>>, totalSupply) <=>
             /\ index.totalShares = totalSupply
             /\ index.totalDepositRequested
                  = index.totalDepositFulfilled + rows.refunded + totalPendingDepositAssets
             /\ DailyLow
<1>1. Today \in Days
  BY TodayIsDay DEF IndexTypes
<1> QED BY <1>1, NothingInFlight DEF Correct, Entity, IndexTypes, DailyLow

\* An event on top of a correct log.
LEMMA CorrectWithOneMore ==
    ASSUME IndexTypes, NEW log \in Seq(Events), NEW supply \in Nat, Correct(log, supply),
           totalPendingDepositAssets \in Nat,
           NEW event \in Events, event.type = "NavUpdated" => event.day = Today,
           NEW supplyNow \in Nat, supplyNow = supply + MintedBy(event) - BurntBy(event),
           NEW pendingNow \in Nat,
           pendingNow = totalPendingDepositAssets
                          + RequestedBy(event) - FulfilledBy(event) - RefundedBy(event)
    PROVE  AccountsFor(Folded(Entity, Append(log, event)), daily, Today, supplyNow, pendingNow)
<1>1. Folded(Entity, Append(log, event)) = Handle(Folded(Entity, log), event)
  BY FoldOfOneMore
<1>2. AccountsFor(Folded(Entity, log), daily, Today, supply, totalPendingDepositAssets)
  BY DEF Correct
<1> QED BY <1>1, <1>2, EventAccounts

\* A transaction that ends with a correct log leaves correct entities.
LEMMA MinedStep ==
    ASSUME IndexInv, NEW log, Mined(log), block' = block, phase' = "idle",
           AccountsFor(Folded(Entity, log), daily, Today, totalSupply', totalPendingDepositAssets')
    PROVE  IndexInv'
<1> DEFINE after == Folded(Entity, log)
<1>1. IndexTypes
  BY DEF IndexInv
<1>2. /\ index' = after.vault /\ daily' = [daily EXCEPT ![Today] = after.day]
      /\ rows' = after.rows /\ logs' = <<>> /\ planLogs' = 0
  BY DEF Mined, Folded, Entity
<1>3. after \in Entities
  BY DEF AccountsFor
<1>4. after.vault \in VaultRows /\ after.day \in DayRows /\ after.rows \in OtherRows
  BY <1>3 DEF Entities
<1> HIDE DEF after
<1>5. Today' = Today /\ Today \in Days
  BY <1>1, TodayIsDay DEF Today, IndexTypes
<1>6. IndexTypes'
  <2>1. <<>> \in Seq(Events)
    OBVIOUS
  <2>2. daily' \in [Days -> DayRows]
    BY <1>1, <1>2, <1>4 DEF IndexTypes
  <2> QED BY <1>1, <1>2, <1>4, <2>1, <2>2 DEF IndexTypes
<1>7. DailyLow'
  <2>1. \A d \in Days :
           (IF d = Today THEN after.day ELSE daily[d]).navMin = LowestStruck(after.rows.strikes, d)
    BY DEF AccountsFor, after
  <2>2. \A d \in Days : daily'[d] = IF d = Today THEN after.day ELSE daily[d]
    BY <1>1, <1>2 DEF IndexTypes
  <2> QED BY <1>2, <2>1, <2>2 DEF DailyLow
<1>8. Correct(<<>>, totalSupply)'
  <2>1. /\ index'.totalShares = totalSupply'
        /\ index'.totalDepositRequested
             = index'.totalDepositFulfilled + rows'.refunded + totalPendingDepositAssets'
    BY <1>2 DEF AccountsFor, after
  <2>2. /\ index' \in VaultRows /\ daily' \in [Days -> DayRows] /\ rows' \in OtherRows
        /\ Today' \in Days
    BY <1>5, <1>6 DEF IndexTypes
  <2>3. \A d \in Days : daily'[d].navMin = LowestStruck(rows'.strikes, d)
    BY <1>7 DEF DailyLow
  <2>4. AccountsFor(Folded([vault |-> index', day |-> daily'[Today'], rows |-> rows'], <<>>),
                    daily', Today', totalSupply', totalPendingDepositAssets')
    BY <2>1, <2>2, <2>3, NothingInFlight
  <2> QED BY <2>4 DEF Correct, Entity
<1>9. ~InPlan' /\ phase' # "deposits"
  BY DEF InPlan
<1> QED BY <1>2, <1>6, <1>7, <1>8, <1>9 DEF IndexInv

-----------------------------------------------------------------------------
(* What each step leaves                                                   *)

\* The vault's numbers that the entities account for.
Numbers ==
    /\ totalSupply \in Nat /\ totalPendingDepositAssets \in Nat /\ nav \in Nat
    /\ lastInputsBlock \in Nat /\ updateCount \in Nat /\ breached \in BOOLEAN
    /\ pendingDepositAssets \in [Accounts -> Nat] /\ pendingRedeemShares \in [Accounts -> Nat]
    /\ claimableRedeemAssets \in [Accounts -> Nat]
    /\ depositQueue \in Seq(Accounts) /\ redeemQueue \in Seq(Accounts)
    /\ phase \in {"idle", "deposits", "plan", "redeems"} /\ saved.totalSupply \in Nat

LEMMA VaultNumbers ==
    /\ IInv => Numbers
    /\ IInv' => Numbers'
<1> USE DEF Numbers, IInv, TypeOK, AttestTypes, DepositTypes, RedeemTypes, TokenTypes, StrikeTypes,
            Ledger
<1>1. saved \in Snapshot => saved.totalSupply \in Nat
  BY DEF Snapshot
<1>2. saved' \in Snapshot => saved'.totalSupply \in Nat
  BY DEF Snapshot
<1>3. ASSUME IInv PROVE Numbers
  BY <1>1, <1>3
<1>4. ASSUME IInv' PROVE Numbers'
  BY <1>2, <1>4 DEF Snapshot
<1> QED BY <1>3, <1>4

\* Nothing that the entities or the vault's totals depend on changes.
LEMMA CorrectFrame ==
    ASSUME UNCHANGED <<index, daily, rows, block, totalPendingDepositAssets>>, NEW log, NEW supply,
           Correct(log, supply)
    PROVE  AccountsFor(Folded(Entity', log), daily', Today', supply, totalPendingDepositAssets')
<1>1. Entity' = Entity /\ Today' = Today
  BY DEF Entity, Today
<1> QED BY <1>1 DEF Correct

\* Whatever runs outside a strike and requests nothing.
LEMMA OutsideStrike ==
    ASSUME Claim \/ Strategist \/ Delegation \/ Environment
    PROVE  /\ Idle /\ UNCHANGED <<phase, totalSupply, totalPendingDepositAssets>>
           /\ block' = block \/ (block < MaxBlock /\ block' = block + 1)
<1> USE DEF Idle, attestVars, depositVars, requestDepositVars, strikeVars
<1>1. CASE Claim
  BY <1>1 DEF Claim, deposit, mint, redeem, withdraw, claimDepositRefund, ClaimDeposit, ClaimRedeem
<1>2. CASE Strategist
  BY <1>2 DEF Strategist, execute, emergencyExecute, StrategistCall
<1>3. CASE Delegation
  BY <1>3 DEF Delegation, setOperator, approve
<1>4. CASE Environment
  BY <1>4 DEF Environment, NextBlock, transfer, Donate, TokenBurn
<1> QED BY <1>1, <1>2, <1>3, <1>4

LEMMA OutsideStrikeIndexed ==
    ASSUME IndexInv, Claim \/ Strategist \/ Delegation \/ Environment, Quiet
    PROVE  IndexInv'
<1>1. /\ Idle /\ UNCHANGED <<phase, totalSupply, totalPendingDepositAssets>>
      /\ block' = block \/ (block < MaxBlock /\ block' = block + 1)
  BY OutsideStrike
<1>2. IndexTypes /\ DailyLow /\ logs = <<>> /\ UNCHANGED <<logs, planLogs, index, daily, rows>>
  BY <1>1 DEF IndexInv, Quiet, indexVars
<1>3. block' \in 1 .. MaxBlock
  BY <1>1, <1>2, VaultAssumption DEF IndexTypes
<1>4. IndexTypes' /\ DailyLow'
  BY <1>2, <1>3 DEF IndexTypes, DailyLow
<1>5. Today' \in Days
  BY <1>3 DEF Today, Days
<1>6. /\ index.totalShares = totalSupply
      /\ index.totalDepositRequested
           = index.totalDepositFulfilled + rows.refunded + totalPendingDepositAssets
  BY <1>2, CorrectWhenIdle DEF IndexInv
<1>7. AccountsFor(Folded([vault |-> index, day |-> daily[Today'], rows |-> rows], <<>>),
                  daily, Today', totalSupply, totalPendingDepositAssets)
  <2>1. /\ index \in VaultRows /\ daily \in [Days -> DayRows] /\ rows \in OtherRows
        /\ \A d \in Days : daily[d].navMin = LowestStruck(rows.strikes, d)
    BY <1>2 DEF IndexTypes, DailyLow
  <2> QED BY <1>5, <1>6, <2>1, NothingInFlight
<1>8. Correct(logs, totalSupply)'
  BY <1>1, <1>2, <1>7 DEF Correct, Entity
<1>9. ~InPlan' /\ phase' # "deposits"
  BY <1>1 DEF InPlan, Idle
<1> QED BY <1>2, <1>4, <1>8, <1>9 DEF IndexInv

\* A request is indexed with the transaction it is.
LEMMA RequestIndexed ==
    ASSUME IInv, IInv', IndexInv, IndexedRequest
    PROVE  IndexInv'
<1>1. Numbers /\ Numbers'
  BY VaultNumbers
<1>2. ASSUME NEW event \in Events, Mined(<<event>>), Idle, Idle', block' = block,
             event.type # "NavUpdated", totalSupply' = totalSupply + MintedBy(event) - BurntBy(event),
             totalPendingDepositAssets' = totalPendingDepositAssets
                            + RequestedBy(event) - FulfilledBy(event) - RefundedBy(event)
      PROVE  IndexInv'
  <2>1. <<event>> = Append(<<>>, event) /\ <<>> \in Seq(Events)
    OBVIOUS
  <2>2. IndexTypes /\ Correct(<<>>, totalSupply)
    BY <1>2 DEF IndexInv
  <2>3. /\ totalSupply \in Nat /\ totalPendingDepositAssets \in Nat
        /\ totalSupply' \in Nat /\ totalPendingDepositAssets' \in Nat
    BY <1>1 DEF Numbers
  <2>4. AccountsFor(Folded(Entity, Append(<<>>, event)), daily, Today,
                    totalSupply', totalPendingDepositAssets')
    BY <1>2, <2>1, <2>2, <2>3, CorrectWithOneMore
  <2>5. AccountsFor(Folded(Entity, <<event>>), daily, Today, totalSupply', totalPendingDepositAssets')
    BY <2>1, <2>4
  <2> QED BY <1>2, <2>5, MinedStep DEF Idle
<1>3. ASSUME NEW sender \in Accounts, NEW controller \in Accounts, NEW owner \in Accounts,
             NEW assets \in Amounts, requestDeposit(sender, assets, controller, owner),
             Mined(<<[type |-> "DepositRequest", assets |-> assets]>>)
      PROVE  IndexInv'
  <2> DEFINE event == [type |-> "DepositRequest", assets |-> assets]
  <2>1. assets \in Nat /\ event \in Events
    BY VaultAssumption DEF Events
  <2>2. /\ Idle /\ Idle' /\ block' = block /\ totalSupply' = totalSupply
        /\ totalPendingDepositAssets' = totalPendingDepositAssets + assets
    BY <1>3 DEF requestDeposit, Idle, strikeVars, attestVars
  <2>3. /\ MintedBy(event) = 0 /\ BurntBy(event) = 0 /\ RequestedBy(event) = assets
        /\ FulfilledBy(event) = 0 /\ RefundedBy(event) = 0 /\ event.type # "NavUpdated"
    BY DEF MintedBy, BurntBy, RequestedBy, FulfilledBy, RefundedBy
  <2>4. Mined(<<event>>)
    BY <1>3
  <2> HIDE DEF event
  <2>5. /\ totalSupply' = totalSupply + MintedBy(event) - BurntBy(event)
        /\ totalPendingDepositAssets' = totalPendingDepositAssets
                            + RequestedBy(event) - FulfilledBy(event) - RefundedBy(event)
    BY <1>1, <2>1, <2>2, <2>3 DEF Numbers
  <2> QED BY <1>2, <2>1, <2>2, <2>3, <2>4, <2>5
<1>4. ASSUME NEW sender \in Accounts, NEW controller \in Accounts, NEW owner \in Accounts,
             NEW shares \in 1 .. shareBalance[owner],
             requestRedeem(sender, shares, controller, owner),
             Mined(<<[type |-> "RedeemRequest", shares |-> shares]>>)
      PROVE  IndexInv'
  <2> DEFINE event == [type |-> "RedeemRequest", shares |-> shares]
  <2>1. event \in Events
    BY DEF Events
  <2>2. /\ Idle /\ Idle' /\ block' = block /\ totalSupply' = totalSupply
        /\ totalPendingDepositAssets' = totalPendingDepositAssets
    BY <1>4 DEF requestRedeem, Idle, strikeVars, attestVars, depositVars, requestDepositVars
  <2>3. /\ MintedBy(event) = 0 /\ BurntBy(event) = 0 /\ RequestedBy(event) = 0
        /\ FulfilledBy(event) = 0 /\ RefundedBy(event) = 0 /\ event.type # "NavUpdated"
    BY DEF MintedBy, BurntBy, RequestedBy, FulfilledBy, RefundedBy
  <2>4. Mined(<<event>>)
    BY <1>4
  <2> HIDE DEF event
  <2>5. /\ totalSupply' = totalSupply + MintedBy(event) - BurntBy(event)
        /\ totalPendingDepositAssets' = totalPendingDepositAssets
                            + RequestedBy(event) - FulfilledBy(event) - RefundedBy(event)
    BY <1>1, <2>2, <2>3 DEF Numbers
  <2> QED BY <1>2, <2>1, <2>2, <2>3, <2>4, <2>5
<1> QED BY <1>3, <1>4 DEF IndexedRequest

DepositsIn(log) == SumFunction([i \in DOMAIN log |-> FulfilledBy(log[i])])

LEMMA StruckNavIs == StruckNav = nav - DepositsIn(logs)
  BY DEF StruckNav, DepositsIn, FulfilledBy

LEMMA DepositsOfNone == DepositsIn(<<>>) = 0
<1>1. [i \in DOMAIN <<>> |-> FulfilledBy(<<>>[i])] = [x \in {} |-> 0]
  OBVIOUS
<1>2. IsSum({}, [x \in {} |-> 0], 0) /\ IsFiniteSet({}) /\ [x \in {} |-> 0] \in [{} -> Nat]
  BY SumOfZero, FS_EmptySet
<1>3. SumFunction([x \in {} |-> 0]) = 0
  BY <1>2, SumFunctionIsSum
<1> QED BY <1>1, <1>3 DEF DepositsIn

LEMMA FulfilledByType ==
    ASSUME NEW event \in Events
    PROVE  FulfilledBy(event) \in Nat
  BY DEF Events, FulfilledBy

LEMMA DepositsOfOneMore ==
    ASSUME NEW log \in Seq(Events), NEW event \in Events
    PROVE  DepositsIn(log) \in Nat /\ DepositsIn(Append(log, event)) = DepositsIn(log) + FulfilledBy(event)
<1> DEFINE n == Len(log)
           longer == Append(log, event)
           f == [i \in DOMAIN longer |-> FulfilledBy(longer[i])]
           g == [i \in DOMAIN log |-> FulfilledBy(log[i])]
<1>1. n \in Nat /\ DOMAIN log = 1 .. n /\ \A i \in 1 .. n : log[i] \in Events
  OBVIOUS
<1>2. /\ Len(longer) = n + 1 /\ longer \in Seq(Events) /\ longer[n + 1] = event
      /\ \A i \in 1 .. n : longer[i] = log[i]
  BY AppendProperties
<1>3. DOMAIN longer = 1 .. (n + 1)
  <2> HIDE DEF longer, n
  <2> QED BY <1>2
<1> HIDE DEF n, longer
<1>4. 1 .. (n + 1) = (1 .. n) \cup {n + 1} /\ n + 1 \notin 1 .. n
  <2>1. ASSUME NEW i PROVE i \in 1 .. (n + 1) <=> i \in (1 .. n) \cup {n + 1}
    BY <1>1
  <2>2. n + 1 \notin 1 .. n
    BY <1>1
  <2> QED BY <2>1, <2>2
<1>5. IsFiniteSet(1 .. n)
  <2>1. 1 \in Int /\ n \in Int
    BY <1>1
  <2> QED BY <2>1, FS_Interval
<1>6. g \in [1 .. n -> Nat]
  BY <1>1, FulfilledByType
<1>7. \A i \in 1 .. (n + 1) : longer[i] \in Events
  BY <1>1, <1>2, <1>4
<1>8. f \in [(1 .. n) \cup {n + 1} -> Nat]
  BY <1>3, <1>4, <1>7, FulfilledByType
<1>9. \A i \in 1 .. n : g[i] = f[i]
  BY <1>1, <1>2, <1>3, <1>4
<1>10. f[n + 1] = FulfilledBy(event)
  BY <1>2, <1>3, <1>4
<1> HIDE DEF f, g
<1>11. SumFunction(g) \in Nat
  BY <1>5, <1>6, SumIsTotal
<1>12. SumFunction(f) = SumFunction(g) + f[n + 1]
  <2> DEFINE D == 1 .. n
             x == n + 1
  <2>1. IsFiniteSet(D) /\ x \notin D /\ f \in [D \cup {x} -> Nat] /\ g \in [D -> Nat]
        /\ \A y \in D : g[y] = f[y]
    BY <1>4, <1>5, <1>6, <1>8, <1>9
  <2> HIDE DEF D, x
  <2>2. SumFunction(f) = SumFunction(g) + f[x]
    BY <2>1, SumOfOneMore
  <2> QED BY <2>2 DEF x
<1> QED BY <1>10, <1>11, <1>12 DEF DepositsIn, f, g, longer

-----------------------------------------------------------------------------
(* The strike                                                              *)

\* An event joins the log of the transaction in flight.
LEMMA EventEmitted ==
    ASSUME IndexInv, Numbers, Numbers', NEW event \in Events,
           event.type = "NavUpdated" => event.day = Today,
           logs' = Append(logs, event), planLogs' \in Nat,
           UNCHANGED <<index, daily, rows, block>>,
           totalSupply' = totalSupply + MintedBy(event) - BurntBy(event),
           totalPendingDepositAssets' = totalPendingDepositAssets
                            + RequestedBy(event) - FulfilledBy(event) - RefundedBy(event)
    PROVE  IndexTypes' /\ DailyLow' /\ Correct(logs, totalSupply)'
<1>1. IndexTypes /\ DailyLow /\ Correct(logs, totalSupply) /\ logs \in Seq(Events)
  BY DEF IndexInv, IndexTypes
<1>2. Append(logs, event) \in Seq(Events)
  BY <1>1, AppendProperties
<1>3. IndexTypes' /\ DailyLow'
  BY <1>1, <1>2 DEF IndexTypes, DailyLow
<1>4. /\ totalSupply \in Nat /\ totalPendingDepositAssets \in Nat
      /\ totalSupply' \in Nat /\ totalPendingDepositAssets' \in Nat
  BY DEF Numbers
<1>5. AccountsFor(Folded(Entity, Append(logs, event)), daily, Today,
                  totalSupply', totalPendingDepositAssets')
  BY <1>1, <1>4, CorrectWithOneMore
<1>6. Entity' = Entity /\ Today' = Today
  BY DEF Entity, Today
<1>7. Correct(logs, totalSupply)'
  BY <1>5, <1>6 DEF Correct
<1> QED BY <1>3, <1>7

\* An envelope lands: its NAV is the struck one, and nothing has been emitted yet.
LEMMA EnvelopeIndexed ==
    ASSUME IInv, IInv', IndexInv, Quiet, NEW eventId, NEW attestedNav \in Navs, NEW inputsBlock,
           NEW breachFlags, handleSignedEnvelope(eventId, attestedNav, inputsBlock, breachFlags)
    PROVE  IndexInv'
<1>1. /\ Idle /\ phase' = "deposits" /\ nav' = attestedNav /\ attestedNav \in Nat
      /\ UNCHANGED <<block, totalSupply, totalPendingDepositAssets>>
  BY VaultAssumption DEF handleSignedEnvelope, depositVars, requestDepositVars
<1>2. logs = <<>> /\ UNCHANGED <<logs, planLogs, index, daily, rows>>
  BY <1>1 DEF IndexInv, Quiet, indexVars
<1>3. IndexTypes' /\ DailyLow'
  BY <1>1, <1>2 DEF IndexInv, IndexTypes, DailyLow
<1>4. Correct(logs, totalSupply)'
  BY <1>1, <1>2, CorrectFrame DEF IndexInv, Correct
<1>5. StruckNav' \in Nat
  <2>1. StruckNav' = nav' - DepositsIn(logs')
    BY DEF StruckNav, DepositsIn, FulfilledBy
  <2> QED BY <1>1, <1>2, <2>1, DepositsOfNone
<1>6. ~InPlan' /\ ~Idle'
  BY <1>1 DEF InPlan, Idle
<1> QED BY <1>3, <1>4, <1>5, <1>6 DEF IndexInv

\* A deposit that cannot be priced is refunded: pending goes down, the refund rows up.
LEMMA RefundIndexed ==
    ASSUME IInv, IInv', IndexInv, EmitRefunded
    PROVE  IndexInv'
<1>1. Numbers /\ Numbers'
  BY VaultNumbers
<1> DEFINE assets == pendingDepositAssets[Head(depositQueue)]
           event == [type |-> "DepositRequestRefunded", assets |-> assets]
<1>2. /\ phase = "deposits" /\ phase' = phase /\ depositQueue # <<>>
      /\ totalPendingDepositAssets' = totalPendingDepositAssets - assets
      /\ UNCHANGED <<block, nav, totalSupply>>
  BY DEF EmitRefunded, RefundDeposit, DequeueDeposit, strikeVars, attestVars
<1>3. logs' = Append(logs, event) /\ UNCHANGED <<planLogs, index, daily, rows>>
  BY DEF EmitRefunded, Emit
<1>4. assets \in Nat
  <2>1. depositQueue \in Seq(Accounts) /\ pendingDepositAssets \in [Accounts -> Nat]
    BY <1>1 DEF Numbers
  <2>2. Head(depositQueue) \in Accounts
    BY <1>2, <2>1
  <2> QED BY <2>1, <2>2
<1>5. event \in Events
  BY <1>4 DEF Events
<1>6. /\ MintedBy(event) = 0 /\ BurntBy(event) = 0 /\ RequestedBy(event) = 0
      /\ FulfilledBy(event) = 0 /\ RefundedBy(event) = assets /\ event.type # "NavUpdated"
  BY DEF MintedBy, BurntBy, RequestedBy, FulfilledBy, RefundedBy
<1> HIDE DEF event, assets
<1>7. /\ totalSupply' = totalSupply + MintedBy(event) - BurntBy(event)
      /\ totalPendingDepositAssets' = totalPendingDepositAssets
                            + RequestedBy(event) - FulfilledBy(event) - RefundedBy(event)
  BY <1>1, <1>2, <1>4, <1>6 DEF Numbers
<1>8. planLogs' \in Nat
  BY <1>3 DEF IndexInv, IndexTypes
<1>9. IndexTypes' /\ DailyLow' /\ Correct(logs, totalSupply)'
  BY <1>1, <1>2, <1>3, <1>5, <1>6, <1>7, <1>8, EventEmitted
<1>10. StruckNav' \in Nat
  <2>1. logs \in Seq(Events)
    BY DEF IndexInv, IndexTypes
  <2>2. DepositsIn(logs) \in Nat /\ DepositsIn(logs') = DepositsIn(logs) + 0
    BY <1>3, <1>5, <1>6, <2>1, DepositsOfOneMore
  <2>3. StruckNav' = nav' - DepositsIn(logs')
    BY DEF StruckNav, DepositsIn, FulfilledBy
  <2>4. StruckNav = nav - DepositsIn(logs) /\ StruckNav \in Nat
    BY <1>2, StruckNavIs DEF IndexInv
  <2> QED BY <1>2, <2>2, <2>3, <2>4
<1>11. ~InPlan' /\ ~Idle'
  BY <1>2 DEF InPlan, Idle
<1> QED BY <1>9, <1>10, <1>11 DEF IndexInv

\* A deposit is settled: what was pending is fulfilled, and its shares are in the supply.
LEMMA FulfilledIndexed ==
    ASSUME IInv, IInv', IndexInv, EmitDepositFulfilled
    PROVE  IndexInv'
<1>1. Numbers /\ Numbers'
  BY VaultNumbers
<1> DEFINE assets == pendingDepositAssets[Head(depositQueue)]
           shares == SharesFor(assets)
           event == [type |-> "DepositRequestFulfilled", assets |-> assets, shares |-> shares]
<1>2. /\ phase = "deposits" /\ phase' = phase /\ depositQueue # <<>>
      /\ totalPendingDepositAssets' = totalPendingDepositAssets - assets
      /\ totalSupply' = totalSupply + shares /\ nav' = nav + assets /\ UNCHANGED block
  BY DEF EmitDepositFulfilled, FulfillDeposit, DequeueDeposit, strikeVars
<1>3. logs' = Append(logs, event) /\ UNCHANGED <<planLogs, index, daily, rows>>
  BY DEF EmitDepositFulfilled, Emit
<1>4. assets \in Nat
  <2>1. depositQueue \in Seq(Accounts) /\ pendingDepositAssets \in [Accounts -> Nat]
    BY <1>1 DEF Numbers
  <2>2. Head(depositQueue) \in Accounts
    BY <1>2, <2>1
  <2> QED BY <2>1, <2>2
<1>5. shares \in Nat
  BY <1>4, SharesForIsNat DEF IInv
<1>6. event \in Events
  BY <1>4, <1>5 DEF Events
<1>7. /\ MintedBy(event) = shares /\ BurntBy(event) = 0 /\ RequestedBy(event) = 0
      /\ FulfilledBy(event) = assets /\ RefundedBy(event) = 0 /\ event.type # "NavUpdated"
  BY DEF MintedBy, BurntBy, RequestedBy, FulfilledBy, RefundedBy
<1> HIDE DEF event, assets, shares
<1>8. /\ totalSupply' = totalSupply + MintedBy(event) - BurntBy(event)
      /\ totalPendingDepositAssets' = totalPendingDepositAssets
                            + RequestedBy(event) - FulfilledBy(event) - RefundedBy(event)
  BY <1>1, <1>2, <1>4, <1>5, <1>7 DEF Numbers
<1>9. planLogs' \in Nat
  BY <1>3 DEF IndexInv, IndexTypes
<1>10. IndexTypes' /\ DailyLow' /\ Correct(logs, totalSupply)'
  BY <1>1, <1>2, <1>3, <1>6, <1>7, <1>8, <1>9, EventEmitted
<1>11. StruckNav' \in Nat
  <2>1. logs \in Seq(Events)
    BY DEF IndexInv, IndexTypes
  <2>2. DepositsIn(logs) \in Nat /\ DepositsIn(logs') = DepositsIn(logs) + assets
    BY <1>3, <1>6, <1>7, <2>1, DepositsOfOneMore
  <2>3. StruckNav' = nav' - DepositsIn(logs')
    BY DEF StruckNav, DepositsIn, FulfilledBy
  <2>4. StruckNav = nav - DepositsIn(logs) /\ StruckNav \in Nat
    BY <1>2, StruckNavIs DEF IndexInv
  <2>5. nav \in Nat
    BY <1>1 DEF Numbers
  <2> QED BY <1>2, <1>4, <2>2, <2>3, <2>4, <2>5
<1>12. ~InPlan' /\ ~Idle'
  BY <1>2 DEF InPlan, Idle
<1> QED BY <1>10, <1>11, <1>12 DEF IndexInv

\* What a strike emits of itself is an event of today.
LEMMA NavUpdatedIsEvent ==
    ASSUME IndexInv, Numbers, phase = "deposits"
    PROVE  /\ NavUpdated \in Events /\ NavUpdated.type = "NavUpdated" /\ NavUpdated.day = Today
           /\ MintedBy(NavUpdated) = 0 /\ BurntBy(NavUpdated) = 0 /\ RequestedBy(NavUpdated) = 0
           /\ FulfilledBy(NavUpdated) = 0 /\ RefundedBy(NavUpdated) = 0
<1>1. StruckNav \in Nat
  BY DEF IndexInv
<1>2. Today \in Nat
  <2>1. block \in Nat /\ BlocksPerDay \in Nat /\ BlocksPerDay > 0
    BY SubgraphAssumption DEF IndexInv, IndexTypes
  <2> QED BY <2>1, DivBounds DEF Today
<1>3. lastInputsBlock \in Nat /\ updateCount \in Nat /\ breached \in BOOLEAN
  BY DEF Numbers
<1>4. NavUpdated.type = "NavUpdated" /\ NavUpdated.day = Today
  BY DEF NavUpdated
<1>5. NavUpdated \in Events
  BY <1>1, <1>2, <1>3 DEF NavUpdated, Events
<1> QED BY <1>4, <1>5 DEF MintedBy, BurntBy, RequestedBy, FulfilledBy, RefundedBy

LEMMA WholeLog ==
    ASSUME NEW log \in Seq(Events)
    PROVE  SubSeq(log, 1, Len(log)) = log
  BY SubSeqFull

LEMMA PrefixOfLonger ==
    ASSUME NEW log \in Seq(Events), NEW event \in Events, NEW n \in Nat, n <= Len(log)
    PROVE  /\ SubSeq(log, 1, n) \in Seq(Events)
           /\ SubSeq(Append(log, event), 1, n) = SubSeq(log, 1, n)
<1> DEFINE longer == Append(log, event)
<1>1. /\ Len(longer) = Len(log) + 1 /\ longer \in Seq(Events) /\ Len(log) \in Nat
      /\ \A i \in 1 .. Len(log) : longer[i] = log[i]
  BY AppendProperties
<1> HIDE DEF longer
<1>2. \A i \in 1 .. n : longer[i] = log[i] /\ i \in 1 .. Len(log) /\ log[i] \in Events
  BY <1>1
<1>3. SubSeq(log, 1, n) = [i \in 1 .. n |-> log[i]] /\ SubSeq(longer, 1, n) = [i \in 1 .. n |-> longer[i]]
  BY <1>1
<1>4. SubSeq(log, 1, n) \in Seq(Events)
  BY <1>2, <1>3
<1> QED BY <1>2, <1>3, <1>4 DEF longer

\* The plan starts: what precedes it, NavUpdated included, survives its revert.
LEMMA EnterPlanIndexed ==
    ASSUME IInv, IInv', IndexInv, NEW steps, EmitNavUpdated(steps)
    PROVE  IndexInv'
<1>1. Numbers /\ Numbers'
  BY VaultNumbers
<1>2. /\ phase = "deposits" /\ phase' = "plan" /\ saved' = CurrentSnapshot
      /\ UNCHANGED <<block, totalSupply, totalPendingDepositAssets>>
  BY DEF EmitNavUpdated, EnterPlan, attestVars, depositVars, requestDepositVars
<1>3. /\ logs' = Append(logs, NavUpdated) /\ planLogs' = Len(logs) + 1
      /\ UNCHANGED <<index, daily, rows>>
  BY DEF EmitNavUpdated
<1>4. logs \in Seq(Events)
  BY DEF IndexInv, IndexTypes
<1>5. NavUpdated \in Events /\ NavUpdated.day = Today
  BY <1>1, <1>2, NavUpdatedIsEvent
<1>6. /\ totalSupply' = totalSupply + MintedBy(NavUpdated) - BurntBy(NavUpdated)
      /\ totalPendingDepositAssets' = totalPendingDepositAssets
            + RequestedBy(NavUpdated) - FulfilledBy(NavUpdated) - RefundedBy(NavUpdated)
  <2>1. totalSupply \in Nat /\ totalPendingDepositAssets \in Nat
    BY <1>1 DEF Numbers
  <2> QED BY <1>1, <1>2, <2>1, NavUpdatedIsEvent
<1>7. planLogs' = Len(logs') /\ planLogs' \in Nat
  BY <1>3, <1>4, <1>5, AppendProperties
<1>8. IndexTypes' /\ DailyLow' /\ Correct(logs, totalSupply)'
  BY <1>1, <1>2, <1>3, <1>5, <1>6, <1>7, EventEmitted
<1>9. SubSeq(logs, 1, planLogs)' = logs'
  BY <1>7, <1>8, WholeLog DEF IndexTypes
<1>10. saved'.totalSupply = totalSupply'
  BY <1>2 DEF CurrentSnapshot
<1>11. Correct(SubSeq(logs, 1, planLogs), saved.totalSupply)'
  BY <1>8, <1>9, <1>10 DEF Correct
<1>12. ~Idle' /\ phase' # "deposits"
  BY <1>2 DEF Idle
<1> QED BY <1>7, <1>8, <1>11, <1>12 DEF IndexInv

\* A plan with arrays of different lengths: the strike ends at once.
LEMMA MismatchIndexed ==
    ASSUME IInv, IInv', IndexInv, EmitArrayMismatch
    PROVE  IndexInv'
<1> DEFINE struck == Append(logs, NavUpdated)
           rejected == [type |-> "PlanRejected"]
<1>1. Numbers /\ Numbers'
  BY VaultNumbers
<1>2. /\ phase = "deposits" /\ phase' = "idle"
      /\ UNCHANGED <<block, totalSupply, totalPendingDepositAssets>>
  BY DEF EmitArrayMismatch, PlanArrayMismatch, attestVars, depositVars, requestDepositVars
<1>3. IndexTypes /\ logs \in Seq(Events) /\ Correct(logs, totalSupply)
  BY DEF IndexInv, IndexTypes
<1>4. /\ NavUpdated \in Events /\ NavUpdated.day = Today
      /\ MintedBy(NavUpdated) = 0 /\ BurntBy(NavUpdated) = 0 /\ RequestedBy(NavUpdated) = 0
      /\ FulfilledBy(NavUpdated) = 0 /\ RefundedBy(NavUpdated) = 0
  BY <1>1, <1>2, NavUpdatedIsEvent
<1>5. /\ rejected \in Events /\ rejected.type # "NavUpdated"
      /\ MintedBy(rejected) = 0 /\ BurntBy(rejected) = 0 /\ RequestedBy(rejected) = 0
      /\ FulfilledBy(rejected) = 0 /\ RefundedBy(rejected) = 0
  BY DEF Events, MintedBy, BurntBy, RequestedBy, FulfilledBy, RefundedBy
<1>6. totalSupply \in Nat /\ totalPendingDepositAssets \in Nat
  BY <1>1 DEF Numbers
<1>7. struck \in Seq(Events) /\ logs \o <<NavUpdated, rejected>> = Append(struck, rejected)
  BY <1>3, <1>4, <1>5
<1>8. Correct(struck, totalSupply)
  <2>1. /\ totalSupply = totalSupply + MintedBy(NavUpdated) - BurntBy(NavUpdated)
        /\ totalPendingDepositAssets = totalPendingDepositAssets
              + RequestedBy(NavUpdated) - FulfilledBy(NavUpdated) - RefundedBy(NavUpdated)
    BY <1>4, <1>6
  <2> QED BY <1>3, <1>4, <1>6, <2>1, CorrectWithOneMore DEF Correct
<1> HIDE DEF struck, rejected
<1>9. AccountsFor(Folded(Entity, Append(struck, rejected)), daily, Today,
                  totalSupply, totalPendingDepositAssets)
  <2>1. /\ totalSupply = totalSupply + MintedBy(rejected) - BurntBy(rejected)
        /\ totalPendingDepositAssets = totalPendingDepositAssets
              + RequestedBy(rejected) - FulfilledBy(rejected) - RefundedBy(rejected)
    BY <1>5, <1>6
  <2> QED BY <1>3, <1>5, <1>6, <1>7, <1>8, <2>1, CorrectWithOneMore
<1>10. Mined(Append(struck, rejected))
  BY <1>7 DEF EmitArrayMismatch, rejected
<1> QED BY <1>2, <1>9, <1>10, MinedStep

\* A step of the plan emits nothing, nor does its end.
LEMMA PlanCallIndexed ==
    ASSUME IndexInv, Quiet, NEW balance, PlanStep(balance) \/ PlanStepsDone
    PROVE  IndexInv'
<1>1. /\ phase = "plan" /\ phase' \in {"plan", "redeems"}
      /\ UNCHANGED <<block, totalSupply, totalPendingDepositAssets, saved>>
  BY DEF PlanStep, PlanStepsDone, attestVars, depositVars, requestDepositVars
<1>2. UNCHANGED <<logs, planLogs, index, daily, rows>>
  BY DEF Quiet, indexVars
<1>3. InPlan /\ InPlan' /\ ~Idle' /\ phase' # "deposits"
  BY <1>1 DEF InPlan, Idle
<1>4. IndexTypes' /\ DailyLow'
  BY <1>1, <1>2 DEF IndexInv, IndexTypes, DailyLow
<1>5. Correct(logs, totalSupply)'
  BY <1>1, <1>2, CorrectFrame DEF IndexInv, Correct
<1>6. Correct(SubSeq(logs, 1, planLogs), saved.totalSupply)' /\ planLogs' <= Len(logs')
  <2>1. Correct(SubSeq(logs, 1, planLogs), saved.totalSupply) /\ planLogs <= Len(logs)
    BY <1>3 DEF IndexInv
  <2>2. AccountsFor(Folded(Entity', SubSeq(logs, 1, planLogs)), daily', Today',
                    saved.totalSupply, totalPendingDepositAssets')
    BY <1>1, <1>2, <2>1, CorrectFrame
  <2> QED BY <1>1, <1>2, <2>1, <2>2 DEF Correct
<1> QED BY <1>3, <1>4, <1>5, <1>6 DEF IndexInv

\* A redemption is settled inside the plan: its burn is in the log, after what a revert leaves.
LEMMA RedeemIndexed ==
    ASSUME IInv, IInv', IndexInv, EmitRedeemFulfilled
    PROVE  IndexInv'
<1>1. Numbers /\ Numbers'
  BY VaultNumbers
<1> DEFINE controller == Head(redeemQueue)
           shares == pendingRedeemShares[controller]
           event == [type |-> "RedeemRequestFulfilled", shares |-> shares,
                     assets |-> claimableRedeemAssets'[controller]
                                   - claimableRedeemAssets[controller]]
<1>2. /\ phase = "redeems" /\ phase' = "redeems" /\ redeemQueue # <<>>
      /\ totalSupply' = totalSupply - shares
      /\ UNCHANGED <<block, totalPendingDepositAssets, saved>>
  BY DEF EmitRedeemFulfilled, FulfillRedeem, strikeVars, depositVars, requestDepositVars
<1>3. logs' = Append(logs, event) /\ UNCHANGED <<planLogs, index, daily, rows>>
  BY DEF EmitRedeemFulfilled, Emit
<1>4. shares \in Nat /\ claimableRedeemAssets'[controller] - claimableRedeemAssets[controller] \in Int
  <2>1. /\ redeemQueue \in Seq(Accounts) /\ pendingRedeemShares \in [Accounts -> Nat]
        /\ claimableRedeemAssets \in [Accounts -> Nat] /\ claimableRedeemAssets' \in [Accounts -> Nat]
    BY <1>1 DEF Numbers
  <2>2. Head(redeemQueue) \in Accounts
    BY <1>2, <2>1
  <2>3. shares \in Nat /\ claimableRedeemAssets'[controller] \in Nat /\ claimableRedeemAssets[controller] \in Nat
    BY <2>1, <2>2
  <2> QED BY <2>3
<1>5. event \in Events
  BY <1>4 DEF Events
<1>6. /\ MintedBy(event) = 0 /\ BurntBy(event) = shares /\ RequestedBy(event) = 0
      /\ FulfilledBy(event) = 0 /\ RefundedBy(event) = 0 /\ event.type # "NavUpdated"
  BY DEF MintedBy, BurntBy, RequestedBy, FulfilledBy, RefundedBy
<1> HIDE DEF event, shares, controller
<1>7. /\ totalSupply' = totalSupply + MintedBy(event) - BurntBy(event)
      /\ totalPendingDepositAssets' = totalPendingDepositAssets
                            + RequestedBy(event) - FulfilledBy(event) - RefundedBy(event)
  BY <1>1, <1>2, <1>4, <1>6 DEF Numbers
<1>8. planLogs \in Nat /\ planLogs' \in Nat /\ logs \in Seq(Events)
  BY <1>3 DEF IndexInv, IndexTypes
<1>9. IndexTypes' /\ DailyLow' /\ Correct(logs, totalSupply)'
  BY <1>1, <1>2, <1>3, <1>5, <1>6, <1>7, <1>8, EventEmitted
<1>10. InPlan /\ ~Idle' /\ phase' # "deposits"
  BY <1>2 DEF InPlan, Idle
<1>11. Correct(SubSeq(logs, 1, planLogs), saved.totalSupply) /\ planLogs <= Len(logs)
  BY <1>10 DEF IndexInv
<1>12. SubSeq(logs', 1, planLogs') = SubSeq(logs, 1, planLogs)
  BY <1>3, <1>5, <1>8, <1>11, PrefixOfLonger
<1>13. planLogs' <= Len(logs')
  <2>1. Len(logs') = Len(logs) + 1 /\ Len(logs) \in Nat
    BY <1>3, <1>5, <1>8, AppendProperties
  <2> QED BY <1>3, <1>8, <1>11, <2>1
<1>14. Correct(SubSeq(logs, 1, planLogs), saved.totalSupply)'
  <2>1. AccountsFor(Folded(Entity', SubSeq(logs, 1, planLogs)), daily', Today',
                    saved.totalSupply, totalPendingDepositAssets')
    BY <1>2, <1>3, <1>11, CorrectFrame
  <2> QED BY <1>2, <1>12, <2>1 DEF Correct
<1> QED BY <1>9, <1>10, <1>13, <1>14 DEF IndexInv

\* The plan ends: the whole log is delivered.
LEMMA ExecutedIndexed ==
    ASSUME IInv, IInv', IndexInv, EmitPlanExecuted
    PROVE  IndexInv'
<1> DEFINE event == [type |-> "PlanExecuted"]
<1>1. Numbers /\ Numbers'
  BY VaultNumbers
<1>2. phase' = "idle" /\ UNCHANGED <<block, totalSupply, totalPendingDepositAssets>>
  BY DEF EmitPlanExecuted, PlanExecuted, attestVars, depositVars, requestDepositVars
<1>3. IndexTypes /\ logs \in Seq(Events) /\ Correct(logs, totalSupply)
  BY DEF IndexInv, IndexTypes
<1>4. /\ event \in Events /\ event.type # "NavUpdated"
      /\ MintedBy(event) = 0 /\ BurntBy(event) = 0 /\ RequestedBy(event) = 0
      /\ FulfilledBy(event) = 0 /\ RefundedBy(event) = 0
  BY DEF Events, MintedBy, BurntBy, RequestedBy, FulfilledBy, RefundedBy
<1>5. totalSupply \in Nat /\ totalPendingDepositAssets \in Nat
  BY <1>1 DEF Numbers
<1>6. Mined(Append(logs, event))
  BY DEF EmitPlanExecuted
<1> HIDE DEF event
<1>7. /\ totalSupply = totalSupply + MintedBy(event) - BurntBy(event)
      /\ totalPendingDepositAssets = totalPendingDepositAssets
            + RequestedBy(event) - FulfilledBy(event) - RefundedBy(event)
  BY <1>4, <1>5
<1>8. AccountsFor(Folded(Entity, Append(logs, event)), daily, Today,
                  totalSupply, totalPendingDepositAssets)
  BY <1>3, <1>4, <1>5, <1>7, CorrectWithOneMore
<1> QED BY <1>2, <1>6, <1>8, MinedStep

\* The plan reverts: the supply and the log go back to what preceded it.
LEMMA RejectedIndexed ==
    ASSUME IInv, IInv', IndexInv, EmitPlanRejected
    PROVE  IndexInv'
<1> DEFINE event == [type |-> "PlanRejected"]
           supply == saved.totalSupply
<1>1. Numbers /\ Numbers'
  BY VaultNumbers
<1>2. InPlan /\ Rollback
  BY DEF EmitPlanRejected, PlanStepReverts, EscrowFloorBreached, InPlan
<1>3. phase' = "idle" /\ totalSupply' = supply /\ UNCHANGED <<block, totalPendingDepositAssets>>
  BY <1>2 DEF Rollback, depositVars, requestDepositVars
<1>4. /\ IndexTypes /\ logs \in Seq(Events) /\ planLogs \in Nat /\ planLogs <= Len(logs)
      /\ Correct(CommittedLogs, supply)
  BY <1>2 DEF IndexInv, IndexTypes, CommittedLogs
<1>5. /\ event \in Events /\ event.type # "NavUpdated"
      /\ MintedBy(event) = 0 /\ BurntBy(event) = 0 /\ RequestedBy(event) = 0
      /\ FulfilledBy(event) = 0 /\ RefundedBy(event) = 0
  BY DEF Events, MintedBy, BurntBy, RequestedBy, FulfilledBy, RefundedBy
<1>6. supply \in Nat /\ totalPendingDepositAssets \in Nat
  BY <1>1 DEF Numbers
<1>7. CommittedLogs \in Seq(Events)
  BY <1>4, <1>5, PrefixOfLonger DEF CommittedLogs
<1>8. Mined(Append(CommittedLogs, event))
  BY DEF EmitPlanRejected
<1> HIDE DEF event, supply
<1>9. /\ supply = supply + MintedBy(event) - BurntBy(event)
      /\ totalPendingDepositAssets = totalPendingDepositAssets
            + RequestedBy(event) - FulfilledBy(event) - RefundedBy(event)
  BY <1>5, <1>6
<1>10. AccountsFor(Folded(Entity, Append(CommittedLogs, event)), daily, Today,
                   supply, totalPendingDepositAssets)
  BY <1>4, <1>5, <1>6, <1>7, <1>9, CorrectWithOneMore
<1> QED BY <1>3, <1>8, <1>10, MinedStep

-----------------------------------------------------------------------------
(* Theorems                                                                *)

\* Nothing has been emitted or indexed.
LEMMA InitIndexedEstablishes ==
    ASSUME InitIndexed
    PROVE  IInv /\ IndexInv
<1>1. Init
  BY DEF InitIndexed
<1>2. IInv
  BY <1>1, InitEstablishes
<1>3. /\ logs = <<>> /\ planLogs = 0 /\ index = NewVault /\ daily = [d \in Days |-> NewDay]
      /\ rows = [strikes |-> <<>>, refunded |-> 0]
      /\ block = 1 /\ totalSupply = 0 /\ totalPendingDepositAssets = 0 /\ phase = "idle"
  BY DEF InitIndexed, Init
<1>4. <<>> \in Seq(Events) /\ <<>> \in Seq(StrikeRow) /\ 1 \in 1 .. MaxBlock
  BY VaultAssumption, SubgraphAssumption
<1>5. NewVault \in VaultRows
  BY DEF NewVault, VaultRows
<1>6. NewDay \in DayRows
  BY DEF NewDay, DayRows
<1>7. rows \in OtherRows
  BY <1>3, <1>4 DEF OtherRows
<1>8. IndexTypes
  BY <1>3, <1>4, <1>5, <1>6, <1>7 DEF IndexTypes
<1>9. DailyLow
  <2>1. ASSUME NEW d \in Days PROVE LowestStruck(<<>>, d) = 0
    BY DEF LowestStruck
  <2>2. ASSUME NEW d \in Days PROVE daily[d].navMin = 0
    BY <1>3 DEF NewDay
  <2> QED BY <1>3, <2>1, <2>2 DEF DailyLow
<1>10. Correct(logs, totalSupply)
  <2>1. index.totalShares = 0 /\ index.totalDepositRequested = 0 /\ index.totalDepositFulfilled = 0
        /\ rows.refunded = 0
    BY <1>3 DEF NewVault
  <2> QED BY <1>3, <1>8, <1>9, <2>1, CorrectWhenIdle
<1>11. ~InPlan /\ phase # "deposits"
  BY <1>3 DEF InPlan
<1> QED BY <1>2, <1>3, <1>8, <1>9, <1>10, <1>11 DEF IndexInv

\* Every step of the node is one of the vault.
LEMMA IndexedIsVaultStep ==
    ASSUME [NextIndexed]_allVars
    PROVE  [Next]_vars
<1>1. CASE IndexedRequest
  <2>1. Request
    BY <1>1 DEF IndexedRequest, Request
  <2> QED BY <2>1 DEF Next
<1>2. CASE IndexedStrike
  <2>1. Strike
    BY <1>2 DEF IndexedStrike, Strike, EmitRefunded, EmitDepositFulfilled, EmitArrayMismatch,
                EmitNavUpdated, EmitRedeemFulfilled, EmitPlanExecuted, EmitPlanRejected
  <2> QED BY <2>1 DEF Next
<1>3. CASE Claim \/ Strategist \/ Delegation \/ Environment
  BY <1>3 DEF Next
<1>4. CASE UNCHANGED allVars
  BY <1>4 DEF allVars
<1> QED BY <1>1, <1>2, <1>3, <1>4 DEF NextIndexed

\* The invariant is inductive.
LEMMA NextIndexedStep ==
    ASSUME IInv, IndexInv, [NextIndexed]_allVars
    PROVE  IInv' /\ IndexInv'
<1>1. IInv'
  BY IndexedIsVaultStep, NextStep
<1>2. CASE IndexedRequest
  BY <1>1, <1>2, RequestIndexed
<1>3. CASE IndexedStrike
  <2>1. CASE \E eventId \in EventIds, attestedNav \in Navs, inputsBlock \in 0 .. MaxBlock,
               breachFlags \in BOOLEAN :
               handleSignedEnvelope(eventId, attestedNav, inputsBlock, breachFlags) /\ Quiet
    BY <1>1, <2>1, EnvelopeIndexed
  <2>2. CASE \E steps \in 0 .. MaxPlanSteps : EmitNavUpdated(steps)
    BY <1>1, <2>2, EnterPlanIndexed
  <2>3. CASE \E balance \in Balances : PlanStep(balance) /\ Quiet
    <3>1. PICK balance \in Balances : PlanStep(balance) /\ Quiet
      BY <2>3
    <3> QED BY <1>1, <3>1, PlanCallIndexed
  <2>4. CASE PlanStepsDone /\ Quiet
    <3>1. PlanStep(0) \/ PlanStepsDone
      BY <2>4
    <3> QED BY <1>1, <2>4, <3>1, PlanCallIndexed
  <2>5. CASE EmitRefunded
    BY <1>1, <2>5, RefundIndexed
  <2>6. CASE EmitDepositFulfilled
    BY <1>1, <2>6, FulfilledIndexed
  <2>7. CASE EmitArrayMismatch
    BY <1>1, <2>7, MismatchIndexed
  <2>8. CASE EmitRedeemFulfilled
    BY <1>1, <2>8, RedeemIndexed
  <2>9. CASE EmitPlanExecuted
    BY <1>1, <2>9, ExecutedIndexed
  <2>10. CASE EmitPlanRejected
    BY <1>1, <2>10, RejectedIndexed
  <2> QED BY <1>3, <2>1, <2>2, <2>3, <2>4, <2>5, <2>6, <2>7, <2>8, <2>9, <2>10 DEF IndexedStrike
<1>4. CASE (Claim \/ Strategist \/ Delegation \/ Environment) /\ Quiet
  BY <1>1, <1>4, OutsideStrikeIndexed
<1>5. CASE UNCHANGED allVars
  <2>1. /\ UNCHANGED <<block, totalSupply, totalPendingDepositAssets, saved, phase, nav>>
        /\ UNCHANGED <<logs, planLogs, index, daily, rows>>
    BY <1>5 DEF allVars, vars, indexVars, attestVars, strikeVars, depositVars, requestDepositVars
  <2>2. IndexTypes' /\ DailyLow' /\ InPlan' = InPlan /\ Idle' = Idle
    BY <2>1 DEF IndexInv, IndexTypes, DailyLow, InPlan, Idle
  <2>3. Entity' = Entity /\ Today' = Today /\ StruckNav' = StruckNav
    BY <2>1 DEF Entity, Today, StruckNav
  <2> QED BY <1>1, <2>1, <2>2, <2>3 DEF IndexInv, Correct
<1> QED BY <1>1, <1>2, <1>3, <1>4, <1>5 DEF NextIndexed

\* IndexInv holds in every reachable state.
THEOREM IndexInvariance == SpecIndexed => [](IInv /\ IndexInv)
  BY InitIndexedEstablishes, NextIndexedStep, PTL DEF SpecIndexed

(***************************************************************************)
(* The Vault entity accounts for the vault's books whenever no transaction *)
(* is in flight: no settlement is counted twice, none of a plan that       *)
(* reverted is counted, and no burn is skipped.                            *)
(***************************************************************************)
THEOREM IndexedBooksHold == SpecIndexed => []IndexedBooks
<1>1. IndexInv => IndexedBooks
  BY CorrectWhenIdle DEF IndexInv, IndexedBooks
<1> QED BY <1>1, IndexInvariance, PTL

(***************************************************************************)
(* A day's navMin is the lowest NAV struck that day since the last strike  *)
(* at zero, for any number of days and strikes.                            *)
(***************************************************************************)
THEOREM DailyLowHolds == SpecIndexed => []DailyLow
<1>1. IndexInv => DailyLow
  BY DEF IndexInv
<1> QED BY <1>1, IndexInvariance, PTL

=============================================================================
