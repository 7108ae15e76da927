------------------------------ MODULE NavCycle ------------------------------
(***************************************************************************)
(* The NAV cycle (components/vault-nav) and the vault it values.  A cycle  *)
(* is a pure function of the chain at its inputs block: it attests a NAV   *)
(* and a plan, and the envelope lands on the vault at some later block.    *)
(* The plan's steps act on a Morpho position and a Uniswap pool.           *)
(*                                                                         *)
(* Amounts are whole units, far above the bps the code rounds by.  USDe is *)
(* counted in units worth one USDC at par.  Interest is left out: the debt *)
(* of a read is the debt at landing unless a transaction changed it.       *)
(***************************************************************************)
EXTENDS PriimeVault, FiniteSetsExt

CONSTANTS
    Prices,         \* TWAPs of USDe, in bps of par
    Leverage,       \* applied_leverage, bps
    HfFloor,        \* hf_floor_bps, 0 for none
    HfDeleverage,   \* hf_deleverage_bps, 0 for none
    ReserveFloor,   \* reserve_fraction, bps
    Haircut,        \* equity haircut of the risk preset, bps
    Lltv,           \* liquidation LTV of the market, bps
    OneUsdc,        \* 1 USDC in units of the model
    Requests        \* bound: requests ever made

Par == 10000

ASSUME NavAssumption ==
    /\ Prices \subseteq Nat \ {0} /\ Par \in Prices
    /\ Leverage \in Nat /\ ReserveFloor \in Nat /\ OneUsdc \in Nat /\ Requests \in Nat
    /\ HfFloor \in {0} \cup {n \in Nat : n >= Par}
    /\ HfDeleverage \in {0} \cup {n \in Nat : n >= Par}
    /\ Haircut \in 0 .. Par /\ Lltv \in 0 .. Par
    /\ EventIds = 1 .. MaxBlock

VARIABLES
    collateral, debt, usde,     \* the Morpho position, and USDe held by the vault
    price,                      \* the pool's TWAP
    history,                    \* chain state at the end of each block that may still be attested
    plan,                       \* steps left of the plan in flight
    savedVenue,                 \* position and USDe to restore when the plan reverts
    read,                       \* the state the last strike was computed from
    landed,                     \* block the last strike landed in
    fresh,                      \* was the last strike read after the one before it landed?
    requests                    \* requests made so far

venueVars == <<collateral, debt, usde>>
strikeGhosts == <<read, landed, fresh>>
navVars == <<venueVars, price, history, plan, savedVenue, strikeGhosts, requests>>
cycleVars == <<vars, navVars>>

-----------------------------------------------------------------------------
(* What a cycle reads: every call is pinned to the inputs block            *)

NoState == [known |-> FALSE]

ChainState ==
    [known |-> TRUE, collateral |-> collateral, debt |-> debt, price |-> price,
     balance |-> usdc, pendingDeposit |-> totalPendingDepositAssets,
     claimableRedeem |-> totalClaimableRedeemAssets,
     pendingRedeemShares |-> totalPendingRedeemShares, supply |-> totalSupply,
     refundable |-> totalRefundableDepositAssets]

\* The collateral at min(par, TWAP), in USDC.
PricedCollateral(s) == (s.collateral * Min({s.price, Par})) \div Par

Floor(s) == s.pendingDeposit + s.claimableRedeem

\* Mutant of NavUsdc: the deposits still pending are counted as the shares' own.
NavUsdcWithPending(s) ==
    LET assets == PricedCollateral(s) + s.balance - s.claimableRedeem
        owed   == s.debt + PricedCollateral(s) \div 200
    IN  Max({assets - owed, 0})

\* nav_usdc: 50 bps of the collateral are kept as exit-slippage reserve.
NavUsdc(s) ==
    LET assets == PricedCollateral(s) + s.balance - Floor(s)
        owed   == s.debt + PricedCollateral(s) \div 200
    IN  Max({assets - owed, 0})

AttestedNav(s) == (NavUsdc(s) * (Par - Haircut)) \div Par

MeasuredLeverage(s) == (PricedCollateral(s) * Par) \div (PricedCollateral(s) - s.debt)

MeasuredLtv(s) ==
    IF PricedCollateral(s) = 0 THEN 0 ELSE (s.debt * Par) \div PricedCollateral(s)

\* check_applied_leverage_drift, with its 25% band.
Drifted(s) ==
    /\ s.debt >= OneUsdc /\ Leverage # 0
    /\ \/ PricedCollateral(s) <= s.debt
       \/ MeasuredLeverage(s) \notin Leverage - Leverage \div 4 .. Leverage + Leverage \div 4

\* check_reserve_floor
UnderReserve(s) ==
    AttestedNav(s) >= OneUsdc /\ (s.balance * Par) \div AttestedNav(s) < ReserveFloor

\* The reads and guards that end a cycle with an error: nothing is attested.
CycleFails(s) == s.balance < Floor(s) \/ Drifted(s) \/ UnderReserve(s)

\* check_hf_floor and check_deleverage_threshold
Breached(s) ==
    \/ HfFloor # 0 /\ MeasuredLtv(s) > (Lltv * Par) \div HfFloor
    \/ /\ HfDeleverage # 0 /\ s.debt >= OneUsdc
       /\ MeasuredLtv(s) > (Lltv * Par) \div HfDeleverage

-----------------------------------------------------------------------------
(* build_action_plan                                                       *)

Empty == <<>>

RedeemAssetsOut(s) ==
    IF s.supply = 0 THEN 0
    ELSE (s.pendingRedeemShares * (AttestedNav(s) + s.pendingDeposit)) \div s.supply

RedeemShortfall(s) == Max({s.claimableRedeem + RedeemAssetsOut(s) - s.balance, 0})

\* Mutant of Cushion: the floor of the cushion, whatever the leverage.
CushionFlat(equity, s) == 100

\* Bps freed beyond the shortfall: the swap's 50 bps are of the gross collateral leg.
Cushion(equity, s) == 100 + (60 * ((PricedCollateral(s) * Par) \div equity)) \div Par

\* 50 bps under the amount the TWAP gives.
Tolerated(amount) == (amount * 9950) \div Par

UsdcFor(amount, twap) == (amount * twap) \div Par
UsdeFor(amount, twap) == (amount * Par) \div twap

\* plan_deleverage: one flash loan whose callback repays, withdraws and swaps.
PlanDeleverage(s) ==
    LET equity == PricedCollateral(s) - s.debt
        target == RedeemShortfall(s) + (RedeemShortfall(s) * Cushion(equity, s)) \div Par
        part   == Min({target, equity})
        out    == (s.collateral * part) \div equity
    IN  <<[op |-> "flashLoan", repay |-> (s.debt * part) \div equity, out |-> out,
           min |-> Tolerated(UsdcFor(out, s.price))]>>

\* plan_redeem_collateral: the unlevered unwind.
PlanRedeemCollateral(s) ==
    LET target == RedeemShortfall(s) + RedeemShortfall(s) \div 100
        out    == Min({UsdeFor((target * Par) \div 9950, s.price), s.collateral})
    IN  IF out = 0 THEN Empty
        ELSE <<[op |-> "withdraw", out |-> out], [op |-> "approve"],
               [op |-> "swapOut", in |-> out, min |-> Tolerated(UsdcFor(out, s.price))]>>

\* What is borrowed against this collateral to sit at the configured leverage.
Borrowed(supplied) == (supplied * (Leverage - Par)) \div Leverage

\* plan_open_position, on 99% of the balance or of the NAV, the lower.
PlanOpenPosition(s) ==
    LET usable   == Min({AttestedNav(s), s.balance})
        deployed == (usable * 99) \div 100
        supplied == Tolerated(UsdeFor(deployed, s.price))
    IN  IF deployed < OneUsdc THEN Empty
        ELSE <<[op |-> "approve"], [op |-> "swapIn", in |-> deployed, min |-> supplied],
               [op |-> "approve"], [op |-> "supply", in |-> supplied]>>
             \o IF Borrowed(supplied) = 0 THEN <<>>
                ELSE <<[op |-> "borrow", out |-> Borrowed(supplied)]>>

\* Mutant of BuildActionPlan: a shortfall is met by the spot unwind, whatever the debt.
BuildActionPlanSpot(s) ==
    CASE RedeemShortfall(s) # 0 /\ s.collateral # 0 -> PlanRedeemCollateral(s)
      [] OTHER ->
            IF s.pendingRedeemShares # 0 \/ Leverage <= Par \/ s.debt # 0 THEN Empty
            ELSE PlanOpenPosition(s)

BuildActionPlan(s) ==
    CASE RedeemShortfall(s) # 0 /\ s.debt # 0 ->
            IF PricedCollateral(s) <= s.debt THEN Empty ELSE PlanDeleverage(s)
      [] RedeemShortfall(s) # 0 /\ s.debt = 0 /\ s.collateral # 0 -> PlanRedeemCollateral(s)
      [] OTHER ->
            IF s.pendingRedeemShares # 0 \/ Leverage <= Par \/ s.debt # 0 THEN Empty
            ELSE PlanOpenPosition(s)

CyclePlan(s) == IF Breached(s) THEN Empty ELSE BuildActionPlan(s)

-----------------------------------------------------------------------------
(* The chain                                                               *)

InitCycle ==
    /\ Init
    /\ collateral = 0 /\ debt = 0 /\ usde = 0 /\ price = Par
    /\ history = [b \in 1 .. MaxBlock |-> NoState]
    /\ plan = Empty /\ savedVenue = <<0, 0, 0>>
    /\ read = NoState /\ landed = 0 /\ fresh = TRUE
    /\ requests = 0

\* The block ends: its state may be attested from now on, unless a later one was.
EndBlock ==
    /\ NextBlock
    /\ history' = [history EXCEPT ![block] = ChainState]
    /\ UNCHANGED <<venueVars, price, plan, savedVenue, strikeGhosts, requests>>

Reprice(twap) ==
    /\ Idle
    /\ price' = twap
    /\ UNCHANGED <<vars, venueVars, history, plan, savedVenue, strikeGhosts, requests>>

AnotherRequest == requests < Requests /\ requests' = requests + 1

\* An account asks for its own account; a redeemer asks for half or all of its shares.
CycleRequest ==
    /\ AnotherRequest
    /\ \E account \in Accounts :
          \/ \E assets \in Amounts :
                usdc + assets <= MaxUsdc /\ requestDeposit(account, assets, account, account)
          \/ \E shares \in {shareBalance[account], shareBalance[account] \div 2} :
                requestRedeem(account, shares, account, account)
    /\ UNCHANGED <<venueVars, price, history, plan, savedVenue, strikeGhosts>>

CycleClaim ==
    /\ \E account \in Accounts :
          \/ mint(account, claimableDepositShares[account], account, account)
          \/ redeem(account, claimableRedeemShares[account], account, account)
          \/ claimDepositRefund(account, account, account)
    /\ UNCHANGED navVars

\* The strategist repays debt with the USDC that is nobody's: execute(morpho.repay).
Trim ==
    LET spent == Min({debt, usdc - EscrowFloorAmount})
    IN  /\ spent > 0
        /\ execute(usdc - spent)
        /\ debt' = debt - spent
        /\ UNCHANGED <<collateral, usde, price, history, plan, savedVenue, strikeGhosts, requests>>

-----------------------------------------------------------------------------
(* The strike computed at a block, and its plan on the venues              *)

Strikeable(b) == history[b].known /\ ~CycleFails(history[b])

LandEnvelope(b) ==
    /\ Strikeable(b)
    /\ handleSignedEnvelope(b, AttestedNav(history[b]), b, Breached(history[b]))
    /\ plan' = CyclePlan(history[b])
    /\ read' = history[b]
    /\ landed' = block
    /\ fresh' = (b >= landed)
    /\ history' = [c \in 1 .. MaxBlock |-> IF c <= b THEN NoState ELSE history[c]]
    /\ UNCHANGED <<venueVars, price, savedVenue, requests>>

CycleDeposits == (RefundDeposit \/ FulfillDeposit) /\ UNCHANGED navVars

CycleEnterPlan ==
    /\ EnterPlan(Len(plan))
    /\ savedVenue' = <<collateral, debt, usde>>
    /\ UNCHANGED <<venueVars, price, history, plan, strikeGhosts, requests>>

StepTaken == plan' = Tail(plan) /\ UNCHANGED <<price, history, savedVenue, strikeGhosts, requests>>

\* A swap gives anything from the minimum asked for to what the pool's price is worth,
\* and reverts when that is less than the minimum.
Outcomes(least, worth) == {out \in {least, worth} : least <= worth}

\* Morpho lets neither a borrow nor a withdrawal past the liquidation LTV.
Healthy(coll, owed) == owed * Par <= UsdcFor(coll, price) * Lltv

CycleStep ==
    /\ plan # Empty
    /\ LET step == Head(plan)
       IN  \/ step.op = "approve" /\ PlanStep(usdc) /\ UNCHANGED venueVars
           \/ /\ step.op = "swapIn" /\ step.in <= usdc
              /\ PlanStep(usdc - step.in)
              /\ \E out \in Outcomes(step.min, UsdeFor(step.in, price)) : usde' = usde + out
              /\ UNCHANGED <<collateral, debt>>
           \/ /\ step.op = "supply" /\ step.in <= usde
              /\ PlanStep(usdc)
              /\ usde' = usde - step.in /\ collateral' = collateral + step.in
              /\ UNCHANGED debt
           \/ /\ step.op = "borrow" /\ Healthy(collateral, debt + step.out)
              /\ PlanStep(usdc + step.out)
              /\ debt' = debt + step.out
              /\ UNCHANGED <<collateral, usde>>
           \/ /\ step.op = "withdraw" /\ step.out <= collateral
              /\ Healthy(collateral - step.out, debt)
              /\ PlanStep(usdc)
              /\ collateral' = collateral - step.out /\ usde' = usde + step.out
              /\ UNCHANGED debt
           \/ /\ step.op = "swapOut" /\ step.in <= usde
              /\ \E out \in Outcomes(step.min, UsdcFor(step.in, price)) : PlanStep(usdc + out)
              /\ usde' = usde - step.in
              /\ UNCHANGED <<collateral, debt>>
           \/ /\ step.op = "flashLoan" /\ step.repay <= debt /\ step.out <= collateral
              /\ Healthy(collateral - step.out, debt - step.repay)
              /\ \E out \in Outcomes(step.min, UsdcFor(step.out, price)) :
                    usdc + out >= step.repay /\ PlanStep(usdc + out - step.repay)
              /\ debt' = debt - step.repay /\ collateral' = collateral - step.out
              /\ UNCHANGED usde
    /\ StepTaken

CycleSettle ==
    /\ PlanStepsDone \/ FulfillRedeem \/ PlanExecuted
    /\ UNCHANGED navVars

CycleReverts ==
    /\ PlanStepReverts \/ EscrowFloorBreached
    /\ collateral' = savedVenue[1] /\ debt' = savedVenue[2] /\ usde' = savedVenue[3]
    /\ plan' = Empty
    /\ UNCHANGED <<price, history, savedVenue, strikeGhosts, requests>>

NextCycle ==
    \/ EndBlock \/ CycleRequest \/ CycleClaim \/ Trim
    \/ \E twap \in Prices : Reprice(twap)
    \/ \E b \in 1 .. MaxBlock : LandEnvelope(b)
    \/ CycleDeposits \/ CycleEnterPlan \/ CycleStep \/ CycleSettle \/ CycleReverts

SpecCycle == InitCycle /\ [][NextCycle]_cycleVars

-----------------------------------------------------------------------------
(* Properties                                                              *)

\* What backs the shares, with the collateral at the price the strike read.
Worth ==
    (collateral * Min({read.price, Par})) \div Par + usdc - EscrowFloorAmount - debt

\* The debt of a position the drift guard does not look at: it may be under water.
Overlooked(s) == IF s.debt < OneUsdc \/ Leverage = 0 THEN s.debt ELSE 0

(***************************************************************************)
(* A strike read after the one before it landed never prices the shares    *)
(* above what backs them when its requests settle, but by the refunds that *)
(* were outstanding at its inputs block, which the NAV counts as idle USDC,*)
(* and by a debt the drift guard does not look at: whatever requests,      *)
(* claims, refunds or repayments landed between the read and the           *)
(* settlement.                                                             *)
(***************************************************************************)
PricedAtWorth ==
    phase = "deposits" /\ depositQueue = <<>> /\ fresh
        => nav <= Worth + read.refundable + Overlooked(read)

\* At most 39 times levered: from there on the swap's 50 bps outgrow the cushion.
CushionSuffices(s) == PricedCollateral(s) <= 39 * (PricedCollateral(s) - s.debt)

\* Units the roundings of an unwind may take: USDe is counted in whole units too.
Roundings(s) == 3 + (s.price - 1) \div Par

(***************************************************************************)
(* The plan pays the redemptions it was sized for.  When all its steps     *)
(* succeeded, from a fresh read at which no guard was breached and since   *)
(* which no redemption was queued and no debt repaid, and no refund is     *)
(* outstanding, the vault ends at or above its escrow floor: the cushion,  *)
(* the exit reserve and the 50 bps of the swap add up for every price.  Up *)
(* to the units the code rounds: nav_usdc rounds the exit reserve down as  *)
(* swap_min_usdc_out does the minimum, so even a full exit whose swap      *)
(* gives its exact minimum is one unit short, and is rejected.             *)
(***************************************************************************)
PlansPayRedemptions ==
    /\ phase = "redeems" /\ redeemQueue = <<>>
    /\ fresh /\ ~Breached(read) /\ read.refundable = 0 /\ totalRefundableDepositAssets = 0
    /\ saved.totalPendingRedeemShares = read.pendingRedeemShares
    /\ read.pendingRedeemShares # 0 /\ savedVenue[2] = read.debt /\ CushionSuffices(read)
    => usdc + Roundings(read) >= EscrowFloorAmount

\* How far the position is above the configured leverage at par.
Excess(owed, coll) == owed * Leverage - coll * Max({Leverage - Par, 0})

(***************************************************************************)
(* A strike never levers the position above the configured leverage at     *)
(* par, nor further above it, but by the one unit of debt an unwind rounds *)
(* off: not when its plan opens a second position, however late, and not   *)
(* when it unwinds, unless it was read before the strike before it landed. *)
(* Two late unwinds of one position may take the collateral of another.    *)
(***************************************************************************)
NeverOverLevered ==
    Idle /\ (fresh \/ RedeemShortfall(read) = 0) =>
        Excess(debt, collateral) <= Max({Excess(savedVenue[2], savedVenue[1]), 0}) + Leverage

=============================================================================
