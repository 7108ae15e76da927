---------------------------- MODULE PriimeVault ----------------------------
(***************************************************************************)
(* The books of contracts/src/PriimeVault.sol: an ERC-7540 vault whose     *)
(* deposits and redemptions are requested, settled in one batch by an      *)
(* attested NAV strike, and then claimed.                                  *)
(*                                                                         *)
(* Every external function runs as one EVM transaction.  All of them are   *)
(* one action, except the strike (handleSignedEnvelope): its two           *)
(* settlement loops and its plan are run one iteration per action, under a *)
(* "phase" that keeps every other function out until the transaction ends. *)
(* What the strategy does with the vault's USDC is outside this module: a  *)
(* call to a venue leaves the vault with any balance.                      *)
(***************************************************************************)
EXTENDS Integers, Sequences, FiniteSets, Functions

CONSTANTS
    Accounts,           \* externally owned accounts: controllers, owners, operators
    Vault,              \* the vault's own address
    EventIds,           \* envelope event ids
    MaxQueueLength,     \* MAX_QUEUE_LENGTH
    MinBootstrapAssets, \* MIN_BOOTSTRAP_ASSETS
    Amounts,            \* asset amounts a depositor or a donor sends
    Navs,               \* NAVs the quorum may attest
    Operators,          \* accounts that may be made operator or share spender
    MaxBlock,           \* bound: last block height
    MaxUsdc,            \* bound: USDC the vault may hold, or owe
    MaxPlanSteps,       \* bound: steps in a plan
    TokenMayBurn        \* does the asset leave the vault behind its back?

ASSUME VaultAssumption ==
    /\ IsFiniteSet(Accounts) /\ Vault \notin Accounts
    /\ Operators \subseteq Accounts
    /\ MaxQueueLength \in Nat
    /\ MinBootstrapAssets \in Nat \ {0}
    /\ Amounts \subseteq Nat
    /\ Navs \subseteq Nat
    /\ MaxBlock \in Nat
    /\ MaxUsdc \in Nat
    /\ MaxPlanSteps \in Nat
    /\ TokenMayBurn \in BOOLEAN

VARIABLES
    (* attestation *)
    block, nav, lastInputsBlock, updateCount, processed, breached,
    (* deposit requests *)
    pendingDepositAssets, claimableDepositAssets, claimableDepositShares,
    depositQueue, totalPendingDepositAssets,
    refundableDepositAssets, totalRefundableDepositAssets,
    (* redeem requests *)
    pendingRedeemShares, claimableRedeemShares, claimableRedeemAssets,
    redeemQueue, totalPendingRedeemShares, totalClaimableRedeemAssets,
    (* ERC-20 share token and the vault's USDC *)
    shareBalance, totalSupply, usdc,
    (* delegation *)
    operators, allowance,
    (* the strike in flight *)
    phase, stepsLeft, saved, lastPlan

attestVars == <<block, nav, lastInputsBlock, updateCount, processed, breached>>
requestDepositVars == <<pendingDepositAssets, depositQueue, totalPendingDepositAssets>>
claimDepositVars == <<claimableDepositAssets, claimableDepositShares>>
refundVars == <<refundableDepositAssets, totalRefundableDepositAssets>>
depositVars == <<requestDepositVars, claimDepositVars, refundVars>>
requestRedeemVars == <<pendingRedeemShares, redeemQueue, totalPendingRedeemShares>>
claimRedeemVars == <<claimableRedeemShares, claimableRedeemAssets, totalClaimableRedeemAssets>>
redeemVars == <<requestRedeemVars, claimRedeemVars>>
grantVars == <<operators, allowance>>
strikeVars == <<phase, stepsLeft, saved, lastPlan>>
vars == <<attestVars, depositVars, redeemVars, shareBalance, totalSupply, usdc,
          grantVars, strikeVars>>

-----------------------------------------------------------------------------

Holders == Accounts \cup {Vault}

Ledger == [Accounts -> Nat]

\* What executePlanSelf may write, and what its revert restores.
Snapshot == [nav : Nat, usdc : Nat, totalSupply : Nat, shareBalance : [Holders -> Nat],
             pendingRedeemShares : Ledger, claimableRedeemShares : Ledger,
             claimableRedeemAssets : Ledger, redeemQueue : Seq(Accounts),
             totalPendingRedeemShares : Nat, totalClaimableRedeemAssets : Nat]

\* USDC balances a call to a venue may leave the vault with.
Balances == 0 .. MaxUsdc

Zero == [c \in Accounts |-> 0]

NoSnapshot ==
    [nav |-> 0, usdc |-> 0, totalSupply |-> 0, shareBalance |-> [h \in Holders |-> 0],
     pendingRedeemShares |-> Zero, claimableRedeemShares |-> Zero,
     claimableRedeemAssets |-> Zero, redeemQueue |-> <<>>,
     totalPendingRedeemShares |-> 0, totalClaimableRedeemAssets |-> 0]

CurrentSnapshot ==
    [nav |-> nav, usdc |-> usdc, totalSupply |-> totalSupply, shareBalance |-> shareBalance,
     pendingRedeemShares |-> pendingRedeemShares,
     claimableRedeemShares |-> claimableRedeemShares,
     claimableRedeemAssets |-> claimableRedeemAssets, redeemQueue |-> redeemQueue,
     totalPendingRedeemShares |-> totalPendingRedeemShares,
     totalClaimableRedeemAssets |-> totalClaimableRedeemAssets]

\* USDC the vault owes to depositors and redeemers: the strategy may not spend it.
EscrowFloorAmount ==
    totalPendingDepositAssets + totalClaimableRedeemAssets + totalRefundableDepositAssets

\* May sender act for account (its requests, or the assets it owns)?
ControllerOrOperator(sender, account) ==
    sender = account \/ <<account, sender>> \in operators

Idle == phase = "idle"

\* Inside executePlanSelf: a revert undoes what was written since "saved".
InPlan == phase \in {"plan", "redeems"}

Init ==
    /\ block = 1 /\ nav = 0 /\ lastInputsBlock = 0 /\ updateCount = 0
    /\ processed = {} /\ breached = FALSE
    /\ pendingDepositAssets = Zero /\ depositQueue = <<>> /\ totalPendingDepositAssets = 0
    /\ claimableDepositAssets = Zero /\ claimableDepositShares = Zero
    /\ refundableDepositAssets = Zero /\ totalRefundableDepositAssets = 0
    /\ pendingRedeemShares = Zero /\ redeemQueue = <<>> /\ totalPendingRedeemShares = 0
    /\ claimableRedeemShares = Zero /\ claimableRedeemAssets = Zero
    /\ totalClaimableRedeemAssets = 0
    /\ shareBalance = [h \in Holders |-> 0] /\ totalSupply = 0 /\ usdc = 0
    /\ operators = {} /\ allowance = [p \in Accounts \X Accounts |-> 0]
    /\ phase = "idle" /\ stepsLeft = 0 /\ saved = NoSnapshot /\ lastPlan = "none"

-----------------------------------------------------------------------------
(* Requests                                                                *)

\* Mutant of Enqueued: a controller is queued again at every top-up.
EnqueuedAgain(queue, pending, controller) == Append(queue, controller)

\* The queue after a request of controller: queued once, while it has nothing pending.
Enqueued(queue, pending, controller) ==
    IF pending[controller] = 0 THEN Append(queue, controller) ELSE queue

HasRoom(queue, pending, controller) ==
    pending[controller] = 0 => Len(queue) < MaxQueueLength

requestDeposit(sender, assets, controller, owner) ==
    /\ Idle
    /\ assets # 0
    /\ totalSupply = 0 => assets >= MinBootstrapAssets
    /\ ~breached
    /\ ControllerOrOperator(sender, owner)
    /\ HasRoom(depositQueue, pendingDepositAssets, controller)
    /\ usdc' = usdc + assets
    /\ depositQueue' = Enqueued(depositQueue, pendingDepositAssets, controller)
    /\ pendingDepositAssets' = [pendingDepositAssets EXCEPT ![controller] = @ + assets]
    /\ totalPendingDepositAssets' = totalPendingDepositAssets + assets
    /\ UNCHANGED <<attestVars, claimDepositVars, refundVars, redeemVars, shareBalance,
                   totalSupply, grantVars, strikeVars>>

\* Mutant of requestRedeem: the shares stay with their owner.
requestRedeemUnescrowed(sender, shares, controller, owner) ==
    /\ Idle /\ shares # 0 /\ ~breached
    /\ ControllerOrOperator(sender, owner)
    /\ shares <= shareBalance[owner]
    /\ HasRoom(redeemQueue, pendingRedeemShares, controller)
    /\ redeemQueue' = Enqueued(redeemQueue, pendingRedeemShares, controller)
    /\ pendingRedeemShares' = [pendingRedeemShares EXCEPT ![controller] = @ + shares]
    /\ totalPendingRedeemShares' = totalPendingRedeemShares + shares
    /\ UNCHANGED <<attestVars, depositVars, claimRedeemVars, shareBalance, totalSupply, usdc,
                   grantVars, strikeVars>>

requestRedeem(sender, shares, controller, owner) ==
    /\ Idle
    /\ shares # 0
    /\ ~breached
    /\ IF ControllerOrOperator(sender, owner)
       THEN UNCHANGED allowance
       ELSE /\ allowance[<<owner, sender>>] >= shares
            /\ allowance' = [allowance EXCEPT ![<<owner, sender>>] = @ - shares]
    /\ shares <= shareBalance[owner]
    /\ HasRoom(redeemQueue, pendingRedeemShares, controller)
    /\ shareBalance' = [shareBalance EXCEPT ![owner] = @ - shares, ![Vault] = @ + shares]
    /\ redeemQueue' = Enqueued(redeemQueue, pendingRedeemShares, controller)
    /\ pendingRedeemShares' = [pendingRedeemShares EXCEPT ![controller] = @ + shares]
    /\ totalPendingRedeemShares' = totalPendingRedeemShares + shares
    /\ UNCHANGED <<attestVars, depositVars, claimRedeemVars, totalSupply, usdc, operators,
                   strikeVars>>

setOperator(controller, operator, approved) ==
    /\ Idle
    /\ operators' = IF approved THEN operators \cup {<<controller, operator>>}
                                ELSE operators \ {<<controller, operator>>}
    /\ UNCHANGED <<attestVars, depositVars, redeemVars, shareBalance, totalSupply, usdc,
                   allowance, strikeVars>>

-----------------------------------------------------------------------------
(* Claims                                                                  *)

\* Mutant of SplitClaim: the other side is rounded up, and not closed.
SplitClaimRoundUp(requested, ownTotal, counterTotal) ==
    <<requested, (requested * counterTotal + ownTotal - 1) \div ownTotal>>

\* <<own, counter>>: what a claim of requested takes from the two sides of a bucket.
SplitClaim(requested, ownTotal, counterTotal) ==
    LET counter == (requested * counterTotal) \div ownTotal
    IN  IF requested = ownTotal \/ counter = counterTotal
        THEN <<ownTotal, counterTotal>>
        ELSE <<requested, counter>>

\* The vault hands shares of its escrow to receiver; an ERC-20 transfer to itself is a no-op.
SendShares(receiver, shares) ==
    /\ shares <= shareBalance[Vault]
    /\ shareBalance' = IF receiver = Vault THEN shareBalance
                       ELSE [shareBalance EXCEPT ![Vault] = @ - shares,
                                                 ![receiver] = @ + shares]

SendUsdc(receiver, assets) ==
    /\ assets <= usdc
    /\ usdc' = IF receiver = Vault THEN usdc ELSE usdc - assets

ClaimDeposit(receiver, controller, assets, shares) ==
    /\ claimableDepositAssets' = [claimableDepositAssets EXCEPT ![controller] = @ - assets]
    /\ claimableDepositShares' = [claimableDepositShares EXCEPT ![controller] = @ - shares]
    /\ SendShares(receiver, shares)
    /\ UNCHANGED <<attestVars, requestDepositVars, refundVars, redeemVars, totalSupply, usdc,
                   grantVars, strikeVars>>

deposit(sender, requested, receiver, controller) ==
    /\ Idle
    /\ ControllerOrOperator(sender, controller)
    /\ requested # 0
    /\ requested <= claimableDepositAssets[controller]
    /\ LET split == SplitClaim(requested, claimableDepositAssets[controller],
                               claimableDepositShares[controller])
       IN  ClaimDeposit(receiver, controller, split[1], split[2])

mint(sender, requested, receiver, controller) ==
    /\ Idle
    /\ ControllerOrOperator(sender, controller)
    /\ requested # 0
    /\ requested <= claimableDepositShares[controller]
    /\ LET split == SplitClaim(requested, claimableDepositShares[controller],
                               claimableDepositAssets[controller])
       IN  ClaimDeposit(receiver, controller, split[2], split[1])

ClaimRedeem(receiver, controller, shares, assets) ==
    /\ claimableRedeemShares' = [claimableRedeemShares EXCEPT ![controller] = @ - shares]
    /\ claimableRedeemAssets' = [claimableRedeemAssets EXCEPT ![controller] = @ - assets]
    /\ totalClaimableRedeemAssets' = totalClaimableRedeemAssets - assets
    /\ SendUsdc(receiver, assets)
    /\ UNCHANGED <<attestVars, depositVars, requestRedeemVars, shareBalance, totalSupply,
                   grantVars, strikeVars>>

redeem(sender, requested, receiver, controller) ==
    /\ Idle
    /\ ControllerOrOperator(sender, controller)
    /\ requested # 0
    /\ requested <= claimableRedeemShares[controller]
    /\ LET split == SplitClaim(requested, claimableRedeemShares[controller],
                               claimableRedeemAssets[controller])
       IN  ClaimRedeem(receiver, controller, split[1], split[2])

withdraw(sender, requested, receiver, controller) ==
    /\ Idle
    /\ ControllerOrOperator(sender, controller)
    /\ requested # 0
    /\ requested <= claimableRedeemAssets[controller]
    /\ LET split == SplitClaim(requested, claimableRedeemAssets[controller],
                               claimableRedeemShares[controller])
       IN  ClaimRedeem(receiver, controller, split[2], split[1])

\* Mutant of claimDepositRefund: the refund stays on the controller's book.
claimDepositRefundAgain(sender, receiver, controller) ==
    /\ Idle
    /\ ControllerOrOperator(sender, controller)
    /\ refundableDepositAssets[controller] # 0
    /\ totalRefundableDepositAssets' =
          totalRefundableDepositAssets - refundableDepositAssets[controller]
    /\ SendUsdc(receiver, refundableDepositAssets[controller])
    /\ UNCHANGED <<attestVars, requestDepositVars, claimDepositVars, refundableDepositAssets,
                   redeemVars, shareBalance, totalSupply, grantVars, strikeVars>>

claimDepositRefund(sender, receiver, controller) ==
    /\ Idle
    /\ ControllerOrOperator(sender, controller)
    /\ refundableDepositAssets[controller] # 0
    /\ refundableDepositAssets' = [refundableDepositAssets EXCEPT ![controller] = 0]
    /\ totalRefundableDepositAssets' =
          totalRefundableDepositAssets - refundableDepositAssets[controller]
    /\ SendUsdc(receiver, refundableDepositAssets[controller])
    /\ UNCHANGED <<attestVars, requestDepositVars, claimDepositVars, redeemVars,
                   shareBalance, totalSupply, grantVars, strikeVars>>

-----------------------------------------------------------------------------
(* The strike: handleSignedEnvelope                                        *)

\* Mutant of handleSignedEnvelope: an envelope may land again.
handleSignedEnvelopeAgain(eventId, attestedNav, inputsBlock, breachFlags) ==
    /\ Idle
    /\ inputsBlock <= block
    /\ inputsBlock > lastInputsBlock
    /\ processed' = processed \cup {eventId}
    /\ nav' = attestedNav
    /\ lastInputsBlock' = inputsBlock
    /\ updateCount' = updateCount + 1
    /\ breached' = breachFlags
    /\ phase' = "deposits"
    /\ UNCHANGED <<block, depositVars, redeemVars, shareBalance, totalSupply, usdc,
                   grantVars, stepsLeft, saved, lastPlan>>

(***************************************************************************)
(* An envelope for this vault that the operator quorum signed.  Envelopes  *)
(* are delivered in any order, late, and any number of times: nothing but  *)
(* the guards below relates one to the next.  A refused envelope reverts.  *)
(***************************************************************************)
handleSignedEnvelope(eventId, attestedNav, inputsBlock, breachFlags) ==
    /\ Idle
    /\ eventId \notin processed
    /\ inputsBlock <= block
    /\ inputsBlock > lastInputsBlock
    /\ processed' = processed \cup {eventId}
    /\ nav' = attestedNav
    /\ lastInputsBlock' = inputsBlock
    /\ updateCount' = updateCount + 1
    /\ breached' = breachFlags
    /\ phase' = "deposits"
    /\ UNCHANGED <<block, depositVars, redeemVars, shareBalance, totalSupply, usdc,
                   grantVars, stepsLeft, saved, lastPlan>>

(* _fulfillDeposits: the head of the queue is settled and dropped.  The    *)
(* code deletes the queue after its loop; nothing can queue meanwhile.     *)

\* Mutant of SharesFor: a deposit buys one share too many when it does not divide.
SharesForRoundUp(assets) ==
    IF totalSupply = 0 THEN assets
    ELSE IF nav = 0 THEN 0
    ELSE (assets * totalSupply + nav - 1) \div nav

SharesFor(assets) ==
    IF totalSupply = 0 THEN assets
    ELSE IF nav = 0 THEN 0
    ELSE (assets * totalSupply) \div nav

Unpriceable(assets) == totalSupply # 0 /\ SharesFor(assets) = 0

DequeueDeposit(controller) ==
    /\ depositQueue' = Tail(depositQueue)
    /\ pendingDepositAssets' = [pendingDepositAssets EXCEPT ![controller] = 0]
    /\ totalPendingDepositAssets' =
          totalPendingDepositAssets - pendingDepositAssets[controller]

\* Mutant of RefundDeposit: the aggregate of the refunds is forgotten.
RefundDepositNoTotal ==
    /\ phase = "deposits" /\ depositQueue # <<>>
    /\ LET controller == Head(depositQueue)
           assets == pendingDepositAssets[controller]
       IN  /\ Unpriceable(assets)
           /\ DequeueDeposit(controller)
           /\ refundableDepositAssets' = [refundableDepositAssets EXCEPT ![controller] = @ + assets]
    /\ UNCHANGED <<attestVars, claimDepositVars, totalRefundableDepositAssets, redeemVars,
                   shareBalance, totalSupply, usdc, grantVars, strikeVars>>

RefundDeposit ==
    /\ phase = "deposits" /\ depositQueue # <<>>
    /\ LET controller == Head(depositQueue)
           assets == pendingDepositAssets[controller]
       IN  /\ Unpriceable(assets)
           /\ DequeueDeposit(controller)
           /\ refundableDepositAssets' = [refundableDepositAssets EXCEPT ![controller] = @ + assets]
           /\ totalRefundableDepositAssets' = totalRefundableDepositAssets + assets
    /\ UNCHANGED <<attestVars, claimDepositVars, redeemVars, shareBalance, totalSupply, usdc,
                   grantVars, strikeVars>>

FulfillDeposit ==
    /\ phase = "deposits" /\ depositQueue # <<>>
    /\ LET controller == Head(depositQueue)
           assets == pendingDepositAssets[controller]
           shares == SharesFor(assets)
       IN  /\ ~Unpriceable(assets)
           /\ DequeueDeposit(controller)
           /\ nav' = nav + assets
           /\ claimableDepositAssets' = [claimableDepositAssets EXCEPT ![controller] = @ + assets]
           /\ claimableDepositShares' = [claimableDepositShares EXCEPT ![controller] = @ + shares]
           /\ shareBalance' = [shareBalance EXCEPT ![Vault] = @ + shares]
           /\ totalSupply' = totalSupply + shares
    /\ UNCHANGED <<block, lastInputsBlock, updateCount, processed, breached, refundVars,
                   redeemVars, usdc, grantVars, strikeVars>>

(* executePlanSelf, a self-call: what it writes is undone when it reverts. *)

PlanArrayMismatch ==
    /\ phase = "deposits" /\ depositQueue = <<>>
    /\ phase' = "idle"
    /\ lastPlan' = "rejected"
    /\ UNCHANGED <<attestVars, depositVars, redeemVars, shareBalance, totalSupply, usdc,
                   grantVars, stepsLeft, saved>>

\* Mutant of EnterPlan: the plan starts with deposit requests left to settle.
EnterPlanEarly(steps) ==
    /\ phase = "deposits"
    /\ phase' = "plan"
    /\ stepsLeft' = steps
    /\ saved' = CurrentSnapshot
    /\ UNCHANGED <<attestVars, depositVars, redeemVars, shareBalance, totalSupply, usdc,
                   grantVars, lastPlan>>

EnterPlan(steps) ==
    /\ phase = "deposits" /\ depositQueue = <<>>
    /\ phase' = "plan"
    /\ stepsLeft' = steps
    /\ saved' = CurrentSnapshot
    /\ UNCHANGED <<attestVars, depositVars, redeemVars, shareBalance, totalSupply, usdc,
                   grantVars, lastPlan>>

\* A whitelisted step whose call succeeded; no floor is checked between steps.
PlanStep(balance) ==
    /\ phase = "plan" /\ stepsLeft > 0
    /\ usdc' = balance
    /\ stepsLeft' = stepsLeft - 1
    /\ UNCHANGED <<attestVars, depositVars, redeemVars, shareBalance, totalSupply,
                   grantVars, phase, saved, lastPlan>>

\* Mutant of Rollback: the aggregate of booked redemptions stays.
RollbackKeepsTotal ==
    /\ nav' = saved.nav
    /\ usdc' = saved.usdc
    /\ totalSupply' = saved.totalSupply
    /\ shareBalance' = saved.shareBalance
    /\ pendingRedeemShares' = saved.pendingRedeemShares
    /\ claimableRedeemShares' = saved.claimableRedeemShares
    /\ claimableRedeemAssets' = saved.claimableRedeemAssets
    /\ redeemQueue' = saved.redeemQueue
    /\ totalPendingRedeemShares' = saved.totalPendingRedeemShares
    /\ phase' = "idle" /\ stepsLeft' = 0 /\ saved' = NoSnapshot /\ lastPlan' = "rejected"
    /\ UNCHANGED <<block, lastInputsBlock, updateCount, processed, breached, depositVars,
                   totalClaimableRedeemAssets, grantVars>>

\* The self-call reverts: PlanRejected.
Rollback ==
    /\ nav' = saved.nav
    /\ usdc' = saved.usdc
    /\ totalSupply' = saved.totalSupply
    /\ shareBalance' = saved.shareBalance
    /\ pendingRedeemShares' = saved.pendingRedeemShares
    /\ claimableRedeemShares' = saved.claimableRedeemShares
    /\ claimableRedeemAssets' = saved.claimableRedeemAssets
    /\ redeemQueue' = saved.redeemQueue
    /\ totalPendingRedeemShares' = saved.totalPendingRedeemShares
    /\ totalClaimableRedeemAssets' = saved.totalClaimableRedeemAssets
    /\ phase' = "idle" /\ stepsLeft' = 0 /\ saved' = NoSnapshot /\ lastPlan' = "rejected"
    /\ UNCHANGED <<block, lastInputsBlock, updateCount, processed, breached, depositVars,
                   grantVars>>

\* A step outside the whitelist, or whose call failed.
PlanStepReverts ==
    /\ phase = "plan" /\ stepsLeft > 0
    /\ Rollback

PlanStepsDone ==
    /\ phase = "plan" /\ stepsLeft = 0
    /\ phase' = "redeems"
    /\ UNCHANGED <<attestVars, depositVars, redeemVars, shareBalance, totalSupply, usdc,
                   grantVars, stepsLeft, saved, lastPlan>>

\* _fulfillRedeems, one controller; the queue is consumed as in FulfillDeposit.
FulfillRedeem ==
    /\ phase = "redeems" /\ redeemQueue # <<>>
    /\ LET controller == Head(redeemQueue)
           shares == pendingRedeemShares[controller]
           assets == (shares * nav) \div totalSupply
       IN  /\ redeemQueue' = Tail(redeemQueue)
           /\ pendingRedeemShares' = [pendingRedeemShares EXCEPT ![controller] = 0]
           /\ totalPendingRedeemShares' = totalPendingRedeemShares - shares
           /\ claimableRedeemShares' = [claimableRedeemShares EXCEPT ![controller] = @ + shares]
           /\ claimableRedeemAssets' = [claimableRedeemAssets EXCEPT ![controller] = @ + assets]
           /\ totalClaimableRedeemAssets' = totalClaimableRedeemAssets + assets
           /\ shareBalance' = [shareBalance EXCEPT ![Vault] = @ - shares]
           /\ totalSupply' = totalSupply - shares
           /\ nav' = nav - assets
    /\ UNCHANGED <<block, lastInputsBlock, updateCount, processed, breached, depositVars,
                   usdc, grantVars, strikeVars>>

\* Mutant of PlanExecuted: the escrow floor is not checked after the plan.
PlanExecutedUnchecked ==
    /\ phase = "redeems" /\ redeemQueue = <<>>
    /\ phase' = "idle" /\ saved' = NoSnapshot /\ lastPlan' = "executed"
    /\ UNCHANGED <<attestVars, depositVars, redeemVars, shareBalance, totalSupply, usdc,
                   grantVars, stepsLeft>>

PlanExecuted ==
    /\ phase = "redeems" /\ redeemQueue = <<>>
    /\ usdc >= EscrowFloorAmount
    /\ phase' = "idle" /\ saved' = NoSnapshot /\ lastPlan' = "executed"
    /\ UNCHANGED <<attestVars, depositVars, redeemVars, shareBalance, totalSupply, usdc,
                   grantVars, stepsLeft>>

EscrowFloorBreached ==
    /\ phase = "redeems" /\ redeemQueue = <<>>
    /\ usdc < EscrowFloorAmount
    /\ Rollback

-----------------------------------------------------------------------------
(* The strategist                                                          *)

StrategistCall(balance) ==
    /\ usdc' = balance
    /\ UNCHANGED <<attestVars, depositVars, redeemVars, shareBalance, totalSupply,
                   grantVars, strikeVars>>

\* Mutant of execute: the escrow floor leaves out the refunds.
executeSpendsRefunds(balance) ==
    /\ Idle
    /\ balance >= totalPendingDepositAssets + totalClaimableRedeemAssets
    /\ StrategistCall(balance)

execute(balance) ==
    /\ Idle
    /\ balance >= EscrowFloorAmount
    /\ StrategistCall(balance)

emergencyExecute(balance) ==
    /\ Idle
    /\ usdc < EscrowFloorAmount
    /\ StrategistCall(balance)

-----------------------------------------------------------------------------
(* The chain and the two tokens, seen from the vault                       *)

NextBlock ==
    /\ Idle
    /\ block < MaxBlock
    /\ block' = block + 1
    /\ UNCHANGED <<nav, lastInputsBlock, updateCount, processed, breached, depositVars,
                   redeemVars, shareBalance, totalSupply, usdc, grantVars, strikeVars>>

\* ERC-20 transfer of shares between holders; to the vault is allowed.
transfer(from, to, shares) ==
    /\ Idle
    /\ from # to
    /\ shares <= shareBalance[from]
    /\ shareBalance' = [shareBalance EXCEPT ![from] = @ - shares, ![to] = @ + shares]
    /\ UNCHANGED <<attestVars, depositVars, redeemVars, totalSupply, usdc, grantVars,
                   strikeVars>>

approve(owner, spender, shares) ==
    /\ Idle
    /\ allowance' = [allowance EXCEPT ![<<owner, spender>>] = shares]
    /\ UNCHANGED <<attestVars, depositVars, redeemVars, shareBalance, totalSupply, usdc,
                   operators, strikeVars>>

\* USDC sent to the vault outside any request.
Donate(assets) ==
    /\ Idle
    /\ usdc' = usdc + assets
    /\ UNCHANGED <<attestVars, depositVars, redeemVars, shareBalance, totalSupply, grantVars,
                   strikeVars>>

\* USDC leaves the vault with no call of the vault, as the tests' burn does.
TokenBurn(balance) ==
    /\ Idle
    /\ TokenMayBurn
    /\ balance < usdc
    /\ usdc' = balance
    /\ UNCHANGED <<attestVars, depositVars, redeemVars, shareBalance, totalSupply, grantVars,
                   strikeVars>>

-----------------------------------------------------------------------------

Request ==
    \E sender, controller, owner \in Accounts :
        \/ \E assets \in Amounts :
              /\ usdc + assets <= MaxUsdc /\ EscrowFloorAmount + assets <= MaxUsdc
              /\ requestDeposit(sender, assets, controller, owner)
        \/ \E shares \in 1 .. shareBalance[owner] :
              requestRedeem(sender, shares, controller, owner)

Claim ==
    \E sender, controller \in Accounts, receiver \in Holders :
        \/ \E x \in 1 .. claimableDepositAssets[controller] :
              deposit(sender, x, receiver, controller)
        \/ \E x \in 1 .. claimableDepositShares[controller] :
              mint(sender, x, receiver, controller)
        \/ \E x \in 1 .. claimableRedeemShares[controller] :
              redeem(sender, x, receiver, controller)
        \/ \E x \in 1 .. claimableRedeemAssets[controller] :
              withdraw(sender, x, receiver, controller)
        \/ claimDepositRefund(sender, receiver, controller)

Strike ==
    \/ \E eventId \in EventIds, attestedNav \in Navs, inputsBlock \in 0 .. MaxBlock,
          breachFlags \in BOOLEAN :
          handleSignedEnvelope(eventId, attestedNav, inputsBlock, breachFlags)
    \/ RefundDeposit
    \/ FulfillDeposit
    \/ PlanArrayMismatch
    \/ \E steps \in 0 .. MaxPlanSteps : EnterPlan(steps)
    \/ \E balance \in Balances : PlanStep(balance)
    \/ PlanStepReverts
    \/ PlanStepsDone
    \/ FulfillRedeem
    \/ PlanExecuted
    \/ EscrowFloorBreached

Strategist == \E balance \in Balances : execute(balance) \/ emergencyExecute(balance)

Delegation ==
    \E operator \in Operators : \E owner \in Accounts \ {operator} :
        \/ \E approved \in BOOLEAN : setOperator(owner, operator, approved)
        \/ \E shares \in Amounts \cup {0} : approve(owner, operator, shares)

Environment ==
    \/ NextBlock
    \/ \E from \in Accounts, to \in Holders :
          \E shares \in 1 .. shareBalance[from] : transfer(from, to, shares)
    \/ \E assets \in Amounts : usdc + assets <= MaxUsdc /\ Donate(assets)
    \/ \E balance \in Balances : TokenBurn(balance)

Next == Request \/ Claim \/ Strike \/ Strategist \/ Delegation \/ Environment

Spec == Init /\ [][Next]_vars

-----------------------------------------------------------------------------
(* Properties                                                              *)

AttestTypes ==
    /\ block \in Nat /\ nav \in Nat /\ lastInputsBlock \in Nat /\ updateCount \in Nat
    /\ processed \subseteq EventIds /\ breached \in BOOLEAN

DepositTypes ==
    /\ pendingDepositAssets \in Ledger /\ depositQueue \in Seq(Accounts)
    /\ totalPendingDepositAssets \in Nat
    /\ claimableDepositAssets \in Ledger /\ claimableDepositShares \in Ledger
    /\ refundableDepositAssets \in Ledger /\ totalRefundableDepositAssets \in Nat

RedeemTypes ==
    /\ pendingRedeemShares \in Ledger /\ redeemQueue \in Seq(Accounts)
    /\ totalPendingRedeemShares \in Nat
    /\ claimableRedeemShares \in Ledger /\ claimableRedeemAssets \in Ledger
    /\ totalClaimableRedeemAssets \in Nat

TokenTypes ==
    /\ shareBalance \in [Holders -> Nat] /\ totalSupply \in Nat /\ usdc \in Nat

GrantTypes ==
    /\ operators \subseteq Accounts \X Accounts
    /\ allowance \in [Accounts \X Accounts -> Nat]

StrikeTypes ==
    /\ phase \in {"idle", "deposits", "plan", "redeems"}
    /\ stepsLeft \in Nat /\ saved \in Snapshot
    /\ lastPlan \in {"none", "executed", "rejected"}

(***************************************************************************)
(* Types.  Every amount is a natural number at every step: none of the     *)
(* code's subtractions underflows, so no claim, refund or settlement       *)
(* reverts on checked arithmetic.                                          *)
(***************************************************************************)
TypeOK == AttestTypes /\ DepositTypes /\ RedeemTypes /\ TokenTypes /\ GrantTypes /\ StrikeTypes

(***************************************************************************)
(* Each strike counted is another envelope, and values the vault at a      *)
(* later block than the one before, none from the future: however          *)
(* envelopes are repeated, held back or reordered, there are no more       *)
(* strikes than blocks to value.                                           *)
(***************************************************************************)
StrikesInOrder ==
    /\ updateCount = Cardinality(processed)
    /\ updateCount <= lastInputsBlock /\ lastInputsBlock <= block

(***************************************************************************)
(* Outside a plan the vault holds at least the USDC it owes: pending       *)
(* deposits, booked redemptions and refunds.  No strike, claim, refund,    *)
(* execute or emergencyExecute, in any order, leaves it short, as long as  *)
(* the token itself does not take USDC away.                               *)
(***************************************************************************)
EscrowFloor ==
    ~TokenMayBurn /\ phase \in {"idle", "deposits"} => usdc >= EscrowFloorAmount

(***************************************************************************)
(* When the token did take USDC away, the vault's own functions never make *)
(* the gap to the floor wider: not a claim, a refund, execute, nor a whole *)
(* strike, executed or rejected.  Only emergencyExecute may, as it runs    *)
(* without a floor check.                                                  *)
(***************************************************************************)
Shortfall ==
    LET balance  == IF InPlan THEN saved.usdc ELSE usdc
        reserved == IF InPlan THEN saved.totalClaimableRedeemAssets ELSE totalClaimableRedeemAssets
        floor    == totalPendingDepositAssets + reserved + totalRefundableDepositAssets
    IN  IF balance < floor THEN floor - balance ELSE 0

ShortfallNeverGrows ==
    [][Shortfall' <= Shortfall \/ \E balance \in Balances : TokenBurn(balance) \/ emergencyExecute(balance)]_vars

(***************************************************************************)
(* The aggregate counters the escrow floor is built from are the sums of   *)
(* the per-controller books, through every partial settlement, rollback    *)
(* and rounded claim.                                                      *)
(***************************************************************************)
BooksBalance ==
    /\ totalPendingDepositAssets = SumFunction(pendingDepositAssets)
    /\ totalRefundableDepositAssets = SumFunction(refundableDepositAssets)
    /\ totalPendingRedeemShares = SumFunction(pendingRedeemShares)
    /\ totalClaimableRedeemAssets = SumFunction(claimableRedeemAssets)

(***************************************************************************)
(* The share supply is what holders have, and the shares the vault holds   *)
(* cover every queued redemption (burnt later) and every unclaimed deposit *)
(* (handed out later), whatever is sent to the vault directly.             *)
(***************************************************************************)
ShareEscrow ==
    /\ totalSupply = SumFunction(shareBalance)
    /\ shareBalance[Vault] >= totalPendingRedeemShares + SumFunction(claimableDepositShares)

(***************************************************************************)
(* A controller is queued, once, exactly while it has something pending:   *)
(* no request is lost by a settlement, none is settled twice, and the      *)
(* queue-length cap counts controllers.                                    *)
(***************************************************************************)
QueuedOnce(queue, pending) ==
    /\ \A i, j \in DOMAIN queue : queue[i] = queue[j] => i = j
    /\ \A c \in Accounts : pending[c] > 0 <=> \E i \in DOMAIN queue : queue[i] = c

QueuesMatchPending ==
    /\ QueuedOnce(depositQueue, pendingDepositAssets)
    /\ QueuedOnce(redeemQueue, pendingRedeemShares)

(***************************************************************************)
(* A claim that empties one side of a bucket empties the other (_splitClaim*)
(* says so): no phantom maxDeposit or maxMint, and no reserved USDC left   *)
(* without the shares that claim it.  A redemption may be priced at zero   *)
(* assets, so the last implication is one way only.                        *)
(***************************************************************************)
BucketsCloseTogether ==
    \A c \in Accounts :
        /\ claimableDepositAssets[c] = 0 <=> claimableDepositShares[c] = 0
        /\ claimableRedeemShares[c] = 0 => claimableRedeemAssets[c] = 0

(***************************************************************************)
(* A deposit that bootstraps the share price is never dust: the minimum is *)
(* checked against the supply at request time, and still holds for every   *)
(* request that meets a zero supply when it settles.                       *)
(***************************************************************************)
BootstrapNeverDust ==
    totalSupply = 0 =>
        \A c \in Accounts :
            pendingDepositAssets[c] # 0 => pendingDepositAssets[c] >= MinBootstrapAssets

(***************************************************************************)
(* Settling a request never lowers the NAV per share of the others, for    *)
(* any attested NAV and at any place in the queue: rounding in             *)
(* _fulfillDeposits and _fulfillRedeems favours the vault.                 *)
(***************************************************************************)
NoDilution ==
    [][totalSupply > 0 /\ (FulfillDeposit \/ FulfillRedeem) =>
          nav' * totalSupply >= nav * totalSupply']_vars

(***************************************************************************)
(* When a strike ends no deposit request is left, and no redemption        *)
(* request either if its plan was executed.                                *)
(***************************************************************************)
StrikeSettles ==
    [][phase # "idle" /\ phase' = "idle" =>
          /\ depositQueue' = <<>> /\ totalPendingDepositAssets' = 0
          /\ lastPlan' = "executed" => redeemQueue' = <<>> /\ totalPendingRedeemShares' = 0]_vars

=============================================================================
