------------------------------ MODULE Subgraph ------------------------------
(***************************************************************************)
(* packages/subgraph: the entities a Graph node folds out of the vault's   *)
(* events, next to the vault that emits them.  A transaction's events are  *)
(* gathered in "logs" and reach the handlers, in order, when it ends; a    *)
(* plan that reverts takes back the events it emitted.                     *)
(*                                                                         *)
(* Entities are those of the block the node has indexed: how far it lags   *)
(* behind the chain is left out.  Of the immutable rows, the strikes and   *)
(* the sum of the refunds are kept; handleExecuted and handleDeleveraged   *)
(* write rows only, and are left out.                                      *)
(***************************************************************************)
EXTENDS PriimeVault, SequencesExt

CONSTANTS
    BlocksPerDay,   \* blocks in one day bucket
    MaxIndexed      \* bound: USDC ever requested for deposit

ASSUME SubgraphAssumption ==
    BlocksPerDay \in Nat \ {0} /\ MaxIndexed \in Nat /\ MaxBlock # 0

VARIABLES
    logs,           \* events of the transaction in flight
    planLogs,       \* how many of them precede executePlanSelf
    index,          \* the Vault entity
    daily,          \* VaultDailyMetric by day
    rows            \* Strike rows, and the assets of the DepositRefunded rows

indexVars == <<logs, planLogs, index, daily, rows>>
allVars == <<vars, indexVars>>

Today == block \div BlocksPerDay
Days == {b \div BlocksPerDay : b \in 1 .. MaxBlock}

NewVault ==
    [totalShares |-> 0, totalDepositRequested |-> 0, totalDepositFulfilled |-> 0,
     totalRedeemRequested |-> 0, totalRedeemFulfilled |-> 0,
     lastNav |-> 0, lastInputsBlock |-> 0, updateCount |-> 0, breachFlags |-> FALSE]

NewDay ==
    [strikeCount |-> 0, navEnd |-> 0, navMin |-> 0, navMax |-> 0, depositRequests |-> 0,
     redeemRequests |-> 0, depositsFulfilled |-> 0, redeemsFulfilled |-> 0,
     planExecuted |-> 0, planRejected |-> 0]

InitIndexed ==
    /\ Init
    /\ logs = <<>> /\ planLogs = 0
    /\ index = NewVault
    /\ daily = [d \in Days |-> NewDay]
    /\ rows = [strikes |-> <<>>, refunded |-> 0]

-----------------------------------------------------------------------------
(* Handlers.  "e" is what the node stores: [vault, day, rows], today's     *)
(* metric being the only one a handler can reach.                          *)

handleDepositRequest(e, event) ==
    [e EXCEPT !.vault.totalDepositRequested = @ + event.assets,
              !.day.depositRequests = @ + 1]

handleRedeemRequest(e, event) ==
    [e EXCEPT !.vault.totalRedeemRequested = @ + event.shares,
              !.day.redeemRequests = @ + 1]

handleDepositRequestFulfilled(e, event) ==
    [e EXCEPT !.vault.totalDepositFulfilled = @ + event.assets,
              !.vault.totalShares = @ + event.shares,
              !.day.depositsFulfilled = @ + event.assets]

Burnt(total, shares) == IF total >= shares THEN total - shares ELSE total

handleRedeemRequestFulfilled(e, event) ==
    [e EXCEPT !.vault.totalRedeemFulfilled = @ + event.assets,
              !.vault.totalShares = Burnt(@, event.shares),
              !.day.redeemsFulfilled = @ + event.assets]

handleDepositRequestRefunded(e, event) == [e EXCEPT !.rows.refunded = @ + event.assets]

\* Mutant of Lowest: a day starts at its first strike, wherever it lies.
LowestOrZero(navMin, attested) == IF attested < navMin THEN attested ELSE navMin

Lowest(navMin, attested) == IF navMin = 0 \/ attested < navMin THEN attested ELSE navMin

handleNavUpdated(e, event) ==
    [vault |-> [e.vault EXCEPT !.lastNav = event.nav, !.lastInputsBlock = event.inputsBlock,
                               !.updateCount = event.updateCount,
                               !.breachFlags = event.breachFlags],
     day   |-> [e.day EXCEPT !.strikeCount = @ + 1, !.navEnd = event.nav,
                             !.navMin = Lowest(@, event.nav),
                             !.navMax = IF event.nav > @ THEN event.nav ELSE @],
     rows  |-> [e.rows EXCEPT !.strikes = Append(@, [nav |-> event.nav, day |-> event.day])]]

handlePlanExecuted(e) == [e EXCEPT !.day.planExecuted = @ + 1]

handlePlanRejected(e) == [e EXCEPT !.day.planRejected = @ + 1]

Handle(e, event) ==
    CASE event.type = "DepositRequest"          -> handleDepositRequest(e, event)
      [] event.type = "RedeemRequest"           -> handleRedeemRequest(e, event)
      [] event.type = "DepositRequestFulfilled" -> handleDepositRequestFulfilled(e, event)
      [] event.type = "DepositRequestRefunded"  -> handleDepositRequestRefunded(e, event)
      [] event.type = "NavUpdated"              -> handleNavUpdated(e, event)
      [] event.type = "RedeemRequestFulfilled"  -> handleRedeemRequestFulfilled(e, event)
      [] event.type = "PlanExecuted"            -> handlePlanExecuted(e)
      [] event.type = "PlanRejected"            -> handlePlanRejected(e)

\* A transaction ends, having emitted these events.
Mined(events) ==
    LET after == FoldLeft(Handle, [vault |-> index, day |-> daily[Today], rows |-> rows], events)
    IN  /\ index' = after.vault
        /\ daily' = [daily EXCEPT ![Today] = after.day]
        /\ rows' = after.rows
        /\ logs' = <<>> /\ planLogs' = 0

Emit(event) == logs' = Append(logs, event) /\ UNCHANGED <<planLogs, index, daily, rows>>

Quiet == UNCHANGED indexVars

-----------------------------------------------------------------------------
(* The vault's transactions and the events each of them emits              *)

IndexedRequest ==
    \E sender, controller, owner \in Accounts :
        \/ \E assets \in Amounts :
              /\ usdc + assets <= MaxUsdc /\ EscrowFloorAmount + assets <= MaxUsdc
              /\ index.totalDepositRequested + assets <= MaxIndexed
              /\ requestDeposit(sender, assets, controller, owner)
              /\ Mined(<<[type |-> "DepositRequest", assets |-> assets]>>)
        \/ \E shares \in 1 .. shareBalance[owner] :
              /\ requestRedeem(sender, shares, controller, owner)
              /\ Mined(<<[type |-> "RedeemRequest", shares |-> shares]>>)

EmitRefunded ==
    /\ RefundDeposit
    /\ Emit([type |-> "DepositRequestRefunded",
             assets |-> pendingDepositAssets[Head(depositQueue)]])

EmitDepositFulfilled ==
    /\ FulfillDeposit
    /\ LET assets == pendingDepositAssets[Head(depositQueue)]
       IN  Emit([type |-> "DepositRequestFulfilled", assets |-> assets,
                 shares |-> SharesFor(assets)])

\* The NAV the strike attested: what nav was before this strike's deposits were folded in.
StruckNav ==
    LET folded(event) ==
            IF event.type = "DepositRequestFulfilled" THEN event.assets ELSE 0
    IN  nav - SumFunction([i \in DOMAIN logs |-> folded(logs[i])])

NavUpdated ==
    [type |-> "NavUpdated", nav |-> StruckNav, inputsBlock |-> lastInputsBlock,
     updateCount |-> updateCount, breachFlags |-> breached, day |-> Today]

EmitNavUpdated(steps) ==
    /\ EnterPlan(steps)
    /\ logs' = Append(logs, NavUpdated)
    /\ planLogs' = Len(logs) + 1
    /\ UNCHANGED <<index, daily, rows>>

EmitArrayMismatch ==
    /\ PlanArrayMismatch
    /\ Mined(logs \o <<NavUpdated, [type |-> "PlanRejected"]>>)

EmitRedeemFulfilled ==
    /\ FulfillRedeem
    /\ LET controller == Head(redeemQueue)
       IN  Emit([type |-> "RedeemRequestFulfilled", shares |-> pendingRedeemShares[controller],
                 assets |-> claimableRedeemAssets'[controller]
                               - claimableRedeemAssets[controller]])

EmitPlanExecuted == PlanExecuted /\ Mined(Append(logs, [type |-> "PlanExecuted"]))

\* Mutant of CommittedLogs: the events of the reverted plan are delivered too.
AllLogs == logs

CommittedLogs == SubSeq(logs, 1, planLogs)

EmitPlanRejected ==
    /\ PlanStepReverts \/ EscrowFloorBreached
    /\ Mined(Append(CommittedLogs, [type |-> "PlanRejected"]))

IndexedStrike ==
    \/ \E eventId \in EventIds, attestedNav \in Navs, inputsBlock \in 0 .. MaxBlock,
          breachFlags \in BOOLEAN :
          handleSignedEnvelope(eventId, attestedNav, inputsBlock, breachFlags) /\ Quiet
    \/ EmitRefunded
    \/ EmitDepositFulfilled
    \/ EmitArrayMismatch
    \/ \E steps \in 0 .. MaxPlanSteps : EmitNavUpdated(steps)
    \/ \E balance \in Balances : PlanStep(balance) /\ Quiet
    \/ PlanStepsDone /\ Quiet
    \/ EmitRedeemFulfilled
    \/ EmitPlanExecuted
    \/ EmitPlanRejected

NextIndexed ==
    \/ IndexedRequest
    \/ IndexedStrike
    \/ (Claim \/ Strategist \/ Delegation \/ Environment) /\ Quiet

SpecIndexed == InitIndexed /\ [][NextIndexed]_allVars

-----------------------------------------------------------------------------
(* Properties                                                              *)

(***************************************************************************)
(* Whenever no transaction is in flight, the Vault entity accounts for the *)
(* vault's books.  Its totalShares is the share supply: no settlement is   *)
(* counted twice, none of a reverted plan is counted, and the guard of     *)
(* handleRedeemRequestFulfilled never skips a burn.  And what is requested *)
(* but neither fulfilled nor refunded is exactly what is pending:          *)
(* totalDepositRequested never comes back down for a refund, so a reader   *)
(* must also subtract the refund rows.                                     *)
(***************************************************************************)
IndexedBooks ==
    Idle =>
        /\ index.totalShares = totalSupply
        /\ index.totalDepositRequested
              = index.totalDepositFulfilled + rows.refunded + totalPendingDepositAssets

\* The lowest NAV among the strikes of day d after its last zero one, 0 when there is none.
LowestStruck(strikes, d) ==
    LET struck == {i \in DOMAIN strikes : strikes[i].day = d}
        navs   == {strikes[i].nav : i \in
                     {j \in struck : \A k \in struck : k >= j => strikes[k].nav # 0}}
    IN  IF navs = {} THEN 0 ELSE Min(navs)

(***************************************************************************)
(* A day's navMin is the lowest NAV attested that day after the last zero  *)
(* one: zero stands for "no strike yet", so a strike at zero is forgotten  *)
(* by the next one, and navMin is the day's true minimum only when no      *)
(* strike of the day attested zero.                                        *)
(***************************************************************************)
DailyLow == \A d \in Days : daily[d].navMin = LowestStruck(rows.strikes, d)

=============================================================================
