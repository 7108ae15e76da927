------------------------- MODULE PriimeVault_proofs -------------------------
(***************************************************************************)
(* Proofs about PriimeVault, for every set of accounts and every value of  *)
(* the other constants.                                                    *)
(***************************************************************************)
EXTENDS PriimeVault, LedgerSums

(***************************************************************************)
(* The inductive invariant.  Amounts stay natural because every aggregate  *)
(* counter is the sum of its book, the vault's share balance covers what   *)
(* it owes in shares, and the supply is the sum of the balances.  A plan   *)
(* in flight may be rolled back, so everything the rollback restores must  *)
(* hold of the snapshot as well: the parts the plan can write are          *)
(* predicates of a snapshot, asserted of the present one and of the saved  *)
(* one.                                                                    *)
(***************************************************************************)
DepositBooks ==
    /\ IsSum(Accounts, pendingDepositAssets, totalPendingDepositAssets)
    /\ IsSum(Accounts, refundableDepositAssets, totalRefundableDepositAssets)
    /\ QueuedOnce(depositQueue, pendingDepositAssets)

RedeemBooks(s) ==
    /\ IsSum(Accounts, s.pendingRedeemShares, s.totalPendingRedeemShares)
    /\ IsSum(Accounts, s.claimableRedeemAssets, s.totalClaimableRedeemAssets)
    /\ QueuedOnce(s.redeemQueue, s.pendingRedeemShares)

\* The vault's shares cover the queued redemptions and the unclaimed deposits.
ShareBooks(s, owedShares) ==
    /\ IsSum(Holders, s.shareBalance, s.totalSupply)
    /\ \E owed \in Nat : /\ IsSum(Accounts, owedShares, owed)
                         /\ s.shareBalance[Vault] >= s.totalPendingRedeemShares + owed

CoversFloor(balance, reserved) ==
    ~TokenMayBurn => balance >= totalPendingDepositAssets + reserved + totalRefundableDepositAssets

Floors ==
    IF InPlan THEN CoversFloor(saved.usdc, saved.totalClaimableRedeemAssets)
              ELSE CoversFloor(usdc, totalClaimableRedeemAssets)

IInv ==
    /\ TypeOK
    /\ DepositBooks
    /\ RedeemBooks(CurrentSnapshot)
    /\ ShareBooks(CurrentSnapshot, claimableDepositShares)
    /\ InPlan => /\ RedeemBooks(saved)
                 /\ ShareBooks(saved, claimableDepositShares)
                 /\ depositQueue = <<>>
    /\ Floors

-----------------------------------------------------------------------------
(* Lemmas                                                                  *)

\* _splitClaim takes no more than the bucket holds, on either side.
LEMMA SplitClaimBounds ==
    ASSUME NEW requested \in Nat, NEW ownTotal \in Nat, NEW counterTotal \in Nat,
           requested # 0, requested <= ownTotal
    PROVE  LET split == SplitClaim(requested, ownTotal, counterTotal)
           IN  /\ split[1] \in Nat /\ split[1] <= ownTotal
               /\ split[2] \in Nat /\ split[2] <= counterTotal
<1>1. ownTotal > 0
  OBVIOUS
<1>2. (requested * counterTotal) \div ownTotal \in Nat /\ (requested * counterTotal) \div ownTotal <= counterTotal
  BY <1>1, ProRataBounds
<1> QED BY <1>2 DEF SplitClaim

\* Queueing a controller that has nothing pending keeps the queue in step with the book.
LEMMA EnqueueKeepsQueue ==
    ASSUME NEW queue \in Seq(Accounts), NEW pending \in Ledger, QueuedOnce(queue, pending),
           NEW c \in Accounts, NEW amount \in Nat, amount # 0
    PROVE  /\ Enqueued(queue, pending, c) \in Seq(Accounts)
           /\ QueuedOnce(Enqueued(queue, pending, c), [pending EXCEPT ![c] = @ + amount])
<1> DEFINE q == Enqueued(queue, pending, c)
           p == [pending EXCEPT ![c] = @ + amount]
<1>1. p[c] > 0 /\ \A d \in Accounts : d # c => p[d] = pending[d]
  BY DEF Ledger
<1>2. CASE pending[c] = 0
  <2>1. q = Append(queue, c)
    BY <1>2 DEF Enqueued
  <2>2. /\ q \in Seq(Accounts) /\ DOMAIN q = 1 .. Len(queue) + 1 /\ DOMAIN queue = 1 .. Len(queue)
        /\ Len(queue) \in Nat
        /\ q[Len(queue) + 1] = c /\ \A i \in DOMAIN queue : q[i] = queue[i]
    BY <2>1
  <2>3. \A i \in DOMAIN queue : queue[i] # c
    BY <1>2 DEF QueuedOnce, Ledger
  <2> HIDE DEF q, p
  <2>4. \A i, j \in DOMAIN q : q[i] = q[j] => i = j
    BY <2>2, <2>3 DEF QueuedOnce
  <2>5. ASSUME NEW d \in Accounts PROVE p[d] > 0 <=> \E i \in DOMAIN q : q[i] = d
    <3>1. CASE d = c
      BY <1>1, <2>2, <3>1
    <3>2. CASE d # c
      BY <1>1, <2>2, <3>2 DEF QueuedOnce
    <3> QED BY <3>1, <3>2
  <2>6. q \in Seq(Accounts) /\ QueuedOnce(q, p)
    BY <2>2, <2>4, <2>5 DEF QueuedOnce
  <2> QED BY <2>6 DEF q, p
<1>3. CASE pending[c] # 0
  <2>1. q = queue
    BY <1>3 DEF Enqueued
  <2>2. pending[c] > 0
    BY <1>3 DEF Ledger
  <2> HIDE DEF q, p
  <2>3. q \in Seq(Accounts) /\ QueuedOnce(q, p)
    BY <1>1, <2>1, <2>2 DEF QueuedOnce
  <2> QED BY <2>3 DEF q, p
<1> QED BY <1>2, <1>3

\* Settling the head of the queue keeps the queue in step with the book.
LEMMA DequeueKeepsQueue ==
    ASSUME NEW queue \in Seq(Accounts), NEW pending \in Ledger, QueuedOnce(queue, pending),
           queue # <<>>
    PROVE  /\ Head(queue) \in Accounts
           /\ pending[Head(queue)] \in Nat
           /\ pending[Head(queue)] > 0
           /\ Tail(queue) \in Seq(Accounts)
           /\ QueuedOnce(Tail(queue), [pending EXCEPT ![Head(queue)] = 0])
<1> DEFINE c == Head(queue)
           q == Tail(queue)
           p == [pending EXCEPT ![c] = 0]
<1>1. /\ Len(queue) \in Nat /\ Len(queue) > 0 /\ DOMAIN queue = 1 .. Len(queue)
      /\ c = queue[1] /\ c \in Accounts
      /\ q \in Seq(Accounts) /\ DOMAIN q = 1 .. Len(queue) - 1
      /\ \A i \in DOMAIN q : q[i] = queue[i + 1]
  OBVIOUS
<1>2. pending[c] \in Nat /\ pending[c] > 0
  BY <1>1 DEF QueuedOnce, Ledger
<1>3. p[c] = 0 /\ \A d \in Accounts : d # c => p[d] = pending[d]
  BY <1>1 DEF Ledger
<1> HIDE DEF q, p, c
<1>4. \A i, j \in DOMAIN q : q[i] = q[j] => i = j
  BY <1>1 DEF QueuedOnce
<1>5. ASSUME NEW d \in Accounts PROVE p[d] > 0 <=> \E i \in DOMAIN q : q[i] = d
  <2>1. CASE d = c
    <3>1. ASSUME NEW i \in DOMAIN q PROVE q[i] # d
      <4>1. i + 1 \in DOMAIN queue /\ 1 \in DOMAIN queue /\ i + 1 # 1
        BY <1>1
      <4> QED BY <1>1, <2>1, <4>1 DEF QueuedOnce
    <3> QED BY <1>3, <2>1, <3>1
  <2>2. CASE d # c
    <3>1. p[d] = pending[d]
      BY <1>3, <2>2
    <3>2. ASSUME NEW i \in DOMAIN queue, queue[i] = d PROVE \E j \in DOMAIN q : q[j] = d
      <4>1. i # 1 /\ i - 1 \in DOMAIN q /\ q[i - 1] = queue[i]
        BY <1>1, <2>2, <3>2
      <4> QED BY <3>2, <4>1
    <3>3. ASSUME NEW j \in DOMAIN q, q[j] = d PROVE \E i \in DOMAIN queue : queue[i] = d
      <4>1. j + 1 \in DOMAIN queue /\ q[j] = queue[j + 1]
        BY <1>1
      <4> QED BY <3>3, <4>1
    <3> QED BY <3>1, <3>2, <3>3 DEF QueuedOnce
  <2> QED BY <2>1, <2>2
<1>6. QueuedOnce(q, p)
  BY <1>4, <1>5 DEF QueuedOnce
<1> QED BY <1>1, <1>2, <1>6 DEF q, p, c

-----------------------------------------------------------------------------
(* Frames: what a step leaves alone stays as it was                        *)

\* A step that leaves the attestation alone keeps its types.
LEMMA AttestFrame ==
    ASSUME TypeOK, UNCHANGED attestVars
    PROVE  AttestTypes'
  BY DEF TypeOK, AttestTypes, attestVars

\* A step that leaves the deposit books alone keeps their types.
LEMMA DepositTypesFrame ==
    ASSUME TypeOK, UNCHANGED depositVars
    PROVE  DepositTypes'
  BY DEF TypeOK, DepositTypes, depositVars, requestDepositVars, claimDepositVars, refundVars

\* A step that leaves the redeem books alone keeps their types.
LEMMA RedeemTypesFrame ==
    ASSUME TypeOK, UNCHANGED redeemVars
    PROVE  RedeemTypes'
  BY DEF TypeOK, RedeemTypes, redeemVars, requestRedeemVars, claimRedeemVars

\* A step that leaves operators and allowances alone keeps their types.
LEMMA GrantFrame ==
    ASSUME TypeOK, UNCHANGED grantVars
    PROVE  GrantTypes'
  BY DEF TypeOK, GrantTypes, grantVars

\* A step that leaves the strike alone keeps its types, and stays in or out of a plan.
LEMMA StrikeFrame ==
    ASSUME TypeOK, UNCHANGED strikeVars
    PROVE  StrikeTypes' /\ InPlan' = InPlan
  BY DEF TypeOK, StrikeTypes, strikeVars, InPlan

\* A step that writes no redeem book and no share keeps the books of shares.
LEMMA RedeemFrame ==
    ASSUME IInv, UNCHANGED <<redeemVars, shareBalance, totalSupply, claimableDepositShares>>
    PROVE  /\ RedeemBooks(CurrentSnapshot)'
           /\ ShareBooks(CurrentSnapshot, claimableDepositShares)'
<1>1. UNCHANGED <<pendingRedeemShares, totalPendingRedeemShares, redeemQueue,
                  claimableRedeemAssets, totalClaimableRedeemAssets, shareBalance,
                  totalSupply, claimableDepositShares>>
  BY DEF redeemVars, requestRedeemVars, claimRedeemVars
<1> QED BY <1>1 DEF IInv, RedeemBooks, ShareBooks, CurrentSnapshot

\* A step that writes no pending deposit and no refund keeps their books.
LEMMA DepositFrame ==
    ASSUME IInv, UNCHANGED <<requestDepositVars, refundVars>>
    PROVE  DepositBooks'
<1>1. UNCHANGED <<pendingDepositAssets, depositQueue, totalPendingDepositAssets,
                  refundableDepositAssets, totalRefundableDepositAssets>>
  BY DEF requestDepositVars, refundVars
<1> QED BY <1>1 DEF IInv, DepositBooks

\* The books of the saved snapshot depend on the snapshot and the unclaimed shares only.
LEMMA SavedFrame ==
    ASSUME IInv, InPlan, UNCHANGED <<saved, claimableDepositShares, depositQueue>>
    PROVE  /\ RedeemBooks(saved)'
           /\ ShareBooks(saved, claimableDepositShares)'
           /\ depositQueue' = <<>>
  BY DEF IInv, RedeemBooks, ShareBooks

-----------------------------------------------------------------------------
(* Every action keeps the invariant                                        *)

\* A deposit request brings the USDC it reserves.
LEMMA RequestDepositStep ==
    ASSUME IInv,
           NEW sender \in Accounts, NEW assets \in Nat,
           NEW controller \in Accounts, NEW owner \in Accounts,
           requestDeposit(sender, assets, controller, owner)
    PROVE  IInv'
<1> DEFINE pending == pendingDepositAssets[controller]
<1>1. TypeOK /\ DepositBooks /\ ~InPlan /\ assets # 0
  BY DEF IInv, requestDeposit, Idle, InPlan
<1>2. pending \in Nat /\ totalPendingDepositAssets \in Nat /\ pendingDepositAssets \in Ledger
  BY <1>1 DEF TypeOK, DepositTypes, Ledger
<1>3. /\ pendingDepositAssets' = [pendingDepositAssets EXCEPT ![controller] = pending + assets]
      /\ totalPendingDepositAssets' = totalPendingDepositAssets + assets
      /\ depositQueue' = Enqueued(depositQueue, pendingDepositAssets, controller)
      /\ UNCHANGED <<refundableDepositAssets, totalRefundableDepositAssets>>
  BY DEF requestDeposit, refundVars
<1>4. depositQueue' \in Seq(Accounts) /\ QueuedOnce(depositQueue', pendingDepositAssets')
  BY <1>1, <1>2, <1>3, EnqueueKeepsQueue DEF TypeOK, DepositTypes, DepositBooks
<1>5. TypeOK'
  <2>1. AttestTypes' /\ RedeemTypes' /\ GrantTypes' /\ StrikeTypes'
    BY <1>1, AttestFrame, RedeemTypesFrame, GrantFrame, StrikeFrame DEF requestDeposit
  <2>2. pendingDepositAssets' \in Ledger /\ totalPendingDepositAssets' \in Nat
    BY <1>2, <1>3, LedgerEntry DEF Ledger
  <2>3. UNCHANGED <<claimableDepositAssets, claimableDepositShares>>
    BY DEF requestDeposit, claimDepositVars
  <2>4. DepositTypes'
    BY <1>1, <1>3, <1>4, <2>2, <2>3 DEF TypeOK, DepositTypes
  <2>5. TokenTypes'
    BY <1>1 DEF TypeOK, TokenTypes, requestDeposit
  <2> QED BY <2>1, <2>4, <2>5 DEF TypeOK
<1>6. IsSum(Accounts, pendingDepositAssets', totalPendingDepositAssets')
  BY <1>1, <1>2, <1>3, SumOfCredit DEF DepositBooks, Ledger
<1>7. DepositBooks'
  BY <1>1, <1>3, <1>4, <1>6 DEF DepositBooks
<1>8. RedeemBooks(CurrentSnapshot)' /\ ShareBooks(CurrentSnapshot, claimableDepositShares)'
  BY RedeemFrame DEF requestDeposit, claimDepositVars
<1>9. ~InPlan'
  BY <1>1 DEF requestDeposit, strikeVars, InPlan
<1>10. Floors'
  BY <1>1, <1>2, <1>3, <1>9 DEF IInv, Floors, CoversFloor, TypeOK, DepositTypes, RedeemTypes, TokenTypes,
     requestDeposit, redeemVars, claimRedeemVars
<1> QED BY <1>5, <1>7, <1>8, <1>9, <1>10 DEF IInv

\* A redeem request moves the shares it queues to the vault.
LEMMA RequestRedeemStep ==
    ASSUME IInv,
           NEW sender \in Accounts, NEW shares \in Nat,
           NEW controller \in Accounts, NEW owner \in Accounts,
           requestRedeem(sender, shares, controller, owner)
    PROVE  IInv'
<1>1. TypeOK /\ RedeemBooks(CurrentSnapshot) /\ ShareBooks(CurrentSnapshot, claimableDepositShares)
      /\ ~InPlan /\ shares # 0 /\ shares <= shareBalance[owner]
  BY DEF IInv, requestRedeem, Idle, InPlan
<1>2. /\ pendingRedeemShares \in Ledger /\ totalPendingRedeemShares \in Nat
      /\ redeemQueue \in Seq(Accounts) /\ shareBalance \in [Holders -> Nat]
      /\ owner \in Holders /\ Vault \in Holders /\ owner # Vault
  BY <1>1, VaultAssumption DEF TypeOK, RedeemTypes, TokenTypes, Holders
<1>3. /\ pendingRedeemShares' = [pendingRedeemShares EXCEPT ![controller] = @ + shares]
      /\ totalPendingRedeemShares' = totalPendingRedeemShares + shares
      /\ redeemQueue' = Enqueued(redeemQueue, pendingRedeemShares, controller)
      /\ shareBalance' = [shareBalance EXCEPT ![owner] = @ - shares, ![Vault] = @ + shares]
      /\ UNCHANGED <<claimableRedeemShares, claimableRedeemAssets, totalClaimableRedeemAssets,
                     totalSupply, usdc, claimableDepositShares, operators>>
  BY DEF requestRedeem, claimRedeemVars, depositVars, claimDepositVars
<1>4. /\ redeemQueue' \in Seq(Accounts) /\ QueuedOnce(redeemQueue', pendingRedeemShares')
      /\ IsSum(Accounts, pendingRedeemShares', totalPendingRedeemShares')
  <2>1. QueuedOnce(redeemQueue, pendingRedeemShares) /\ IsSum(Accounts, pendingRedeemShares, totalPendingRedeemShares)
    BY <1>1 DEF RedeemBooks, CurrentSnapshot
  <2>2. redeemQueue' \in Seq(Accounts) /\ QueuedOnce(redeemQueue', pendingRedeemShares')
    BY <1>1, <1>2, <1>3, <2>1, EnqueueKeepsQueue
  <2>3. IsSum(Accounts, pendingRedeemShares', totalPendingRedeemShares')
    BY <1>2, <1>3, <2>1, SumOfCredit DEF Ledger
  <2> QED BY <2>2, <2>3
<1>5. shareBalance' \in [Holders -> Nat] /\ IsSum(Holders, shareBalance', totalSupply')
      /\ shareBalance'[Vault] = shareBalance[Vault] + shares
  <2>1. IsSum(Holders, shareBalance, totalSupply)
    BY <1>1 DEF ShareBooks, CurrentSnapshot
  <2>2. shareBalance' \in [Holders -> Nat] /\ IsSum(Holders, shareBalance', totalSupply)
    BY <1>1, <1>2, <1>3, <2>1, SumOfMove
  <2> QED BY <1>2, <1>3, <2>2
<1>6. TypeOK'
  <2>1. AttestTypes' /\ DepositTypes' /\ StrikeTypes'
    BY <1>1, AttestFrame, DepositTypesFrame, StrikeFrame DEF requestRedeem
  <2>2. RedeemTypes'
    <3>1. pendingRedeemShares' \in Ledger /\ totalPendingRedeemShares' \in Nat
      BY <1>2, <1>3, LedgerEntry DEF Ledger
    <3> QED BY <1>1, <1>3, <1>4, <3>1 DEF TypeOK, RedeemTypes
  <2>3. TokenTypes'
    BY <1>1, <1>3, <1>5 DEF TypeOK, TokenTypes
  <2>4. allowance' \in [Accounts \X Accounts -> Nat]
    <3>1. allowance \in [Accounts \X Accounts -> Nat] /\ <<owner, sender>> \in Accounts \X Accounts
      BY <1>1 DEF TypeOK, GrantTypes
    <3>2. CASE allowance' = allowance
      BY <3>1, <3>2
    <3>3. CASE /\ allowance[<<owner, sender>>] >= shares
               /\ allowance' = [allowance EXCEPT ![<<owner, sender>>] = @ - shares]
      <4>1. allowance[<<owner, sender>>] \in Nat /\ allowance[<<owner, sender>>] - shares \in Nat
        BY <3>1, <3>3
      <4> QED BY <3>1, <3>3, <4>1
    <3> QED BY <3>2, <3>3 DEF requestRedeem
  <2>5. GrantTypes'
    BY <1>1, <1>3, <2>4 DEF TypeOK, GrantTypes
  <2> QED BY <2>1, <2>2, <2>3, <2>5 DEF TypeOK
<1>7. DepositBooks'
  BY DepositFrame DEF requestRedeem, depositVars
<1>8. RedeemBooks(CurrentSnapshot)'
  BY <1>1, <1>3, <1>4 DEF RedeemBooks, CurrentSnapshot
<1>9. ShareBooks(CurrentSnapshot, claimableDepositShares)'
  <2>1. PICK owed \in Nat : /\ IsSum(Accounts, claimableDepositShares, owed)
                            /\ shareBalance[Vault] >= totalPendingRedeemShares + owed
    BY <1>1 DEF ShareBooks, CurrentSnapshot
  <2>2. shareBalance'[Vault] >= totalPendingRedeemShares' + owed
    BY <1>2, <1>3, <1>5, <2>1
  <2> QED BY <1>3, <1>5, <2>1, <2>2 DEF ShareBooks, CurrentSnapshot
<1>10. ~InPlan'
  BY <1>1, StrikeFrame DEF requestRedeem
<1>11. Floors'
  BY <1>1, <1>3, <1>10 DEF IInv, Floors, CoversFloor, requestRedeem, depositVars, requestDepositVars, refundVars
<1> QED BY <1>6, <1>7, <1>8, <1>9, <1>10, <1>11 DEF IInv

\* deposit and mint
LEMMA ClaimDepositStep ==
    ASSUME IInv, Idle,
           NEW receiver \in Holders, NEW controller \in Accounts,
           NEW assets \in Nat, assets <= claimableDepositAssets[controller],
           NEW shares \in Nat, shares <= claimableDepositShares[controller],
           ClaimDeposit(receiver, controller, assets, shares)
    PROVE  IInv'
<1>1. TypeOK /\ ShareBooks(CurrentSnapshot, claimableDepositShares) /\ ~InPlan
  BY DEF IInv, Idle, InPlan
<1>2. /\ claimableDepositAssets \in Ledger /\ claimableDepositShares \in Ledger
      /\ shareBalance \in [Holders -> Nat] /\ Vault \in Holders /\ totalPendingRedeemShares \in Nat
  BY <1>1 DEF TypeOK, DepositTypes, RedeemTypes, TokenTypes, Holders
<1>3. /\ claimableDepositAssets' = [claimableDepositAssets EXCEPT ![controller] = @ - assets]
      /\ claimableDepositShares' = [claimableDepositShares EXCEPT ![controller] = @ - shares]
      /\ shares <= shareBalance[Vault]
      /\ shareBalance' = IF receiver = Vault THEN shareBalance
                         ELSE [shareBalance EXCEPT ![Vault] = @ - shares, ![receiver] = @ + shares]
      /\ UNCHANGED <<totalSupply, usdc, totalPendingRedeemShares, totalClaimableRedeemAssets>>
  BY DEF ClaimDeposit, SendShares, redeemVars, requestRedeemVars, claimRedeemVars
<1>4. claimableDepositAssets' \in Ledger /\ claimableDepositShares' \in Ledger
  BY <1>2, <1>3, LedgerEntry DEF Ledger
<1>5. shareBalance' \in [Holders -> Nat] /\ IsSum(Holders, shareBalance', totalSupply')
      /\ shareBalance'[Vault] >= shareBalance[Vault] - shares
  <2>1. IsSum(Holders, shareBalance, totalSupply)
    BY <1>1 DEF ShareBooks, CurrentSnapshot
  <2>2. CASE receiver = Vault
    BY <1>2, <1>3, <2>1, <2>2
  <2>3. CASE receiver # Vault
    <3>1. shareBalance' \in [Holders -> Nat] /\ IsSum(Holders, shareBalance', totalSupply)
      BY <1>2, <1>3, <2>1, <2>3, SumOfMove
    <3>2. shareBalance'[Vault] = shareBalance[Vault] - shares
      BY <1>2, <1>3, <2>3
    <3> QED BY <1>2, <1>3, <3>1, <3>2
  <2> QED BY <2>2, <2>3
<1>6. TypeOK'
  <2>1. AttestTypes' /\ RedeemTypes' /\ GrantTypes' /\ StrikeTypes'
    BY <1>1, AttestFrame, RedeemTypesFrame, GrantFrame, StrikeFrame DEF ClaimDeposit
  <2>2. UNCHANGED <<pendingDepositAssets, depositQueue, totalPendingDepositAssets,
                    refundableDepositAssets, totalRefundableDepositAssets>>
    BY DEF ClaimDeposit, requestDepositVars, refundVars
  <2>3. DepositTypes'
    BY <1>1, <1>4, <2>2 DEF TypeOK, DepositTypes
  <2>4. TokenTypes'
    BY <1>1, <1>3, <1>5 DEF TypeOK, TokenTypes
  <2> QED BY <2>1, <2>3, <2>4 DEF TypeOK
<1>7. DepositBooks'
  BY DepositFrame DEF ClaimDeposit
<1>8. RedeemBooks(CurrentSnapshot)'
  <2>1. UNCHANGED <<pendingRedeemShares, totalPendingRedeemShares, claimableRedeemAssets,
                    totalClaimableRedeemAssets, redeemQueue>>
    BY DEF ClaimDeposit, redeemVars, requestRedeemVars, claimRedeemVars
  <2> QED BY <2>1 DEF IInv, RedeemBooks, CurrentSnapshot
<1>9. ShareBooks(CurrentSnapshot, claimableDepositShares)'
  <2>1. PICK owed \in Nat : /\ IsSum(Accounts, claimableDepositShares, owed)
                            /\ shareBalance[Vault] >= totalPendingRedeemShares + owed
    BY <1>1 DEF ShareBooks, CurrentSnapshot
  <2>2. owed - shares \in Nat /\ IsSum(Accounts, claimableDepositShares', owed - shares)
    BY <1>2, <1>3, <2>1, SumOfDebit DEF Ledger
  <2>3. shareBalance'[Vault] >= totalPendingRedeemShares' + (owed - shares)
    BY <1>2, <1>3, <1>5, <2>1, <2>2
  <2> QED BY <1>5, <2>2, <2>3 DEF ShareBooks, CurrentSnapshot
<1>10. ~InPlan'
  BY <1>1, StrikeFrame DEF ClaimDeposit
<1>11. Floors'
  BY <1>1, <1>3, <1>10 DEF IInv, Floors, CoversFloor, ClaimDeposit, requestDepositVars, refundVars
<1> QED BY <1>6, <1>7, <1>8, <1>9, <1>10, <1>11 DEF IInv

\* redeem and withdraw
LEMMA ClaimRedeemStep ==
    ASSUME IInv, Idle,
           NEW receiver \in Holders, NEW controller \in Accounts,
           NEW shares \in Nat, shares <= claimableRedeemShares[controller],
           NEW assets \in Nat, assets <= claimableRedeemAssets[controller],
           ClaimRedeem(receiver, controller, shares, assets)
    PROVE  IInv'
<1>1. TypeOK /\ RedeemBooks(CurrentSnapshot) /\ ShareBooks(CurrentSnapshot, claimableDepositShares)
      /\ ~InPlan
  BY DEF IInv, Idle, InPlan
<1>2. /\ claimableRedeemAssets \in Ledger /\ claimableRedeemShares \in Ledger
      /\ totalClaimableRedeemAssets \in Nat /\ usdc \in Nat
      /\ totalPendingDepositAssets \in Nat /\ totalRefundableDepositAssets \in Nat
  BY <1>1 DEF TypeOK, DepositTypes, RedeemTypes, TokenTypes
<1>3. /\ claimableRedeemShares' = [claimableRedeemShares EXCEPT ![controller] = @ - shares]
      /\ claimableRedeemAssets' = [claimableRedeemAssets EXCEPT ![controller] = @ - assets]
      /\ totalClaimableRedeemAssets' = totalClaimableRedeemAssets - assets
      /\ assets <= usdc
      /\ usdc' = IF receiver = Vault THEN usdc ELSE usdc - assets
      /\ UNCHANGED <<pendingRedeemShares, totalPendingRedeemShares, redeemQueue, shareBalance,
                     totalSupply, claimableDepositShares, totalPendingDepositAssets,
                     totalRefundableDepositAssets>>
  BY DEF ClaimRedeem, SendUsdc, requestRedeemVars, depositVars, requestDepositVars,
     claimDepositVars, refundVars
<1>4. /\ totalClaimableRedeemAssets' \in Nat
      /\ IsSum(Accounts, claimableRedeemAssets', totalClaimableRedeemAssets')
  <2>1. IsSum(Accounts, claimableRedeemAssets, totalClaimableRedeemAssets)
    BY <1>1 DEF RedeemBooks, CurrentSnapshot
  <2> QED BY <1>2, <1>3, <2>1, SumOfDebit DEF Ledger
<1>5. claimableRedeemShares' \in Ledger /\ claimableRedeemAssets' \in Ledger
  BY <1>2, <1>3, LedgerEntry DEF Ledger
<1>6. TypeOK'
  <2>1. AttestTypes' /\ DepositTypes' /\ GrantTypes' /\ StrikeTypes'
    BY <1>1, AttestFrame, DepositTypesFrame, GrantFrame, StrikeFrame DEF ClaimRedeem
  <2>2. RedeemTypes'
    BY <1>1, <1>3, <1>4, <1>5 DEF TypeOK, RedeemTypes
  <2>3. TokenTypes'
    BY <1>1, <1>2, <1>3 DEF TypeOK, TokenTypes
  <2> QED BY <2>1, <2>2, <2>3 DEF TypeOK
<1>7. DepositBooks'
  BY DepositFrame DEF ClaimRedeem, depositVars
<1>8. RedeemBooks(CurrentSnapshot)'
  BY <1>1, <1>3, <1>4 DEF RedeemBooks, CurrentSnapshot
<1>9. ShareBooks(CurrentSnapshot, claimableDepositShares)'
  BY <1>1, <1>3 DEF ShareBooks, CurrentSnapshot
<1>10. ~InPlan'
  BY <1>1, StrikeFrame DEF ClaimRedeem
<1>11. Floors'
  BY <1>1, <1>2, <1>3, <1>10 DEF IInv, Floors, CoversFloor
<1> QED BY <1>6, <1>7, <1>8, <1>9, <1>10, <1>11 DEF IInv

\* A refund pays what its book reserved.
LEMMA ClaimRefundStep ==
    ASSUME IInv,
           NEW sender \in Accounts, NEW receiver \in Holders, NEW controller \in Accounts,
           claimDepositRefund(sender, receiver, controller)
    PROVE  IInv'
<1> DEFINE refund == refundableDepositAssets[controller]
<1>1. TypeOK /\ DepositBooks /\ ~InPlan
  BY DEF IInv, claimDepositRefund, Idle, InPlan
<1>2. /\ refundableDepositAssets \in Ledger /\ refund \in Nat /\ usdc \in Nat
      /\ totalRefundableDepositAssets \in Nat /\ totalClaimableRedeemAssets \in Nat
      /\ totalPendingDepositAssets \in Nat
  BY <1>1 DEF TypeOK, DepositTypes, RedeemTypes, TokenTypes, Ledger
<1>3. /\ refundableDepositAssets' = [refundableDepositAssets EXCEPT ![controller] = 0]
      /\ totalRefundableDepositAssets' = totalRefundableDepositAssets - refund
      /\ refund <= usdc
      /\ usdc' = IF receiver = Vault THEN usdc ELSE usdc - refund
      /\ UNCHANGED <<pendingDepositAssets, depositQueue, totalPendingDepositAssets,
                     claimableDepositAssets, claimableDepositShares, shareBalance, totalSupply,
                     totalClaimableRedeemAssets>>
  BY DEF claimDepositRefund, SendUsdc, requestDepositVars, claimDepositVars, redeemVars, claimRedeemVars
<1>4. /\ totalRefundableDepositAssets' \in Nat
      /\ IsSum(Accounts, refundableDepositAssets', totalRefundableDepositAssets')
  BY <1>1, <1>2, <1>3, SumOfClear DEF DepositBooks, Ledger
<1>5. TypeOK'
  <2>1. AttestTypes' /\ RedeemTypes' /\ GrantTypes' /\ StrikeTypes'
    BY <1>1, AttestFrame, RedeemTypesFrame, GrantFrame, StrikeFrame DEF claimDepositRefund
  <2>2. refundableDepositAssets' \in Ledger
    BY <1>2, <1>3 DEF Ledger
  <2>3. DepositTypes'
    BY <1>1, <1>3, <1>4, <2>2 DEF TypeOK, DepositTypes
  <2>4. TokenTypes'
    BY <1>1, <1>2, <1>3 DEF TypeOK, TokenTypes
  <2> QED BY <2>1, <2>3, <2>4 DEF TypeOK
<1>6. DepositBooks'
  BY <1>1, <1>3, <1>4 DEF DepositBooks
<1>7. RedeemBooks(CurrentSnapshot)' /\ ShareBooks(CurrentSnapshot, claimableDepositShares)'
  BY <1>3, RedeemFrame DEF claimDepositRefund
<1>8. ~InPlan'
  BY <1>1, StrikeFrame DEF claimDepositRefund
<1>9. Floors'
  BY <1>1, <1>2, <1>3, <1>8 DEF IInv, Floors, CoversFloor
<1> QED BY <1>5, <1>6, <1>7, <1>8, <1>9 DEF IInv

\* A step outside a strike that writes no book and no share: the grants, a
\* block, or the vault's USDC.
LEMMA QuietStep ==
    ASSUME IInv, Idle, UNCHANGED <<depositVars, redeemVars, shareBalance, totalSupply, strikeVars>>,
           AttestTypes', GrantTypes', usdc' \in Nat,
           ~TokenMayBurn => usdc' >= usdc \/ usdc' >= EscrowFloorAmount
    PROVE  IInv'
<1>1. TypeOK /\ ~InPlan
  BY DEF IInv, Idle, InPlan
<1>2. UNCHANGED <<totalPendingDepositAssets, totalRefundableDepositAssets, totalClaimableRedeemAssets,
                  claimableDepositShares, requestDepositVars, refundVars>>
  BY DEF depositVars, requestDepositVars, refundVars, claimDepositVars, redeemVars, claimRedeemVars
<1>3. TypeOK'
  <2>1. DepositTypes' /\ RedeemTypes' /\ StrikeTypes'
    BY <1>1, DepositTypesFrame, RedeemTypesFrame, StrikeFrame
  <2>2. TokenTypes'
    BY <1>1 DEF TypeOK, TokenTypes
  <2> QED BY <2>1, <2>2 DEF TypeOK
<1>4. DepositBooks'
  BY <1>2, DepositFrame
<1>5. RedeemBooks(CurrentSnapshot)' /\ ShareBooks(CurrentSnapshot, claimableDepositShares)'
  BY <1>2, RedeemFrame
<1>6. ~InPlan'
  BY <1>1, StrikeFrame
<1>7. Floors'
  <2>1. /\ totalPendingDepositAssets \in Nat /\ totalRefundableDepositAssets \in Nat
        /\ totalClaimableRedeemAssets \in Nat /\ usdc \in Nat
    BY <1>1 DEF TypeOK, DepositTypes, RedeemTypes, TokenTypes
  <2> QED BY <1>1, <1>2, <1>6, <2>1 DEF IInv, Floors, CoversFloor, EscrowFloorAmount
<1> QED BY <1>3, <1>4, <1>5, <1>6, <1>7 DEF IInv

\* execute ends above the floor, and emergencyExecute starts below it.
LEMMA StrategistStep ==
    ASSUME IInv, Strategist
    PROVE  IInv'
<1>1. PICK balance \in Balances : execute(balance) \/ emergencyExecute(balance)
  BY DEF Strategist
<1>2. balance \in Nat
  BY VaultAssumption DEF Balances
<1>3. Idle /\ StrategistCall(balance)
  BY <1>1 DEF execute, emergencyExecute
<1>4. /\ UNCHANGED <<depositVars, redeemVars, shareBalance, totalSupply, strikeVars>>
      /\ UNCHANGED attestVars /\ UNCHANGED grantVars /\ usdc' = balance
  BY <1>3 DEF StrategistCall
<1>5. AttestTypes' /\ GrantTypes'
  BY <1>4, AttestFrame, GrantFrame DEF IInv
<1>6. ~TokenMayBurn => usdc' >= EscrowFloorAmount
  <2>1. CASE execute(balance)
    BY <2>1, <1>4 DEF execute
  <2>2. CASE emergencyExecute(balance)
    <3>1. usdc < EscrowFloorAmount
      BY <2>2 DEF emergencyExecute
    <3>2. /\ totalPendingDepositAssets \in Nat /\ totalRefundableDepositAssets \in Nat
          /\ totalClaimableRedeemAssets \in Nat /\ usdc \in Nat
      BY DEF IInv, TypeOK, DepositTypes, RedeemTypes, TokenTypes
    <3>3. ~TokenMayBurn => usdc >= EscrowFloorAmount
      BY <1>3 DEF IInv, Floors, CoversFloor, InPlan, Idle, EscrowFloorAmount
    <3> QED BY <3>1, <3>2, <3>3 DEF EscrowFloorAmount
  <2> QED BY <1>1, <2>1, <2>2
<1> QED BY <1>2, <1>3, <1>4, <1>5, <1>6, QuietStep

\* Grants touch no book.
LEMMA DelegationStep ==
    ASSUME IInv, Delegation
    PROVE  IInv'
<1>1. PICK owner \in Accounts, operator \in Operators :
          \/ \E approved \in BOOLEAN : setOperator(owner, operator, approved)
          \/ \E shares \in Amounts \cup {0} : approve(owner, operator, shares)
  BY DEF Delegation
<1>2. operator \in Accounts /\ Amounts \cup {0} \subseteq Nat
  BY VaultAssumption
<1>3. /\ Idle /\ UNCHANGED attestVars /\ usdc' = usdc
      /\ UNCHANGED <<depositVars, redeemVars, shareBalance, totalSupply, strikeVars>>
  BY <1>1 DEF setOperator, approve
<1>4. AttestTypes' /\ usdc \in Nat
  BY <1>3, AttestFrame DEF IInv, TypeOK, TokenTypes
<1>5. GrantTypes'
  <2>1. operators \subseteq Accounts \X Accounts /\ allowance \in [Accounts \X Accounts -> Nat]
    BY DEF IInv, TypeOK, GrantTypes
  <2>2. CASE \E approved \in BOOLEAN : setOperator(owner, operator, approved)
    BY <1>2, <2>1, <2>2 DEF setOperator, GrantTypes
  <2>3. CASE \E shares \in Amounts \cup {0} : approve(owner, operator, shares)
    BY <1>2, <2>1, <2>3 DEF approve, GrantTypes
  <2> QED BY <1>1, <2>2, <2>3
<1> QED BY <1>3, <1>4, <1>5, QuietStep

\* Shares move between holders; what the vault holds does not fall.
LEMMA TransferStep ==
    ASSUME IInv, NEW from \in Accounts, NEW to \in Holders, NEW shares \in Nat,
           transfer(from, to, shares)
    PROVE  IInv'
<1>1. TypeOK /\ ShareBooks(CurrentSnapshot, claimableDepositShares) /\ ~InPlan
  BY DEF IInv, transfer, Idle, InPlan
<1>2. /\ shareBalance \in [Holders -> Nat] /\ from \in Holders /\ from # Vault /\ Vault \in Holders
      /\ totalPendingRedeemShares \in Nat
  BY <1>1, VaultAssumption DEF TypeOK, RedeemTypes, TokenTypes, Holders
<1>3. /\ from # to /\ shares <= shareBalance[from]
      /\ shareBalance' = [shareBalance EXCEPT ![from] = @ - shares, ![to] = @ + shares]
      /\ UNCHANGED <<totalSupply, usdc>>
  BY DEF transfer
<1>4. UNCHANGED <<claimableDepositShares, requestDepositVars, refundVars, pendingRedeemShares,
                  totalPendingRedeemShares, claimableRedeemAssets, totalClaimableRedeemAssets,
                  redeemQueue, totalPendingDepositAssets, totalRefundableDepositAssets>>
  BY DEF transfer, depositVars, requestDepositVars, refundVars, claimDepositVars, redeemVars, requestRedeemVars,
     claimRedeemVars
<1>5. shareBalance' \in [Holders -> Nat] /\ IsSum(Holders, shareBalance', totalSupply')
  BY <1>1, <1>2, <1>3, SumOfMove DEF ShareBooks, CurrentSnapshot
<1>6. shareBalance'[Vault] >= shareBalance[Vault]
  BY <1>2, <1>3
<1>7. TypeOK'
  <2>1. AttestTypes' /\ DepositTypes' /\ RedeemTypes' /\ GrantTypes' /\ StrikeTypes'
    BY <1>1, AttestFrame, DepositTypesFrame, RedeemTypesFrame, GrantFrame, StrikeFrame DEF transfer
  <2>2. TokenTypes'
    BY <1>1, <1>3, <1>5 DEF TypeOK, TokenTypes
  <2> QED BY <2>1, <2>2 DEF TypeOK
<1>8. DepositBooks'
  BY <1>4, DepositFrame
<1>9. RedeemBooks(CurrentSnapshot)'
  BY <1>4 DEF IInv, RedeemBooks, CurrentSnapshot
<1>10. ShareBooks(CurrentSnapshot, claimableDepositShares)'
  <2>1. PICK owed \in Nat : /\ IsSum(Accounts, claimableDepositShares, owed)
                            /\ shareBalance[Vault] >= totalPendingRedeemShares + owed
    BY <1>1 DEF ShareBooks, CurrentSnapshot
  <2>2. shareBalance'[Vault] >= totalPendingRedeemShares' + owed
    BY <1>2, <1>4, <1>5, <1>6, <2>1
  <2> QED BY <1>4, <1>5, <2>1, <2>2 DEF ShareBooks, CurrentSnapshot
<1>11. ~InPlan'
  BY <1>1, StrikeFrame DEF transfer
<1>12. Floors'
  BY <1>1, <1>3, <1>4, <1>11 DEF IInv, Floors, CoversFloor
<1> QED BY <1>7, <1>8, <1>9, <1>10, <1>11, <1>12 DEF IInv

\* Blocks, transfers, donations and burns keep the invariant.
LEMMA EnvironmentStep ==
    ASSUME IInv, Environment
    PROVE  IInv'
<1>1. CASE NextBlock
  <2>1. /\ Idle /\ UNCHANGED <<depositVars, redeemVars, shareBalance, totalSupply, strikeVars>>
        /\ UNCHANGED grantVars /\ usdc' = usdc
    BY <1>1 DEF NextBlock
  <2>2. AttestTypes'
    BY <1>1 DEF IInv, TypeOK, AttestTypes, NextBlock
  <2>3. GrantTypes' /\ usdc \in Nat
    BY <2>1, GrantFrame DEF IInv, TypeOK, TokenTypes
  <2> QED BY <2>1, <2>2, <2>3, QuietStep
<1>2. CASE \E from \in Accounts, to \in Holders : \E shares \in 1 .. shareBalance[from] : transfer(from, to, shares)
  <2>1. PICK from \in Accounts, to \in Holders :
            \E shares \in 1 .. shareBalance[from] : transfer(from, to, shares)
    BY <1>2
  <2>2. PICK shares \in 1 .. shareBalance[from] : transfer(from, to, shares)
    BY <2>1
  <2>3. shares \in Nat
    BY DEF IInv, TypeOK, TokenTypes, Holders
  <2> QED BY <2>2, <2>3, TransferStep
<1>3. ASSUME NEW balance \in Nat, Idle, usdc' = balance,
             UNCHANGED <<attestVars, depositVars, redeemVars, shareBalance, totalSupply, grantVars, strikeVars>>,
             ~TokenMayBurn => balance >= usdc
      PROVE  IInv'
  <2>1. UNCHANGED attestVars /\ UNCHANGED grantVars
        /\ UNCHANGED <<depositVars, redeemVars, shareBalance, totalSupply, strikeVars>>
    BY <1>3
  <2>2. AttestTypes' /\ GrantTypes'
    BY <2>1, AttestFrame, GrantFrame DEF IInv
  <2> QED BY <1>3, <2>1, <2>2, QuietStep
<1>4. CASE \E assets \in Amounts : usdc + assets <= MaxUsdc /\ Donate(assets)
  <2>1. PICK assets \in Amounts : Donate(assets)
    BY <1>4
  <2>2. assets \in Nat /\ usdc \in Nat
    BY VaultAssumption DEF IInv, TypeOK, TokenTypes
  <2>3. usdc + assets \in Nat /\ usdc + assets >= usdc
    BY <2>2
  <2> QED BY <1>3, <2>1, <2>3 DEF Donate
<1>5. CASE \E balance \in Balances : TokenBurn(balance)
  <2>1. PICK balance \in Balances : TokenBurn(balance)
    BY <1>5
  <2>2. balance \in Nat /\ TokenMayBurn
    BY <2>1, VaultAssumption DEF Balances, TokenBurn
  <2> QED BY <1>3, <2>1, <2>2 DEF TokenBurn
<1> QED BY <1>1, <1>2, <1>4, <1>5 DEF Environment

\* An accepted envelope sets the NAV and opens the strike.
LEMMA EnvelopeStep ==
    ASSUME IInv, NEW eventId \in EventIds, NEW attestedNav \in Nat, NEW inputsBlock \in Nat,
           NEW breachFlags \in BOOLEAN,
           handleSignedEnvelope(eventId, attestedNav, inputsBlock, breachFlags)
    PROVE  IInv'
<1>1. TypeOK /\ ~InPlan
  BY DEF IInv, handleSignedEnvelope, Idle, InPlan
<1>2. /\ UNCHANGED <<depositVars, redeemVars, shareBalance, totalSupply, usdc>>
      /\ UNCHANGED depositVars /\ UNCHANGED redeemVars /\ UNCHANGED grantVars
      /\ phase' = "deposits" /\ UNCHANGED <<stepsLeft, saved, lastPlan>>
  BY DEF handleSignedEnvelope
<1>3. UNCHANGED <<totalPendingDepositAssets, totalRefundableDepositAssets, totalClaimableRedeemAssets,
                  claimableDepositShares, requestDepositVars, refundVars>>
  BY <1>2 DEF depositVars, requestDepositVars, refundVars, claimDepositVars, redeemVars, claimRedeemVars
<1>4. AttestTypes'
  <2>1. processed' \subseteq EventIds /\ breached' \in BOOLEAN /\ block' = block /\ block \in Nat
    BY <1>1 DEF TypeOK, AttestTypes, handleSignedEnvelope
  <2>2. nav' \in Nat /\ lastInputsBlock' \in Nat /\ updateCount' \in Nat
    BY <1>1, VaultAssumption DEF TypeOK, AttestTypes, handleSignedEnvelope
  <2> QED BY <2>1, <2>2 DEF AttestTypes
<1>5. DepositTypes' /\ RedeemTypes' /\ GrantTypes'
  BY <1>1, <1>2, DepositTypesFrame, RedeemTypesFrame, GrantFrame
<1>6. TokenTypes' /\ StrikeTypes'
  BY <1>1, <1>2 DEF TypeOK, TokenTypes, StrikeTypes
<1>7. DepositBooks' /\ RedeemBooks(CurrentSnapshot)' /\ ShareBooks(CurrentSnapshot, claimableDepositShares)'
  BY <1>2, <1>3, DepositFrame, RedeemFrame
<1>8. ~InPlan'
  BY <1>2 DEF InPlan
<1>9. Floors'
  BY <1>1, <1>2, <1>3, <1>8 DEF IInv, Floors, CoversFloor
<1> QED BY <1>4, <1>5, <1>6, <1>7, <1>8, <1>9 DEF IInv, TypeOK

\* A refunded deposit moves its reservation to the refunds.
LEMMA RefundDepositStep ==
    ASSUME IInv, RefundDeposit
    PROVE  IInv'
<1> DEFINE controller == Head(depositQueue)
           assets == pendingDepositAssets[controller]
<1>1. TypeOK /\ DepositBooks /\ ~InPlan /\ depositQueue # <<>>
  BY DEF IInv, RefundDeposit, InPlan
<1>2. /\ pendingDepositAssets \in Ledger /\ refundableDepositAssets \in Ledger
      /\ depositQueue \in Seq(Accounts)
      /\ totalPendingDepositAssets \in Nat /\ totalRefundableDepositAssets \in Nat
      /\ totalClaimableRedeemAssets \in Nat /\ usdc \in Nat
  BY <1>1 DEF TypeOK, DepositTypes, RedeemTypes, TokenTypes
<1>3. /\ depositQueue' = Tail(depositQueue)
      /\ pendingDepositAssets' = [pendingDepositAssets EXCEPT ![controller] = 0]
      /\ totalPendingDepositAssets' = totalPendingDepositAssets - assets
      /\ refundableDepositAssets' = [refundableDepositAssets EXCEPT ![controller] = @ + assets]
      /\ totalRefundableDepositAssets' = totalRefundableDepositAssets + assets
      /\ UNCHANGED <<claimableDepositAssets, claimableDepositShares, shareBalance, totalSupply,
                     usdc, totalClaimableRedeemAssets>>
  BY DEF RefundDeposit, DequeueDeposit, claimDepositVars, redeemVars, claimRedeemVars
<1>4. /\ controller \in Accounts /\ assets \in Nat /\ depositQueue' \in Seq(Accounts)
      /\ QueuedOnce(depositQueue', pendingDepositAssets')
  BY <1>1, <1>2, <1>3, DequeueKeepsQueue DEF DepositBooks
<1> HIDE DEF controller, assets
<1>5. /\ totalPendingDepositAssets' \in Nat
      /\ IsSum(Accounts, pendingDepositAssets', totalPendingDepositAssets')
  BY <1>1, <1>2, <1>3, <1>4, SumOfClear DEF DepositBooks, Ledger, assets
<1>6. IsSum(Accounts, refundableDepositAssets', totalRefundableDepositAssets')
  BY <1>1, <1>2, <1>3, <1>4, SumOfCredit DEF DepositBooks, Ledger
<1>7. pendingDepositAssets' \in Ledger /\ refundableDepositAssets' \in Ledger
  BY <1>2, <1>3, <1>4, LedgerEntry DEF Ledger
<1>8. TypeOK'
  <2>1. AttestTypes' /\ RedeemTypes' /\ GrantTypes' /\ StrikeTypes'
    BY <1>1, AttestFrame, RedeemTypesFrame, GrantFrame, StrikeFrame DEF RefundDeposit
  <2>2. DepositTypes'
    BY <1>1, <1>2, <1>3, <1>4, <1>5, <1>7 DEF TypeOK, DepositTypes
  <2>3. TokenTypes'
    BY <1>1, <1>3 DEF TypeOK, TokenTypes
  <2> QED BY <2>1, <2>2, <2>3 DEF TypeOK
<1>9. DepositBooks'
  BY <1>4, <1>5, <1>6 DEF DepositBooks
<1>10. RedeemBooks(CurrentSnapshot)' /\ ShareBooks(CurrentSnapshot, claimableDepositShares)'
  BY <1>3, RedeemFrame DEF RefundDeposit
<1>11. ~InPlan'
  BY <1>1, StrikeFrame DEF RefundDeposit
<1>12. Floors'
  BY <1>1, <1>2, <1>3, <1>4, <1>11 DEF IInv, Floors, CoversFloor
<1> QED BY <1>8, <1>9, <1>10, <1>11, <1>12 DEF IInv

\* The shares a deposit buys are a natural number, bootstrap or priced.
LEMMA SharesForIsNat ==
    ASSUME TypeOK, NEW assets \in Nat
    PROVE  SharesFor(assets) \in Nat
<1>1. nav \in Nat /\ totalSupply \in Nat /\ assets * totalSupply \in Nat
  BY DEF TypeOK, AttestTypes, TokenTypes
<1>2. CASE totalSupply # 0 /\ nav # 0
  <2>1. nav > 0
    BY <1>1, <1>2
  <2>2. (assets * totalSupply) \div nav \in Nat
    BY <1>1, <2>1, DivBounds
  <2> QED BY <1>2, <2>2 DEF SharesFor
<1>3. CASE totalSupply = 0 \/ nav = 0
  BY <1>1, <1>3 DEF SharesFor
<1> QED BY <1>2, <1>3

\* A fulfilled deposit mints to the vault the shares it may claim.
LEMMA FulfillDepositStep ==
    ASSUME IInv, FulfillDeposit
    PROVE  IInv'
<1> DEFINE controller == Head(depositQueue)
           assets == pendingDepositAssets[controller]
           shares == SharesFor(assets)
<1>1. TypeOK /\ DepositBooks /\ ShareBooks(CurrentSnapshot, claimableDepositShares)
      /\ ~InPlan /\ depositQueue # <<>>
  BY DEF IInv, FulfillDeposit, InPlan
<1>2. /\ pendingDepositAssets \in Ledger /\ claimableDepositAssets \in Ledger
      /\ claimableDepositShares \in Ledger /\ depositQueue \in Seq(Accounts)
      /\ totalPendingDepositAssets \in Nat /\ totalRefundableDepositAssets \in Nat
      /\ totalClaimableRedeemAssets \in Nat /\ usdc \in Nat /\ nav \in Nat /\ totalSupply \in Nat
      /\ shareBalance \in [Holders -> Nat] /\ Vault \in Holders /\ totalPendingRedeemShares \in Nat
  BY <1>1 DEF TypeOK, AttestTypes, DepositTypes, RedeemTypes, TokenTypes, Holders
<1>3. /\ depositQueue' = Tail(depositQueue)
      /\ pendingDepositAssets' = [pendingDepositAssets EXCEPT ![controller] = 0]
      /\ totalPendingDepositAssets' = totalPendingDepositAssets - assets
      /\ nav' = nav + assets
      /\ claimableDepositAssets' = [claimableDepositAssets EXCEPT ![controller] = @ + assets]
      /\ claimableDepositShares' = [claimableDepositShares EXCEPT ![controller] = @ + shares]
      /\ shareBalance' = [shareBalance EXCEPT ![Vault] = @ + shares]
      /\ totalSupply' = totalSupply + shares
      /\ UNCHANGED <<refundableDepositAssets, totalRefundableDepositAssets, usdc>>
      /\ UNCHANGED redeemVars /\ UNCHANGED grantVars /\ UNCHANGED strikeVars
  BY DEF FulfillDeposit, DequeueDeposit, refundVars
<1>4. /\ controller \in Accounts /\ assets \in Nat /\ depositQueue' \in Seq(Accounts)
      /\ QueuedOnce(depositQueue', pendingDepositAssets')
  BY <1>1, <1>2, <1>3, DequeueKeepsQueue DEF DepositBooks
<1>5. shares \in Nat
  BY <1>1, <1>4, SharesForIsNat
<1> HIDE DEF controller, assets, shares
<1>6. /\ totalPendingDepositAssets' \in Nat
      /\ IsSum(Accounts, pendingDepositAssets', totalPendingDepositAssets')
  BY <1>1, <1>2, <1>3, <1>4, SumOfClear DEF DepositBooks, Ledger, assets
<1>7. /\ pendingDepositAssets' \in Ledger /\ claimableDepositAssets' \in Ledger
      /\ claimableDepositShares' \in Ledger /\ shareBalance' \in [Holders -> Nat]
  BY <1>2, <1>3, <1>4, <1>5, LedgerEntry DEF Ledger
<1>8. TypeOK'
  <2>1. RedeemTypes' /\ GrantTypes' /\ StrikeTypes'
    BY <1>1, <1>3, RedeemTypesFrame, GrantFrame, StrikeFrame
  <2>2. AttestTypes'
    <3>1. UNCHANGED <<block, lastInputsBlock, updateCount, processed, breached>>
      BY DEF FulfillDeposit
    <3>2. nav' \in Nat
      BY <1>2, <1>3, <1>4
    <3> QED BY <1>1, <3>1, <3>2 DEF TypeOK, AttestTypes
  <2>3. DepositTypes'
    BY <1>1, <1>3, <1>4, <1>6, <1>7 DEF TypeOK, DepositTypes
  <2>4. TokenTypes'
    BY <1>2, <1>3, <1>5, <1>7 DEF TokenTypes
  <2> QED BY <2>1, <2>2, <2>3, <2>4 DEF TypeOK
<1>9. DepositBooks'
  BY <1>1, <1>3, <1>4, <1>6 DEF DepositBooks
<1>10. UNCHANGED <<pendingRedeemShares, totalPendingRedeemShares, claimableRedeemAssets,
                   totalClaimableRedeemAssets, redeemQueue>>
  BY <1>3 DEF redeemVars, requestRedeemVars, claimRedeemVars
<1>11. RedeemBooks(CurrentSnapshot)'
  BY <1>10 DEF IInv, RedeemBooks, CurrentSnapshot
<1>12. ShareBooks(CurrentSnapshot, claimableDepositShares)'
  <2>1. IsSum(Holders, shareBalance, totalSupply)
    BY <1>1 DEF ShareBooks, CurrentSnapshot
  <2>2. PICK owed \in Nat : /\ IsSum(Accounts, claimableDepositShares, owed)
                            /\ shareBalance[Vault] >= totalPendingRedeemShares + owed
    BY <1>1 DEF ShareBooks, CurrentSnapshot
  <2>3. IsSum(Holders, shareBalance', totalSupply')
    BY <1>2, <1>3, <1>5, <2>1, SumOfCredit
  <2>4. IsSum(Accounts, claimableDepositShares', owed + shares) /\ owed + shares \in Nat
    <3>1. IsSum(Accounts, [claimableDepositShares EXCEPT ![controller] = @ + shares], owed + shares)
      BY <1>2, <1>4, <1>5, <2>2, SumOfCredit DEF Ledger
    <3> QED BY <1>3, <1>5, <2>2, <3>1
  <2>5. shareBalance'[Vault] = shareBalance[Vault] + shares /\ shareBalance[Vault] \in Nat
    BY <1>2, <1>3
  <2>6. shareBalance'[Vault] >= totalPendingRedeemShares' + (owed + shares)
    BY <1>2, <1>5, <1>10, <2>2, <2>5
  <2> QED BY <2>3, <2>4, <2>6 DEF ShareBooks, CurrentSnapshot
<1>13. ~InPlan'
  BY <1>1, <1>3, StrikeFrame
<1>14. Floors'
  BY <1>1, <1>2, <1>3, <1>4, <1>10, <1>13 DEF IInv, Floors, CoversFloor
<1> QED BY <1>8, <1>9, <1>11, <1>12, <1>13, <1>14 DEF IInv

\* The present state, seen as a snapshot, is one.
LEMMA CurrentIsSnapshot ==
    ASSUME TypeOK
    PROVE  CurrentSnapshot \in Snapshot /\ NoSnapshot \in Snapshot
<1>1. /\ nav \in Nat /\ usdc \in Nat /\ totalSupply \in Nat /\ shareBalance \in [Holders -> Nat]
      /\ pendingRedeemShares \in Ledger /\ claimableRedeemShares \in Ledger
      /\ claimableRedeemAssets \in Ledger /\ redeemQueue \in Seq(Accounts)
      /\ totalPendingRedeemShares \in Nat /\ totalClaimableRedeemAssets \in Nat
  BY DEF TypeOK, AttestTypes, RedeemTypes, TokenTypes
<1>2. CurrentSnapshot \in Snapshot
  BY <1>1 DEF CurrentSnapshot, Snapshot
<1>3. Zero \in Ledger /\ <<>> \in Seq(Accounts) /\ [h \in Holders |-> 0] \in [Holders -> Nat]
  BY DEF Zero, Ledger
<1>4. NoSnapshot \in Snapshot
  BY <1>3 DEF NoSnapshot, Snapshot
<1> QED BY <1>2, <1>4

\* PlanArrayMismatch and EnterPlan: no book moves as the plan is entered.
LEMMA EnterPlanStep ==
    ASSUME IInv, PlanArrayMismatch \/ \E steps \in Nat : EnterPlan(steps)
    PROVE  IInv'
<1>1. TypeOK /\ ~InPlan /\ depositQueue = <<>>
  BY DEF IInv, PlanArrayMismatch, EnterPlan, InPlan
<1>2. /\ UNCHANGED <<redeemVars, shareBalance, totalSupply, usdc>>
      /\ UNCHANGED attestVars /\ UNCHANGED depositVars /\ UNCHANGED redeemVars /\ UNCHANGED grantVars
  BY DEF PlanArrayMismatch, EnterPlan
<1>3. UNCHANGED <<totalPendingDepositAssets, totalRefundableDepositAssets, totalClaimableRedeemAssets,
                  claimableDepositShares, requestDepositVars, refundVars, depositQueue>>
  BY <1>2 DEF depositVars, requestDepositVars, refundVars, claimDepositVars, redeemVars, claimRedeemVars
<1>4. AttestTypes' /\ DepositTypes' /\ RedeemTypes' /\ GrantTypes' /\ TokenTypes'
  <2>1. TokenTypes'
    BY <1>1, <1>2 DEF TypeOK, TokenTypes
  <2> QED BY <1>1, <1>2, <2>1, AttestFrame, DepositTypesFrame, RedeemTypesFrame, GrantFrame
<1>5. DepositBooks' /\ RedeemBooks(CurrentSnapshot)' /\ ShareBooks(CurrentSnapshot, claimableDepositShares)'
  BY <1>2, <1>3, DepositFrame, RedeemFrame
<1>6. CASE PlanArrayMismatch
  <2>1. phase' = "idle" /\ lastPlan' = "rejected" /\ UNCHANGED <<stepsLeft, saved>>
    BY <1>6 DEF PlanArrayMismatch
  <2>2. StrikeTypes' /\ ~InPlan'
    BY <1>1, <2>1 DEF TypeOK, StrikeTypes, InPlan
  <2>3. Floors'
    BY <1>1, <1>2, <1>3, <2>2 DEF IInv, Floors, CoversFloor
  <2> QED BY <1>4, <1>5, <2>2, <2>3 DEF IInv, TypeOK
<1>7. CASE \E steps \in Nat : EnterPlan(steps)
  <2>1. PICK steps \in Nat : EnterPlan(steps)
    BY <1>7
  <2>2. phase' = "plan" /\ stepsLeft' \in Nat /\ saved' = CurrentSnapshot /\ UNCHANGED lastPlan
    BY <2>1, VaultAssumption DEF EnterPlan
  <2>3. StrikeTypes' /\ InPlan'
    BY <1>1, <2>2, CurrentIsSnapshot DEF TypeOK, StrikeTypes, InPlan
  <2>4. RedeemBooks(saved)' /\ ShareBooks(saved, claimableDepositShares)'
    BY <1>3, <2>2 DEF IInv, RedeemBooks, ShareBooks
  <2>5. saved'.usdc = usdc /\ saved'.totalClaimableRedeemAssets = totalClaimableRedeemAssets
    BY <2>2 DEF CurrentSnapshot
  <2>6. Floors'
    BY <1>1, <1>3, <2>3, <2>5 DEF IInv, Floors, CoversFloor
  <2> QED BY <1>1, <1>3, <1>4, <1>5, <2>3, <2>4, <2>6 DEF IInv, TypeOK
<1> QED BY <1>6, <1>7

\* A call to a venue may leave any balance: the floor is the snapshot's until the plan ends.
LEMMA PlanCallStep ==
    ASSUME IInv, (\E balance \in Nat : PlanStep(balance)) \/ PlanStepsDone
    PROVE  IInv'
<1>1. TypeOK /\ InPlan
  BY DEF IInv, PlanStep, PlanStepsDone, InPlan
<1>2. /\ UNCHANGED <<redeemVars, shareBalance, totalSupply>>
      /\ UNCHANGED attestVars /\ UNCHANGED depositVars /\ UNCHANGED redeemVars /\ UNCHANGED grantVars
      /\ UNCHANGED <<saved, lastPlan>> /\ InPlan' /\ phase' \in {"plan", "redeems"}
  BY <1>1 DEF PlanStep, PlanStepsDone, InPlan
<1>3. UNCHANGED <<totalPendingDepositAssets, totalRefundableDepositAssets,
                  claimableDepositShares, requestDepositVars, refundVars, depositQueue>>
  BY <1>2 DEF depositVars, requestDepositVars, refundVars, claimDepositVars
<1>4. usdc' \in Nat /\ stepsLeft' \in Nat
  BY <1>1, VaultAssumption DEF TypeOK, TokenTypes, StrikeTypes, PlanStep, PlanStepsDone, Balances
<1>5. TypeOK'
  <2>1. TokenTypes' /\ StrikeTypes'
    BY <1>1, <1>2, <1>4 DEF TypeOK, TokenTypes, StrikeTypes
  <2> QED BY <1>1, <1>2, <2>1, AttestFrame, DepositTypesFrame, RedeemTypesFrame, GrantFrame DEF TypeOK
<1>6. DepositBooks' /\ RedeemBooks(CurrentSnapshot)' /\ ShareBooks(CurrentSnapshot, claimableDepositShares)'
  BY <1>2, <1>3, DepositFrame, RedeemFrame
<1>7. RedeemBooks(saved)' /\ ShareBooks(saved, claimableDepositShares)' /\ depositQueue' = <<>>
  BY <1>1, <1>2, <1>3, SavedFrame
<1>8. Floors'
  BY <1>1, <1>2, <1>3 DEF IInv, Floors, CoversFloor
<1> QED BY <1>5, <1>6, <1>7, <1>8 DEF IInv

\* The revert of a plan, for whatever reason.
LEMMA RollbackStep ==
    ASSUME IInv, InPlan, Rollback
    PROVE  IInv'
<1>1. TypeOK /\ saved \in Snapshot /\ RedeemBooks(saved) /\ ShareBooks(saved, claimableDepositShares)
  BY DEF IInv, TypeOK, StrikeTypes
<1>2. /\ nav' = saved.nav /\ usdc' = saved.usdc /\ totalSupply' = saved.totalSupply
      /\ shareBalance' = saved.shareBalance /\ pendingRedeemShares' = saved.pendingRedeemShares
      /\ claimableRedeemShares' = saved.claimableRedeemShares
      /\ claimableRedeemAssets' = saved.claimableRedeemAssets /\ redeemQueue' = saved.redeemQueue
      /\ totalPendingRedeemShares' = saved.totalPendingRedeemShares
      /\ totalClaimableRedeemAssets' = saved.totalClaimableRedeemAssets
      /\ phase' = "idle" /\ stepsLeft' = 0 /\ saved' = NoSnapshot /\ lastPlan' = "rejected"
      /\ UNCHANGED depositVars /\ UNCHANGED grantVars
      /\ UNCHANGED <<block, lastInputsBlock, updateCount, processed, breached>>
  BY DEF Rollback
<1>3. UNCHANGED <<totalPendingDepositAssets, totalRefundableDepositAssets,
                  claimableDepositShares, requestDepositVars, refundVars>>
  BY <1>2 DEF depositVars, requestDepositVars, refundVars, claimDepositVars
<1>4. /\ saved.nav \in Nat /\ saved.usdc \in Nat /\ saved.totalSupply \in Nat
      /\ saved.shareBalance \in [Holders -> Nat] /\ saved.pendingRedeemShares \in Ledger
      /\ saved.claimableRedeemShares \in Ledger /\ saved.claimableRedeemAssets \in Ledger
      /\ saved.redeemQueue \in Seq(Accounts) /\ saved.totalPendingRedeemShares \in Nat
      /\ saved.totalClaimableRedeemAssets \in Nat
  BY <1>1 DEF Snapshot
<1>5. TypeOK'
  <2>1. AttestTypes'
    BY <1>1, <1>2, <1>4 DEF TypeOK, AttestTypes
  <2>2. DepositTypes' /\ GrantTypes'
    BY <1>1, <1>2, DepositTypesFrame, GrantFrame
  <2>3. RedeemTypes' /\ TokenTypes'
    BY <1>2, <1>4 DEF RedeemTypes, TokenTypes
  <2>4. StrikeTypes'
    BY <1>1, <1>2, CurrentIsSnapshot DEF StrikeTypes
  <2> QED BY <2>1, <2>2, <2>3, <2>4 DEF TypeOK
<1>6. DepositBooks'
  BY <1>3, DepositFrame
<1>7. RedeemBooks(CurrentSnapshot)'
  BY <1>1, <1>2 DEF RedeemBooks, CurrentSnapshot
<1>8. ShareBooks(CurrentSnapshot, claimableDepositShares)'
  BY <1>1, <1>2, <1>3 DEF ShareBooks, CurrentSnapshot
<1>9. ~InPlan'
  BY <1>2 DEF InPlan
<1>10. Floors'
  BY <1>2, <1>3, <1>9 DEF IInv, Floors, CoversFloor
<1> QED BY <1>5, <1>6, <1>7, <1>8, <1>9, <1>10 DEF IInv

\* A fulfilled redemption burns escrowed shares and reserves at most the NAV.
LEMMA FulfillRedeemStep ==
    ASSUME IInv, FulfillRedeem
    PROVE  IInv'
<1> DEFINE controller == Head(redeemQueue)
           shares == pendingRedeemShares[controller]
           assets == (shares * nav) \div totalSupply
<1>1. TypeOK /\ RedeemBooks(CurrentSnapshot) /\ ShareBooks(CurrentSnapshot, claimableDepositShares)
      /\ InPlan /\ redeemQueue # <<>>
  BY DEF IInv, FulfillRedeem, InPlan
<1>2. /\ pendingRedeemShares \in Ledger /\ claimableRedeemShares \in Ledger
      /\ claimableRedeemAssets \in Ledger /\ redeemQueue \in Seq(Accounts)
      /\ totalPendingRedeemShares \in Nat /\ totalClaimableRedeemAssets \in Nat
      /\ nav \in Nat /\ totalSupply \in Nat /\ usdc \in Nat
      /\ shareBalance \in [Holders -> Nat] /\ Vault \in Holders /\ shareBalance[Vault] \in Nat
  BY <1>1 DEF TypeOK, AttestTypes, RedeemTypes, TokenTypes, Holders
<1>3. /\ redeemQueue' = Tail(redeemQueue)
      /\ pendingRedeemShares' = [pendingRedeemShares EXCEPT ![controller] = 0]
      /\ totalPendingRedeemShares' = totalPendingRedeemShares - shares
      /\ claimableRedeemShares' = [claimableRedeemShares EXCEPT ![controller] = @ + shares]
      /\ claimableRedeemAssets' = [claimableRedeemAssets EXCEPT ![controller] = @ + assets]
      /\ totalClaimableRedeemAssets' = totalClaimableRedeemAssets + assets
      /\ shareBalance' = [shareBalance EXCEPT ![Vault] = @ - shares]
      /\ totalSupply' = totalSupply - shares
      /\ nav' = nav - assets
      /\ UNCHANGED <<block, lastInputsBlock, updateCount, processed, breached, usdc>>
      /\ UNCHANGED depositVars /\ UNCHANGED grantVars /\ UNCHANGED strikeVars
  BY DEF FulfillRedeem
<1>4. /\ IsSum(Accounts, pendingRedeemShares, totalPendingRedeemShares)
      /\ IsSum(Accounts, claimableRedeemAssets, totalClaimableRedeemAssets)
      /\ QueuedOnce(redeemQueue, pendingRedeemShares)
      /\ IsSum(Holders, shareBalance, totalSupply)
  BY <1>1 DEF RedeemBooks, ShareBooks, CurrentSnapshot
<1>5. PICK owed \in Nat : /\ IsSum(Accounts, claimableDepositShares, owed)
                          /\ shareBalance[Vault] >= totalPendingRedeemShares + owed
  BY <1>1 DEF ShareBooks, CurrentSnapshot
<1>6. /\ controller \in Accounts /\ shares \in Nat /\ shares > 0 /\ redeemQueue' \in Seq(Accounts)
      /\ QueuedOnce(redeemQueue', pendingRedeemShares')
  BY <1>1, <1>2, <1>3, <1>4, DequeueKeepsQueue
<1> HIDE DEF controller
<1>7. shares <= totalPendingRedeemShares
  BY <1>2, <1>4, <1>6, SumBounds DEF Ledger
<1>8. shareBalance[Vault] <= totalSupply
  BY <1>2, <1>4, SumBounds
<1> HIDE DEF shares
<1>9. shares <= shareBalance[Vault] /\ shares <= totalSupply /\ totalSupply > 0
  BY <1>2, <1>5, <1>6, <1>7, <1>8
<1>10. assets \in Nat /\ assets <= nav
  BY <1>2, <1>6, <1>9, ProRataBounds
<1> HIDE DEF assets
<1>11. /\ totalPendingRedeemShares' \in Nat
       /\ IsSum(Accounts, pendingRedeemShares', totalPendingRedeemShares')
  BY <1>2, <1>3, <1>4, <1>6, SumOfClear DEF Ledger, shares
<1>12. IsSum(Accounts, claimableRedeemAssets', totalClaimableRedeemAssets')
  BY <1>2, <1>3, <1>4, <1>6, <1>10, SumOfCredit DEF Ledger
<1>13. totalSupply' \in Nat /\ IsSum(Holders, shareBalance', totalSupply')
  BY <1>2, <1>3, <1>4, <1>6, <1>9, SumOfDebit
<1>14. /\ pendingRedeemShares' \in Ledger /\ claimableRedeemShares' \in Ledger
       /\ claimableRedeemAssets' \in Ledger /\ shareBalance' \in [Holders -> Nat]
  BY <1>2, <1>3, <1>6, <1>9, <1>10, LedgerEntry DEF Ledger
<1>15. TypeOK'
  <2>1. DepositTypes' /\ GrantTypes' /\ StrikeTypes'
    BY <1>1, <1>3, DepositTypesFrame, GrantFrame, StrikeFrame
  <2>2. AttestTypes'
    <3>1. nav' \in Nat
      BY <1>2, <1>3, <1>10
    <3> QED BY <1>1, <1>3, <3>1 DEF TypeOK, AttestTypes
  <2>3. RedeemTypes'
    <3>1. totalClaimableRedeemAssets' \in Nat
      BY <1>2, <1>3, <1>10
    <3> QED BY <1>6, <1>11, <1>14, <3>1 DEF RedeemTypes
  <2>4. TokenTypes'
    BY <1>2, <1>3, <1>13, <1>14 DEF TokenTypes
  <2> QED BY <2>1, <2>2, <2>3, <2>4 DEF TypeOK
<1>16. /\ UNCHANGED <<claimableDepositShares, requestDepositVars, refundVars, depositQueue, saved,
                      totalPendingDepositAssets, totalRefundableDepositAssets>>
       /\ UNCHANGED <<saved, claimableDepositShares, depositQueue>>
       /\ UNCHANGED <<requestDepositVars, refundVars>> /\ InPlan'
  BY <1>1, <1>3, StrikeFrame DEF depositVars, requestDepositVars, refundVars, claimDepositVars, strikeVars
<1>17. DepositBooks'
  BY <1>16, DepositFrame
<1>18. RedeemBooks(CurrentSnapshot)'
  BY <1>6, <1>11, <1>12 DEF RedeemBooks, CurrentSnapshot
<1>19. ShareBooks(CurrentSnapshot, claimableDepositShares)'
  <2>1. shareBalance'[Vault] = shareBalance[Vault] - shares
    BY <1>2, <1>3
  <2>2. shareBalance'[Vault] >= totalPendingRedeemShares' + owed
    BY <1>2, <1>3, <1>5, <1>6, <2>1
  <2> QED BY <1>5, <1>13, <1>16, <2>2 DEF ShareBooks, CurrentSnapshot
<1>20. RedeemBooks(saved)' /\ ShareBooks(saved, claimableDepositShares)' /\ depositQueue' = <<>>
  BY <1>1, <1>16, SavedFrame
<1>21. Floors'
  BY <1>1, <1>16 DEF IInv, Floors, CoversFloor
<1> QED BY <1>15, <1>17, <1>18, <1>19, <1>20, <1>21 DEF IInv

\* A plan that ends above the floor is kept.
LEMMA PlanExecutedStep ==
    ASSUME IInv, PlanExecuted
    PROVE  IInv'
<1>1. TypeOK /\ usdc >= EscrowFloorAmount
  BY DEF IInv, PlanExecuted
<1>2. /\ UNCHANGED <<redeemVars, shareBalance, totalSupply, usdc>>
      /\ UNCHANGED attestVars /\ UNCHANGED depositVars /\ UNCHANGED redeemVars /\ UNCHANGED grantVars
      /\ phase' = "idle" /\ saved' = NoSnapshot /\ lastPlan' = "executed" /\ UNCHANGED stepsLeft
  BY DEF PlanExecuted
<1>3. UNCHANGED <<totalPendingDepositAssets, totalRefundableDepositAssets, totalClaimableRedeemAssets,
                  claimableDepositShares, requestDepositVars, refundVars>>
  BY <1>2 DEF depositVars, requestDepositVars, refundVars, claimDepositVars, redeemVars, claimRedeemVars
<1>4. TypeOK' /\ ~InPlan'
  <2>1. TokenTypes'
    BY <1>1, <1>2 DEF TypeOK, TokenTypes
  <2>2. StrikeTypes' /\ ~InPlan'
    BY <1>1, <1>2, CurrentIsSnapshot DEF TypeOK, StrikeTypes, InPlan
  <2> QED BY <1>1, <1>2, <2>1, <2>2, AttestFrame, DepositTypesFrame, RedeemTypesFrame, GrantFrame DEF TypeOK
<1>5. DepositBooks' /\ RedeemBooks(CurrentSnapshot)' /\ ShareBooks(CurrentSnapshot, claimableDepositShares)'
  BY <1>2, <1>3, DepositFrame, RedeemFrame
<1>6. Floors'
  BY <1>1, <1>2, <1>3, <1>4 DEF Floors, CoversFloor, EscrowFloorAmount
<1> QED BY <1>4, <1>5, <1>6 DEF IInv

-----------------------------------------------------------------------------
(* The invariant is inductive                                              *)

\* Every request keeps the invariant.
LEMMA RequestStep ==
    ASSUME IInv, Request
    PROVE  IInv'
<1>1. PICK sender \in Accounts, controller \in Accounts, owner \in Accounts :
          \/ \E assets \in Amounts : requestDeposit(sender, assets, controller, owner)
          \/ \E shares \in 1 .. shareBalance[owner] : requestRedeem(sender, shares, controller, owner)
  BY DEF Request
<1>2. CASE \E assets \in Amounts : requestDeposit(sender, assets, controller, owner)
  <2>1. PICK assets \in Amounts : requestDeposit(sender, assets, controller, owner)
    BY <1>2
  <2>2. assets \in Nat
    BY VaultAssumption
  <2> QED BY <2>1, <2>2, RequestDepositStep
<1>3. CASE \E shares \in 1 .. shareBalance[owner] : requestRedeem(sender, shares, controller, owner)
  <2>1. PICK shares \in 1 .. shareBalance[owner] : requestRedeem(sender, shares, controller, owner)
    BY <1>3
  <2>2. shares \in Nat
    BY DEF IInv, TypeOK, TokenTypes, Holders
  <2> QED BY <2>1, <2>2, RequestRedeemStep
<1> QED BY <1>1, <1>2, <1>3

\* Whichever side a claim names, both sides of its split are within the bucket.
LEMMA ClaimStep ==
    ASSUME IInv, Claim
    PROVE  IInv'
<1>1. PICK sender \in Accounts, controller \in Accounts, receiver \in Holders :
        \/ \E x \in 1 .. claimableDepositAssets[controller] : deposit(sender, x, receiver, controller)
        \/ \E x \in 1 .. claimableDepositShares[controller] : mint(sender, x, receiver, controller)
        \/ \E x \in 1 .. claimableRedeemShares[controller] : redeem(sender, x, receiver, controller)
        \/ \E x \in 1 .. claimableRedeemAssets[controller] : withdraw(sender, x, receiver, controller)
        \/ claimDepositRefund(sender, receiver, controller)
  BY DEF Claim
<1> DEFINE da == claimableDepositAssets[controller]
           ds == claimableDepositShares[controller]
           rs == claimableRedeemShares[controller]
           ra == claimableRedeemAssets[controller]
<1>2. da \in Nat /\ ds \in Nat /\ rs \in Nat /\ ra \in Nat
  BY DEF IInv, TypeOK, DepositTypes, RedeemTypes, Ledger
<1>3. CASE \E x \in 1 .. da : deposit(sender, x, receiver, controller)
  <2>1. PICK x \in 1 .. da : deposit(sender, x, receiver, controller)
    BY <1>3
  <2> DEFINE split == SplitClaim(x, da, ds)
  <2>2. x \in Nat /\ x # 0 /\ x <= da
    BY <1>2
  <2>3. split[1] \in Nat /\ split[1] <= da /\ split[2] \in Nat /\ split[2] <= ds
    BY <1>2, <2>2, SplitClaimBounds
  <2>4. Idle /\ ClaimDeposit(receiver, controller, split[1], split[2])
    BY <2>1 DEF deposit
  <2> QED BY <2>3, <2>4, ClaimDepositStep
<1>4. CASE \E x \in 1 .. ds : mint(sender, x, receiver, controller)
  <2>1. PICK x \in 1 .. ds : mint(sender, x, receiver, controller)
    BY <1>4
  <2> DEFINE split == SplitClaim(x, ds, da)
  <2>2. x \in Nat /\ x # 0 /\ x <= ds
    BY <1>2
  <2>3. split[1] \in Nat /\ split[1] <= ds /\ split[2] \in Nat /\ split[2] <= da
    BY <1>2, <2>2, SplitClaimBounds
  <2>4. Idle /\ ClaimDeposit(receiver, controller, split[2], split[1])
    BY <2>1 DEF mint
  <2> QED BY <2>3, <2>4, ClaimDepositStep
<1>5. CASE \E x \in 1 .. rs : redeem(sender, x, receiver, controller)
  <2>1. PICK x \in 1 .. rs : redeem(sender, x, receiver, controller)
    BY <1>5
  <2> DEFINE split == SplitClaim(x, rs, ra)
  <2>2. x \in Nat /\ x # 0 /\ x <= rs
    BY <1>2
  <2>3. split[1] \in Nat /\ split[1] <= rs /\ split[2] \in Nat /\ split[2] <= ra
    BY <1>2, <2>2, SplitClaimBounds
  <2>4. Idle /\ ClaimRedeem(receiver, controller, split[1], split[2])
    BY <2>1 DEF redeem
  <2> QED BY <2>3, <2>4, ClaimRedeemStep
<1>6. CASE \E x \in 1 .. ra : withdraw(sender, x, receiver, controller)
  <2>1. PICK x \in 1 .. ra : withdraw(sender, x, receiver, controller)
    BY <1>6
  <2> DEFINE split == SplitClaim(x, ra, rs)
  <2>2. x \in Nat /\ x # 0 /\ x <= ra
    BY <1>2
  <2>3. split[1] \in Nat /\ split[1] <= ra /\ split[2] \in Nat /\ split[2] <= rs
    BY <1>2, <2>2, SplitClaimBounds
  <2>4. Idle /\ ClaimRedeem(receiver, controller, split[2], split[1])
    BY <2>1 DEF withdraw
  <2> QED BY <2>3, <2>4, ClaimRedeemStep
<1>7. CASE claimDepositRefund(sender, receiver, controller)
  BY <1>7, ClaimRefundStep
<1> QED BY <1>1, <1>3, <1>4, <1>5, <1>6, <1>7

\* Every step of a strike keeps the invariant.
LEMMA StrikeStep ==
    ASSUME IInv, Strike
    PROVE  IInv'
<1>1. CASE \E eventId \in EventIds, attestedNav \in Navs, inputsBlock \in 0 .. MaxBlock,
              breachFlags \in BOOLEAN :
              handleSignedEnvelope(eventId, attestedNav, inputsBlock, breachFlags)
  <2>1. PICK eventId \in EventIds, attestedNav \in Navs, inputsBlock \in 0 .. MaxBlock,
             breachFlags \in BOOLEAN :
             handleSignedEnvelope(eventId, attestedNav, inputsBlock, breachFlags)
    BY <1>1
  <2>2. attestedNav \in Nat /\ inputsBlock \in Nat
    BY VaultAssumption
  <2> QED BY <2>1, <2>2, EnvelopeStep
<1>2. CASE PlanStepReverts \/ EscrowFloorBreached
  <2>1. InPlan /\ Rollback
    BY <1>2 DEF PlanStepReverts, EscrowFloorBreached, InPlan
  <2> QED BY <2>1, RollbackStep
<1>3. Balances \subseteq Nat /\ 0 .. MaxPlanSteps \subseteq Nat
  BY VaultAssumption DEF Balances
<1> QED BY <1>1, <1>2, <1>3, RefundDepositStep, FulfillDepositStep, EnterPlanStep, PlanCallStep,
           FulfillRedeemStep, PlanExecutedStep DEF Strike

\* The invariant holds of a new vault.
LEMMA InitEstablishes ==
    ASSUME Init
    PROVE  IInv
<1>1. Zero \in Ledger /\ <<>> \in Seq(Accounts) /\ [h \in Holders |-> 0] \in [Holders -> Nat]
      /\ Zero = [c \in Accounts |-> 0] /\ Vault \in Holders
  BY DEF Zero, Ledger, Holders
<1>2. DepositTypes /\ RedeemTypes
  BY <1>1 DEF Init, DepositTypes, RedeemTypes
<1>3. AttestTypes /\ TokenTypes
  BY <1>1 DEF Init, AttestTypes, TokenTypes
<1>4. GrantTypes
  BY DEF Init, GrantTypes
<1>5. NoSnapshot \in Snapshot
  BY <1>1 DEF NoSnapshot, Snapshot
<1>6. StrikeTypes /\ ~InPlan
  BY <1>5 DEF Init, StrikeTypes, InPlan
<1>7. IsSum(Accounts, Zero, 0) /\ IsSum(Holders, [h \in Holders |-> 0], 0)
  BY <1>1, SumOfZero
<1>8. QueuedOnce(<<>>, Zero)
  BY DEF QueuedOnce, Zero
<1>9. DepositBooks
  BY <1>7, <1>8 DEF Init, DepositBooks
<1>10. RedeemBooks(CurrentSnapshot)
  BY <1>7, <1>8 DEF Init, RedeemBooks, CurrentSnapshot
<1>11. ShareBooks(CurrentSnapshot, claimableDepositShares)
  <2>1. shareBalance[Vault] >= totalPendingRedeemShares + 0
    BY <1>1 DEF Init
  <2>2. IsSum(Holders, shareBalance, totalSupply) /\ IsSum(Accounts, claimableDepositShares, 0)
    BY <1>7 DEF Init
  <2> QED BY <2>1, <2>2 DEF ShareBooks, CurrentSnapshot
<1>12. Floors
  BY <1>6 DEF Init, Floors, CoversFloor
<1> QED BY <1>2, <1>3, <1>4, <1>6, <1>9, <1>10, <1>11, <1>12 DEF IInv, TypeOK

\* The invariant is a predicate of the variables in vars.
LEMMA StutterStep ==
    ASSUME IInv, UNCHANGED vars
    PROVE  IInv'
<1>1. /\ UNCHANGED attestVars /\ UNCHANGED depositVars /\ UNCHANGED redeemVars
      /\ UNCHANGED grantVars /\ UNCHANGED strikeVars
      /\ UNCHANGED <<redeemVars, shareBalance, totalSupply>> /\ UNCHANGED usdc
  BY DEF vars
<1>2. UNCHANGED <<totalPendingDepositAssets, totalRefundableDepositAssets, totalClaimableRedeemAssets,
                  claimableDepositShares, requestDepositVars, refundVars, depositQueue>>
  BY <1>1 DEF depositVars, requestDepositVars, refundVars, claimDepositVars, redeemVars, claimRedeemVars
<1>3. TypeOK' /\ InPlan' = InPlan /\ UNCHANGED saved
  <2>1. TokenTypes'
    BY <1>1 DEF IInv, TypeOK, TokenTypes
  <2>2. UNCHANGED saved
    BY <1>1 DEF strikeVars
  <2> QED BY <1>1, <2>1, <2>2, AttestFrame, DepositTypesFrame, RedeemTypesFrame, GrantFrame, StrikeFrame
          DEF IInv, TypeOK
<1>4. DepositBooks' /\ RedeemBooks(CurrentSnapshot)' /\ ShareBooks(CurrentSnapshot, claimableDepositShares)'
  BY <1>1, <1>2, DepositFrame, RedeemFrame
<1>5. InPlan' => RedeemBooks(saved)' /\ ShareBooks(saved, claimableDepositShares)' /\ depositQueue' = <<>>
  BY <1>2, <1>3, SavedFrame
<1>6. Floors'
  BY <1>1, <1>2, <1>3 DEF IInv, Floors, CoversFloor
<1> QED BY <1>3, <1>4, <1>5, <1>6 DEF IInv

\* The invariant is inductive.
LEMMA NextStep ==
    ASSUME IInv, [Next]_vars
    PROVE  IInv'
  BY RequestStep, ClaimStep, StrikeStep, StrategistStep, DelegationStep, EnvironmentStep, StutterStep
     DEF Next

\* IInv holds in every reachable state.
THEOREM InductiveInvariant == Spec => []IInv
  BY InitEstablishes, NextStep, PTL DEF Spec

-----------------------------------------------------------------------------
(* Theorems                                                                *)

(***************************************************************************)
(* No subtraction of the vault's books underflows, whatever the order of   *)
(* requests, strikes, rejected plans, claims and refunds.                  *)
(***************************************************************************)
THEOREM TypeCorrect == Spec => []TypeOK
<1>1. IInv => TypeOK
  BY DEF IInv
<1> QED BY <1>1, InductiveInvariant, PTL

(***************************************************************************)
(* Outside a plan the vault holds the USDC it owes to depositors and       *)
(* redeemers, whatever the venues of the strategy do.                      *)
(***************************************************************************)
THEOREM EscrowFloorHolds == Spec => []EscrowFloor
<1>1. IInv => EscrowFloor
  <2> SUFFICES ASSUME IInv, ~TokenMayBurn, phase \in {"idle", "deposits"}
               PROVE  usdc >= EscrowFloorAmount
    BY DEF EscrowFloor
  <2>1. ~InPlan
    BY DEF InPlan
  <2> QED BY <2>1 DEF IInv, Floors, CoversFloor, EscrowFloorAmount
<1> QED BY <1>1, InductiveInvariant, PTL

(***************************************************************************)
(* Each aggregate counter the escrow floor is built from is what its       *)
(* per-controller book adds up to: no partial settlement, rounded claim or *)
(* rolled back plan lets them drift apart.                                 *)
(***************************************************************************)
THEOREM BooksStayBalanced == Spec => []BooksBalance
<1>1. IInv => BooksBalance
  <2> SUFFICES ASSUME IInv PROVE BooksBalance
    OBVIOUS
  <2>1. /\ pendingDepositAssets \in [Accounts -> Nat] /\ refundableDepositAssets \in [Accounts -> Nat]
        /\ pendingRedeemShares \in [Accounts -> Nat] /\ claimableRedeemAssets \in [Accounts -> Nat]
    BY DEF IInv, TypeOK, DepositTypes, RedeemTypes, Ledger
  <2>2. /\ IsSum(Accounts, pendingDepositAssets, totalPendingDepositAssets)
        /\ IsSum(Accounts, refundableDepositAssets, totalRefundableDepositAssets)
        /\ IsSum(Accounts, pendingRedeemShares, totalPendingRedeemShares)
        /\ IsSum(Accounts, claimableRedeemAssets, totalClaimableRedeemAssets)
    BY DEF IInv, DepositBooks, RedeemBooks, CurrentSnapshot
  <2>3. IsFiniteSet(Accounts)
    BY VaultAssumption
  <2> QED BY <2>1, <2>2, <2>3, SumFunctionIsSum DEF BooksBalance
<1> QED BY <1>1, InductiveInvariant, PTL

(***************************************************************************)
(* The supply is what the holders have, and what the vault holds of it     *)
(* covers every queued redemption and every unclaimed deposit: the burn of *)
(* a settlement and the transfer of a claim always find their shares.      *)
(***************************************************************************)
THEOREM SharesStayInEscrow == Spec => []ShareEscrow
<1>1. IInv => ShareEscrow
  <2> SUFFICES ASSUME IInv PROVE ShareEscrow
    OBVIOUS
  <2>1. shareBalance \in [Holders -> Nat] /\ claimableDepositShares \in [Accounts -> Nat]
    BY DEF IInv, TypeOK, TokenTypes, DepositTypes, Ledger
  <2>2. IsSum(Holders, shareBalance, totalSupply)
    BY DEF IInv, ShareBooks, CurrentSnapshot
  <2>3. PICK owed \in Nat : /\ IsSum(Accounts, claimableDepositShares, owed)
                            /\ shareBalance[Vault] >= totalPendingRedeemShares + owed
    BY DEF IInv, ShareBooks, CurrentSnapshot
  <2>4. IsFiniteSet(Accounts) /\ IsFiniteSet(Holders)
    BY VaultAssumption, FS_AddElement DEF Holders
  <2>5. totalSupply = SumFunction(shareBalance) /\ owed = SumFunction(claimableDepositShares)
    BY <2>1, <2>2, <2>3, <2>4, SumFunctionIsSum
  <2> QED BY <2>3, <2>5 DEF ShareEscrow
<1> QED BY <1>1, InductiveInvariant, PTL

(***************************************************************************)
(* A controller is in a queue, once, exactly while it has something        *)
(* pending: in every state, a strike in flight included.                   *)
(***************************************************************************)
THEOREM QueuesStayInStep == Spec => []QueuesMatchPending
<1>1. IInv => QueuesMatchPending
  BY DEF IInv, DepositBooks, RedeemBooks, CurrentSnapshot, QueuesMatchPending
<1> QED BY <1>1, InductiveInvariant, PTL

-----------------------------------------------------------------------------
(* Which steps write the books                                             *)

\* A step that leaves every book alone; a plan it starts saves the present books.
BooksKept ==
    /\ UNCHANGED <<pendingDepositAssets, depositQueue, totalPendingDepositAssets,
                   claimableDepositAssets, claimableDepositShares, totalSupply>>
    /\ UNCHANGED <<pendingRedeemShares, redeemQueue, totalPendingRedeemShares,
                   claimableRedeemShares, claimableRedeemAssets>>
    /\ InPlan' => saved' = CurrentSnapshot \/ (InPlan /\ UNCHANGED saved)

\* Everybody but the requesters, the claimants and the strike keeps the books.
LEMMA QuietKeepsBooks ==
    ASSUME Strategist \/ Delegation \/ Environment \/ UNCHANGED vars
    PROVE  BooksKept
<1>1. UNCHANGED depositVars /\ UNCHANGED redeemVars /\ UNCHANGED totalSupply /\ UNCHANGED strikeVars
  <2>1. CASE Strategist
    BY <2>1 DEF Strategist, execute, emergencyExecute, StrategistCall
  <2>2. CASE Delegation
    BY <2>2 DEF Delegation, setOperator, approve
  <2>3. CASE Environment
    BY <2>3 DEF Environment, NextBlock, transfer, Donate, TokenBurn
  <2>4. CASE UNCHANGED vars
    BY <2>4 DEF vars
  <2> QED BY <2>1, <2>2, <2>3, <2>4
<1> QED BY <1>1 DEF BooksKept, depositVars, requestDepositVars, claimDepositVars, redeemVars,
           requestRedeemVars, claimRedeemVars, strikeVars, InPlan

\* In the strike the two settlement loops and a rejected plan write the books.
LEMMA StrikeWritesBooks ==
    ASSUME Strike
    PROVE  BooksKept \/ RefundDeposit \/ FulfillDeposit \/ FulfillRedeem \/ (InPlan /\ Rollback)
<1>1. CASE PlanStepReverts \/ EscrowFloorBreached
  BY <1>1 DEF PlanStepReverts, EscrowFloorBreached, InPlan
<1>2. CASE \E eventId \in EventIds, attestedNav \in Navs, inputsBlock \in 0 .. MaxBlock,
              breachFlags \in BOOLEAN :
              handleSignedEnvelope(eventId, attestedNav, inputsBlock, breachFlags)
  <2>1. UNCHANGED depositVars /\ UNCHANGED redeemVars /\ UNCHANGED totalSupply /\ ~InPlan'
    BY <1>2 DEF handleSignedEnvelope, InPlan
  <2> QED BY <2>1 DEF BooksKept, depositVars, requestDepositVars, claimDepositVars, redeemVars,
             requestRedeemVars, claimRedeemVars
<1>3. CASE PlanArrayMismatch \/ PlanExecuted
  <2>1. UNCHANGED depositVars /\ UNCHANGED redeemVars /\ UNCHANGED totalSupply /\ ~InPlan'
    BY <1>3 DEF PlanArrayMismatch, PlanExecuted, InPlan
  <2> QED BY <2>1 DEF BooksKept, depositVars, requestDepositVars, claimDepositVars, redeemVars,
             requestRedeemVars, claimRedeemVars
<1>4. CASE \E steps \in 0 .. MaxPlanSteps : EnterPlan(steps)
  <2>1. UNCHANGED depositVars /\ UNCHANGED redeemVars /\ UNCHANGED totalSupply
        /\ saved' = CurrentSnapshot
    BY <1>4 DEF EnterPlan
  <2> QED BY <2>1 DEF BooksKept, depositVars, requestDepositVars, claimDepositVars, redeemVars,
             requestRedeemVars, claimRedeemVars
<1>5. CASE (\E balance \in Balances : PlanStep(balance)) \/ PlanStepsDone
  <2>1. UNCHANGED depositVars /\ UNCHANGED redeemVars /\ UNCHANGED totalSupply
        /\ InPlan /\ UNCHANGED saved
    BY <1>5 DEF PlanStep, PlanStepsDone, InPlan
  <2> QED BY <2>1 DEF BooksKept, depositVars, requestDepositVars, claimDepositVars, redeemVars,
             requestRedeemVars, claimRedeemVars
<1> QED BY <1>1, <1>2, <1>3, <1>4, <1>5 DEF Strike

\* The steps that matter to the books.
LEMMA BookSteps ==
    ASSUME [Next]_vars
    PROVE  \/ BooksKept \/ Request \/ Claim
           \/ RefundDeposit \/ FulfillDeposit \/ FulfillRedeem \/ (InPlan /\ Rollback)
  BY QuietKeepsBooks, StrikeWritesBooks DEF Next

-----------------------------------------------------------------------------
(* The order of strikes                                                    *)

\* Only an envelope writes what orders the strikes, and blocks only advance.
LEMMA OnlyEnvelopesStrike ==
    ASSUME [Next]_vars, block \in Nat
    PROVE  \/ /\ UNCHANGED <<lastInputsBlock, updateCount, processed>>
              /\ block' = block \/ block' = block + 1
           \/ \E eventId \in EventIds, attestedNav \in Navs, inputsBlock \in 0 .. MaxBlock,
                 breachFlags \in BOOLEAN :
                 handleSignedEnvelope(eventId, attestedNav, inputsBlock, breachFlags)
<1>1. CASE Request
  BY <1>1 DEF Request, requestDeposit, requestRedeem, attestVars
<1>2. CASE Claim
  BY <1>2 DEF Claim, deposit, mint, redeem, withdraw, claimDepositRefund, ClaimDeposit, ClaimRedeem,
              attestVars
<1>3. CASE Strike
  BY <1>3 DEF Strike, RefundDeposit, FulfillDeposit, PlanArrayMismatch, EnterPlan, PlanStep,
              PlanStepReverts, PlanStepsDone, FulfillRedeem, PlanExecuted, EscrowFloorBreached,
              Rollback, attestVars
<1>4. CASE Strategist
  BY <1>4 DEF Strategist, execute, emergencyExecute, StrategistCall, attestVars
<1>5. CASE Delegation
  BY <1>5 DEF Delegation, setOperator, approve, attestVars
<1>6. CASE Environment
  BY <1>6 DEF Environment, NextBlock, transfer, Donate, TokenBurn, attestVars
<1>7. CASE UNCHANGED vars
  BY <1>7 DEF vars, attestVars
<1> QED BY <1>1, <1>2, <1>3, <1>4, <1>5, <1>6, <1>7 DEF Next

(***************************************************************************)
(* Every strike counted is another envelope, valuing the vault at a later  *)
(* block than the strike before it, for any number of envelopes delivered  *)
(* in any order: the processed and lastInputsBlock checks of               *)
(* handleSignedEnvelope are enough.                                        *)
(***************************************************************************)
THEOREM StrikesStayInOrder == Spec => []StrikesInOrder
<1> DEFINE Ordered == StrikesInOrder /\ IsFiniteSet(processed)
<1>1. Init => Ordered
  BY FS_EmptySet DEF Init, StrikesInOrder
<1>2. ASSUME IInv, Ordered, [Next]_vars PROVE Ordered'
  <2>1. block \in Nat /\ lastInputsBlock \in Nat /\ updateCount \in Nat
    BY <1>2 DEF IInv, TypeOK, AttestTypes
  <2>2. CASE /\ UNCHANGED <<lastInputsBlock, updateCount, processed>>
             /\ block' = block \/ block' = block + 1
    <3>1. block' \in Int /\ block' >= block /\ UNCHANGED <<lastInputsBlock, updateCount, processed>>
      BY <2>1, <2>2
    <3>2. lastInputsBlock <= block'
      BY <1>2, <2>1, <3>1 DEF StrikesInOrder
    <3> QED BY <1>2, <3>1, <3>2 DEF StrikesInOrder
  <2>3. CASE \E eventId \in EventIds, attestedNav \in Navs, inputsBlock \in 0 .. MaxBlock,
                breachFlags \in BOOLEAN :
                handleSignedEnvelope(eventId, attestedNav, inputsBlock, breachFlags)
    <3>1. PICK eventId \in EventIds, attestedNav \in Navs, inputsBlock \in 0 .. MaxBlock,
                breachFlags \in BOOLEAN :
                handleSignedEnvelope(eventId, attestedNav, inputsBlock, breachFlags)
      BY <2>3
    <3> /\ eventId \notin processed /\ inputsBlock <= block /\ inputsBlock > lastInputsBlock
        /\ processed' = processed \cup {eventId} /\ lastInputsBlock' = inputsBlock
        /\ updateCount' = updateCount + 1 /\ block' = block
      BY <3>1 DEF handleSignedEnvelope
    <3>2. inputsBlock \in Int
      OBVIOUS
    <3>3. IsFiniteSet(processed') /\ Cardinality(processed') = Cardinality(processed) + 1
      BY <1>2, FS_AddElement
    <3>4. updateCount' = Cardinality(processed')
      BY <1>2, <3>3 DEF StrikesInOrder
    <3>5. updateCount' <= lastInputsBlock' /\ lastInputsBlock' <= block'
      BY <1>2, <2>1, <3>2 DEF StrikesInOrder
    <3> QED BY <3>3, <3>4, <3>5 DEF StrikesInOrder
  <2> QED BY <1>2, <2>1, <2>2, <2>3, OnlyEnvelopesStrike
<1>3. Ordered => StrikesInOrder
  OBVIOUS
<1> HIDE DEF Ordered
<1> QED BY <1>1, <1>2, <1>3, InductiveInvariant, PTL DEF Spec

-----------------------------------------------------------------------------
(* The price of a settlement                                               *)

\* A fulfilled deposit buys no more shares than its assets are worth.
LEMMA DepositFavoursVault ==
    ASSUME IInv, totalSupply > 0, FulfillDeposit
    PROVE  nav' * totalSupply >= nav * totalSupply'
<1> DEFINE assets == pendingDepositAssets[Head(depositQueue)]
           shares == SharesFor(assets)
<1>1. TypeOK /\ DepositBooks /\ depositQueue # <<>>
  BY DEF IInv, FulfillDeposit
<1>2. assets \in Nat /\ nav \in Nat /\ totalSupply \in Nat
  BY <1>1, DequeueKeepsQueue DEF DepositBooks, TypeOK, DepositTypes, AttestTypes, TokenTypes
<1>3. nav' = nav + assets /\ totalSupply' = totalSupply + shares
  BY DEF FulfillDeposit
<1> HIDE DEF assets
<1>4. shares \in Nat
  BY <1>1, <1>2, SharesForIsNat
<1>5. shares * nav <= assets * totalSupply
  <2>1. CASE nav = 0
    BY <1>2, <1>4, <2>1
  <2>2. CASE nav # 0
    <3>1. assets * totalSupply \in Nat /\ nav > 0
      BY <1>2, <2>2
    <3>2. shares = (assets * totalSupply) \div nav
      BY <2>2 DEF SharesFor
    <3> QED BY <1>2, <3>1, <3>2, DivBounds
  <2> QED BY <2>1, <2>2
<1> HIDE DEF shares
<1>6. (nav + assets) * totalSupply = nav * totalSupply + assets * totalSupply
      /\ nav * (totalSupply + shares) = nav * totalSupply + shares * nav
  BY <1>2, <1>4
<1>7. nav * totalSupply \in Int /\ assets * totalSupply \in Int /\ shares * nav \in Int
  BY <1>2, <1>4
<1> QED BY <1>3, <1>5, <1>6, <1>7

\* A fulfilled redemption is paid no more than its shares are worth.
LEMMA RedeemFavoursVault ==
    ASSUME IInv, totalSupply > 0, FulfillRedeem
    PROVE  nav' * totalSupply >= nav * totalSupply'
<1> DEFINE shares == pendingRedeemShares[Head(redeemQueue)]
           assets == (shares * nav) \div totalSupply
<1>1. TypeOK /\ RedeemBooks(CurrentSnapshot) /\ redeemQueue # <<>>
  BY DEF IInv, FulfillRedeem
<1>2. QueuedOnce(redeemQueue, pendingRedeemShares)
  BY <1>1 DEF RedeemBooks, CurrentSnapshot
<1>3. shares \in Nat /\ nav \in Nat /\ totalSupply \in Nat
  BY <1>1, <1>2, DequeueKeepsQueue DEF TypeOK, RedeemTypes, AttestTypes, TokenTypes
<1>4. nav' = nav - assets /\ totalSupply' = totalSupply - shares
  BY DEF FulfillRedeem
<1> HIDE DEF shares
<1>5. assets \in Nat /\ assets * totalSupply <= shares * nav
  <2>1. shares * nav \in Nat
    BY <1>3
  <2> QED BY <1>3, <2>1, DivBounds
<1> HIDE DEF assets
<1>6. (nav - assets) * totalSupply = nav * totalSupply - assets * totalSupply
      /\ nav * (totalSupply - shares) = nav * totalSupply - shares * nav
  BY <1>3, <1>5
<1>7. nav * totalSupply \in Int /\ assets * totalSupply \in Int /\ shares * nav \in Int
  BY <1>3, <1>5
<1> QED BY <1>4, <1>5, <1>6, <1>7

(***************************************************************************)
(* Settling one request never lowers the NAV per share of the others: for  *)
(* every attested NAV, supply and amount the rounding of _fulfillDeposits  *)
(* and _fulfillRedeems is on the vault's side.                             *)
(***************************************************************************)
THEOREM SettlementNeverDilutes == Spec => NoDilution
<1>1. IInv => (totalSupply > 0 /\ (FulfillDeposit \/ FulfillRedeem) =>
                   nav' * totalSupply >= nav * totalSupply')
  BY DepositFavoursVault, RedeemFavoursVault
<1> QED BY <1>1, InductiveInvariant, PTL DEF NoDilution

-----------------------------------------------------------------------------
(* What a strike settles                                                   *)

\* With an empty queue nobody has anything pending.
LEMMA NothingPending ==
    ASSUME NEW pending \in Ledger, QueuedOnce(<<>>, pending)
    PROVE  \A c \in Accounts : pending[c] = 0
  BY DEF QueuedOnce, Ledger

\* So the aggregate of an empty queue is zero.
LEMMA NothingQueuedIsZero ==
    ASSUME NEW pending \in Ledger, NEW total, QueuedOnce(<<>>, pending),
           IsSum(Accounts, pending, total)
    PROVE  total = 0
<1>1. pending = [c \in Accounts |-> 0]
  BY NothingPending DEF Ledger
<1>2. IsSum(Accounts, pending, 0)
  BY <1>1, SumOfZero
<1> QED BY <1>2, SumIsUnique, VaultAssumption DEF Ledger

\* A strike ends with its deposit queue empty, and its redeem queue too when the plan was executed.
LEMMA StrikeEndsEmpty ==
    ASSUME IInv, [Next]_vars, phase # "idle", phase' = "idle"
    PROVE  depositQueue' = <<>> /\ (lastPlan' = "executed" => redeemQueue' = <<>>)
<1>1. Strike
  <2>1. CASE Request
    BY <2>1 DEF Request, requestDeposit, requestRedeem, Idle
  <2>2. CASE Claim
    BY <2>2 DEF Claim, deposit, mint, redeem, withdraw, claimDepositRefund, Idle
  <2>3. CASE Strategist \/ Delegation
    BY <2>3 DEF Strategist, execute, emergencyExecute, StrategistCall, strikeVars, Delegation,
                setOperator, approve, Idle
  <2>4. CASE Environment \/ UNCHANGED vars
    BY <2>4 DEF Environment, NextBlock, transfer, Donate, TokenBurn, Idle, vars, strikeVars
  <2> QED BY <2>1, <2>2, <2>3, <2>4 DEF Next
<1>2. CASE PlanArrayMismatch
  BY <1>2 DEF PlanArrayMismatch, depositVars, requestDepositVars
<1>3. CASE PlanExecuted
  <2>1. depositQueue = <<>>
    BY <1>3 DEF IInv, PlanExecuted, InPlan
  <2>2. UNCHANGED depositQueue
    BY <1>3 DEF PlanExecuted, depositVars, requestDepositVars
  <2>3. redeemQueue' = <<>>
    BY <1>3 DEF PlanExecuted, redeemVars, requestRedeemVars
  <2> QED BY <2>1, <2>2, <2>3
<1>4. CASE PlanStepReverts \/ EscrowFloorBreached
  <2>1. InPlan /\ Rollback
    BY <1>4 DEF PlanStepReverts, EscrowFloorBreached, InPlan
  <2>2. depositQueue = <<>>
    BY <2>1 DEF IInv
  <2>3. UNCHANGED depositQueue /\ lastPlan' = "rejected"
    BY <2>1 DEF Rollback, depositVars, requestDepositVars
  <2> QED BY <2>2, <2>3
<1>5. CASE RefundDeposit \/ FulfillDeposit \/ FulfillRedeem
  BY <1>5 DEF RefundDeposit, FulfillDeposit, FulfillRedeem, strikeVars
<1>6. CASE \E eventId \in EventIds, attestedNav \in Navs, inputsBlock \in 0 .. MaxBlock,
              breachFlags \in BOOLEAN :
              handleSignedEnvelope(eventId, attestedNav, inputsBlock, breachFlags)
  BY <1>6 DEF handleSignedEnvelope
<1>7. CASE \/ \E steps \in 0 .. MaxPlanSteps : EnterPlan(steps)
           \/ \E balance \in Balances : PlanStep(balance)
           \/ PlanStepsDone
  BY <1>7 DEF EnterPlan, PlanStep, PlanStepsDone
<1> QED BY <1>1, <1>2, <1>3, <1>4, <1>5, <1>6, <1>7 DEF Strike

(***************************************************************************)
(* When a strike ends, no deposit request is pending, and after an         *)
(* executed plan no redemption request either: the queues are empty and    *)
(* the aggregate counters are zero, so nothing the loops of                *)
(* _fulfillDeposits and _fulfillRedeems skipped stays reserved.            *)
(***************************************************************************)
THEOREM StrikeSettlesQueues == Spec => StrikeSettles
<1>1. ASSUME IInv, IInv', [Next]_vars, phase # "idle", phase' = "idle"
      PROVE  /\ depositQueue' = <<>> /\ totalPendingDepositAssets' = 0
             /\ lastPlan' = "executed" => redeemQueue' = <<>> /\ totalPendingRedeemShares' = 0
  <2>1. /\ pendingDepositAssets' \in Ledger /\ pendingRedeemShares' \in Ledger
        /\ IsSum(Accounts, pendingDepositAssets', totalPendingDepositAssets')
        /\ IsSum(Accounts, pendingRedeemShares', totalPendingRedeemShares')
        /\ QueuedOnce(depositQueue', pendingDepositAssets')
        /\ QueuedOnce(redeemQueue', pendingRedeemShares')
    BY <1>1 DEF IInv, TypeOK, DepositTypes, RedeemTypes, DepositBooks, RedeemBooks, CurrentSnapshot
  <2>2. depositQueue' = <<>> /\ (lastPlan' = "executed" => redeemQueue' = <<>>)
    BY <1>1, StrikeEndsEmpty
  <2>3. totalPendingDepositAssets' = 0
    BY <2>1, <2>2, NothingQueuedIsZero
  <2>4. ASSUME lastPlan' = "executed" PROVE totalPendingRedeemShares' = 0
    BY <2>1, <2>2, <2>4, NothingQueuedIsZero
  <2> QED BY <2>2, <2>3, <2>4
<1>2. IInv /\ IInv' /\ [Next]_vars =>
        (phase # "idle" /\ phase' = "idle" =>
          /\ depositQueue' = <<>> /\ totalPendingDepositAssets' = 0
          /\ lastPlan' = "executed" => redeemQueue' = <<>> /\ totalPendingRedeemShares' = 0)
  BY <1>1
<1> QED BY <1>2, InductiveInvariant, PTL DEF Spec, StrikeSettles

-----------------------------------------------------------------------------
(* Claims                                                                  *)

\* The last claim of a bucket takes both its sides, and no other claim empties one.
LEMMA SplitClaimCloses ==
    ASSUME NEW requested \in Nat, NEW ownTotal \in Nat, NEW counterTotal \in Nat,
           requested # 0, requested <= ownTotal
    PROVE  LET split == SplitClaim(requested, ownTotal, counterTotal)
           IN  ownTotal - split[1] = 0 <=> counterTotal - split[2] = 0
<1> DEFINE counter == (requested * counterTotal) \div ownTotal
<1>1. counter \in Nat /\ counter <= counterTotal
  BY ProRataBounds
<1> HIDE DEF counter
<1>2. CASE requested = ownTotal \/ counter = counterTotal
  <2>1. SplitClaim(requested, ownTotal, counterTotal) = <<ownTotal, counterTotal>>
    BY <1>2 DEF SplitClaim, counter
  <2> QED BY <2>1
<1>3. CASE requested # ownTotal /\ counter # counterTotal
  <2>1. SplitClaim(requested, ownTotal, counterTotal) = <<requested, counter>>
    BY <1>3 DEF SplitClaim, counter
  <2> QED BY <1>1, <1>3, <2>1
<1> QED BY <1>2, <1>3

\* The redeem side of BucketsCloseTogether, of the present books or of a snapshot.
RedeemBucketsClose(shares, assets) ==
    \A c \in Accounts : shares[c] = 0 => assets[c] = 0

DepositBucketsClose ==
    \A c \in Accounts : claimableDepositAssets[c] = 0 <=> claimableDepositShares[c] = 0

\* A rejected plan restores the buckets of the snapshot, so they are in the invariant.
Buckets ==
    /\ DepositBucketsClose
    /\ RedeemBucketsClose(claimableRedeemShares, claimableRedeemAssets)
    /\ InPlan => RedeemBucketsClose(saved.claimableRedeemShares, saved.claimableRedeemAssets)

\* A claim closes both sides of its bucket or none, and leaves the other buckets alone.
LEMMA ClaimKeepsBuckets ==
    ASSUME IInv, Buckets, Claim
    PROVE  Buckets'
<1>1. /\ claimableDepositAssets \in Ledger /\ claimableDepositShares \in Ledger
      /\ claimableRedeemShares \in Ledger /\ claimableRedeemAssets \in Ledger
  BY DEF IInv, TypeOK, DepositTypes, RedeemTypes
<1>2. UNCHANGED <<phase, saved>>
  BY DEF Claim, deposit, mint, redeem, withdraw, claimDepositRefund, ClaimDeposit, ClaimRedeem,
         strikeVars
<1>3. PICK controller \in Accounts :
        \/ \E sender \in Accounts, receiver \in Holders :
              \/ \E x \in 1 .. claimableDepositAssets[controller] :
                    deposit(sender, x, receiver, controller)
              \/ \E x \in 1 .. claimableDepositShares[controller] :
                    mint(sender, x, receiver, controller)
        \/ \E sender \in Accounts, receiver \in Holders :
              \/ \E x \in 1 .. claimableRedeemShares[controller] :
                    redeem(sender, x, receiver, controller)
              \/ \E x \in 1 .. claimableRedeemAssets[controller] :
                    withdraw(sender, x, receiver, controller)
        \/ \E sender \in Accounts, receiver \in Holders :
              claimDepositRefund(sender, receiver, controller)
  BY DEF Claim
<1> DEFINE da == claimableDepositAssets[controller]
           ds == claimableDepositShares[controller]
           rs == claimableRedeemShares[controller]
           ra == claimableRedeemAssets[controller]
<1>4. da \in Nat /\ ds \in Nat /\ rs \in Nat /\ ra \in Nat
  BY <1>1 DEF Ledger
<1>5. ASSUME NEW assets \in Int, NEW shares \in Int, NEW receiver,
             ClaimDeposit(receiver, controller, assets, shares),
             da - assets = 0 <=> ds - shares = 0
      PROVE  Buckets'
  <2>1. /\ claimableDepositAssets' = [claimableDepositAssets EXCEPT ![controller] = @ - assets]
        /\ claimableDepositShares' = [claimableDepositShares EXCEPT ![controller] = @ - shares]
        /\ UNCHANGED <<claimableRedeemShares, claimableRedeemAssets>>
    BY <1>5 DEF ClaimDeposit, redeemVars, claimRedeemVars
  <2>2. DepositBucketsClose'
    BY <1>1, <1>5, <2>1 DEF Buckets, DepositBucketsClose, Ledger
  <2> QED BY <1>2, <2>1, <2>2 DEF Buckets, RedeemBucketsClose, InPlan
<1>6. ASSUME NEW shares \in Int, NEW assets \in Int, NEW receiver,
             ClaimRedeem(receiver, controller, shares, assets),
             rs - shares = 0 <=> ra - assets = 0
      PROVE  Buckets'
  <2>1. /\ claimableRedeemShares' = [claimableRedeemShares EXCEPT ![controller] = @ - shares]
        /\ claimableRedeemAssets' = [claimableRedeemAssets EXCEPT ![controller] = @ - assets]
        /\ UNCHANGED <<claimableDepositAssets, claimableDepositShares>>
    BY <1>6 DEF ClaimRedeem, depositVars, claimDepositVars
  <2>2. RedeemBucketsClose(claimableRedeemShares', claimableRedeemAssets')
    BY <1>1, <1>6, <2>1 DEF Buckets, RedeemBucketsClose, Ledger
  <2> QED BY <1>2, <2>1, <2>2 DEF Buckets, DepositBucketsClose, RedeemBucketsClose, InPlan
<1>7. ASSUME NEW sender \in Accounts, NEW receiver \in Holders, NEW x \in 1 .. da,
             deposit(sender, x, receiver, controller)
      PROVE  Buckets'
  <2> DEFINE split == SplitClaim(x, da, ds)
  <2>1. x \in Nat /\ x # 0 /\ x <= da
    BY <1>4
  <2>2. split[1] \in Int /\ split[2] \in Int /\ (da - split[1] = 0 <=> ds - split[2] = 0)
    BY <1>4, <2>1, SplitClaimBounds, SplitClaimCloses
  <2>3. ClaimDeposit(receiver, controller, split[1], split[2])
    BY <1>7 DEF deposit
  <2> HIDE DEF split
  <2> QED BY <1>5, <2>2, <2>3
<1>8. ASSUME NEW sender \in Accounts, NEW receiver \in Holders, NEW x \in 1 .. ds,
             mint(sender, x, receiver, controller)
      PROVE  Buckets'
  <2> DEFINE split == SplitClaim(x, ds, da)
  <2>1. x \in Nat /\ x # 0 /\ x <= ds
    BY <1>4
  <2>2. split[1] \in Int /\ split[2] \in Int /\ (ds - split[1] = 0 <=> da - split[2] = 0)
    BY <1>4, <2>1, SplitClaimBounds, SplitClaimCloses
  <2>3. ClaimDeposit(receiver, controller, split[2], split[1])
    BY <1>8 DEF mint
  <2> HIDE DEF split
  <2> QED BY <1>5, <2>2, <2>3
<1>9. ASSUME NEW sender \in Accounts, NEW receiver \in Holders, NEW x \in 1 .. rs,
             redeem(sender, x, receiver, controller)
      PROVE  Buckets'
  <2> DEFINE split == SplitClaim(x, rs, ra)
  <2>1. x \in Nat /\ x # 0 /\ x <= rs
    BY <1>4
  <2>2. split[1] \in Int /\ split[2] \in Int /\ (rs - split[1] = 0 <=> ra - split[2] = 0)
    BY <1>4, <2>1, SplitClaimBounds, SplitClaimCloses
  <2>3. ClaimRedeem(receiver, controller, split[1], split[2])
    BY <1>9 DEF redeem
  <2> HIDE DEF split
  <2> QED BY <1>6, <2>2, <2>3
<1>10. ASSUME NEW sender \in Accounts, NEW receiver \in Holders, NEW x \in 1 .. ra,
              withdraw(sender, x, receiver, controller)
       PROVE  Buckets'
  <2> DEFINE split == SplitClaim(x, ra, rs)
  <2>1. x \in Nat /\ x # 0 /\ x <= ra
    BY <1>4
  <2>2. split[1] \in Int /\ split[2] \in Int /\ (ra - split[1] = 0 <=> rs - split[2] = 0)
    BY <1>4, <2>1, SplitClaimBounds, SplitClaimCloses
  <2>3. ClaimRedeem(receiver, controller, split[2], split[1])
    BY <1>10 DEF withdraw
  <2> HIDE DEF split
  <2> QED BY <1>6, <2>2, <2>3
<1>11. ASSUME NEW sender \in Accounts, NEW receiver \in Holders,
              claimDepositRefund(sender, receiver, controller)
       PROVE  Buckets'
  <2>1. UNCHANGED <<claimableDepositAssets, claimableDepositShares, claimableRedeemShares,
                    claimableRedeemAssets>>
    BY <1>11 DEF claimDepositRefund, claimDepositVars, redeemVars, claimRedeemVars
  <2> QED BY <1>2, <2>1 DEF Buckets, DepositBucketsClose, RedeemBucketsClose, InPlan
<1> QED BY <1>3, <1>7, <1>8, <1>9, <1>10, <1>11

\* A settlement adds to both sides of a bucket: a deposit priced at no shares is refunded.
LEMMA BucketsStep ==
    ASSUME IInv, Buckets, [Next]_vars
    PROVE  Buckets'
<1>1. TypeOK /\ DepositBooks /\ RedeemBooks(CurrentSnapshot)
  BY DEF IInv
<1>2. /\ depositQueue \in Seq(Accounts) /\ pendingDepositAssets \in Ledger
      /\ redeemQueue \in Seq(Accounts) /\ pendingRedeemShares \in Ledger
      /\ claimableDepositAssets \in Ledger /\ claimableDepositShares \in Ledger
      /\ claimableRedeemShares \in Ledger /\ totalSupply \in Nat
  BY <1>1 DEF TypeOK, DepositTypes, RedeemTypes, TokenTypes
<1>3. QueuedOnce(depositQueue, pendingDepositAssets) /\ QueuedOnce(redeemQueue, pendingRedeemShares)
  BY <1>1 DEF DepositBooks, RedeemBooks, CurrentSnapshot
<1> DEFINE DepositKept == UNCHANGED <<claimableDepositAssets, claimableDepositShares>>
           RedeemKept  == UNCHANGED <<claimableRedeemShares, claimableRedeemAssets>>
           PlanKept    == InPlan' => InPlan /\ UNCHANGED saved
<1>4. ASSUME DepositKept, RedeemKept, PlanKept PROVE Buckets'
  BY <1>4 DEF Buckets, DepositBucketsClose, RedeemBucketsClose
<1>5. CASE BooksKept
  <2>1. DepositKept /\ RedeemKept
    BY <1>5 DEF BooksKept
  <2>2. CASE InPlan' /\ saved' = CurrentSnapshot
    <3>1. saved'.claimableRedeemShares = claimableRedeemShares
          /\ saved'.claimableRedeemAssets = claimableRedeemAssets
      BY <2>2 DEF CurrentSnapshot
    <3> QED BY <2>1, <3>1 DEF Buckets, DepositBucketsClose, RedeemBucketsClose
  <2> QED BY <1>4, <1>5, <2>1, <2>2 DEF BooksKept
<1>6. CASE Request
  <2>1. UNCHANGED claimDepositVars /\ UNCHANGED claimRedeemVars /\ UNCHANGED strikeVars
    BY <1>6 DEF Request, requestDeposit, requestRedeem, depositVars, redeemVars
  <2>2. DepositKept /\ RedeemKept /\ PlanKept
    BY <2>1 DEF claimDepositVars, claimRedeemVars, strikeVars, InPlan
  <2> QED BY <1>4, <2>2
<1>7. CASE RefundDeposit
  <2>1. DepositKept /\ RedeemKept /\ PlanKept
    BY <1>7 DEF RefundDeposit, claimDepositVars, redeemVars, claimRedeemVars, strikeVars, InPlan
  <2> QED BY <1>4, <2>1
<1>8. CASE FulfillDeposit
  <2> DEFINE controller == Head(depositQueue)
             assets == pendingDepositAssets[controller]
             shares == SharesFor(assets)
  <2>1. /\ depositQueue # <<>> /\ ~Unpriceable(assets)
        /\ claimableDepositAssets' = [claimableDepositAssets EXCEPT ![controller] = @ + assets]
        /\ claimableDepositShares' = [claimableDepositShares EXCEPT ![controller] = @ + shares]
    BY <1>8 DEF FulfillDeposit
  <2>2. controller \in Accounts /\ assets \in Nat /\ assets > 0
    BY <1>2, <1>3, <2>1, DequeueKeepsQueue
  <2>3. shares \in Nat /\ shares > 0
    <3>1. shares \in Nat
      BY <1>1, <2>2, SharesForIsNat
    <3>2. CASE totalSupply = 0
      BY <2>2, <3>2 DEF SharesFor
    <3>3. CASE totalSupply # 0
      BY <2>1, <3>1, <3>3 DEF Unpriceable
    <3> QED BY <3>1, <3>2, <3>3
  <2> HIDE DEF controller, assets, shares
  <2>4. DepositBucketsClose'
    <3>1. /\ claimableDepositAssets[controller] \in Nat /\ claimableDepositShares[controller] \in Nat
          /\ claimableDepositAssets'[controller] = claimableDepositAssets[controller] + assets
          /\ claimableDepositShares'[controller] = claimableDepositShares[controller] + shares
      BY <1>2, <2>1, <2>2 DEF Ledger
    <3>2. claimableDepositAssets'[controller] # 0 /\ claimableDepositShares'[controller] # 0
      BY <2>2, <2>3, <3>1
    <3>3. \A c \in Accounts : c # controller =>
              /\ claimableDepositAssets'[c] = claimableDepositAssets[c]
              /\ claimableDepositShares'[c] = claimableDepositShares[c]
      BY <1>2, <2>1 DEF Ledger
    <3> QED BY <3>2, <3>3 DEF Buckets, DepositBucketsClose
  <2>5. RedeemKept /\ PlanKept
    BY <1>8 DEF FulfillDeposit, redeemVars, claimRedeemVars, strikeVars, InPlan
  <2> QED BY <2>4, <2>5 DEF Buckets, RedeemBucketsClose
<1>9. CASE FulfillRedeem
  <2> DEFINE controller == Head(redeemQueue)
             shares == pendingRedeemShares[controller]
             assets == (shares * nav) \div totalSupply
  <2>1. /\ redeemQueue # <<>>
        /\ claimableRedeemShares' = [claimableRedeemShares EXCEPT ![controller] = @ + shares]
        /\ claimableRedeemAssets' = [claimableRedeemAssets EXCEPT ![controller] = @ + assets]
    BY <1>9 DEF FulfillRedeem
  <2>2. controller \in Accounts /\ shares \in Nat /\ shares > 0
    BY <1>2, <1>3, <2>1, DequeueKeepsQueue
  <2> HIDE DEF controller, shares, assets
  <2>3. claimableRedeemShares'[controller] # 0
    <3>1. claimableRedeemShares[controller] \in Nat
      BY <1>2, <2>2 DEF Ledger
    <3>2. claimableRedeemShares'[controller] = claimableRedeemShares[controller] + shares
      BY <1>2, <2>1, <2>2 DEF Ledger
    <3> QED BY <2>2, <3>1, <3>2
  <2>4. claimableRedeemAssets \in Ledger
    BY <1>1 DEF TypeOK, RedeemTypes
  <2>5. \A c \in Accounts : c # controller => /\ claimableRedeemShares'[c] = claimableRedeemShares[c]
                                              /\ claimableRedeemAssets'[c] = claimableRedeemAssets[c]
    BY <1>2, <2>1, <2>4 DEF Ledger
  <2>6. RedeemBucketsClose(claimableRedeemShares', claimableRedeemAssets')
    BY <2>3, <2>5 DEF Buckets, RedeemBucketsClose
  <2>7. DepositKept /\ PlanKept
    BY <1>9 DEF FulfillRedeem, depositVars, claimDepositVars, strikeVars, InPlan
  <2> QED BY <2>6, <2>7 DEF Buckets, DepositBucketsClose, RedeemBucketsClose
<1>10. CASE InPlan /\ Rollback
  <2>1. /\ claimableRedeemShares' = saved.claimableRedeemShares
        /\ claimableRedeemAssets' = saved.claimableRedeemAssets /\ ~InPlan' /\ DepositKept
    BY <1>10 DEF Rollback, InPlan, depositVars, claimDepositVars
  <2> QED BY <1>10, <2>1 DEF Buckets, DepositBucketsClose, RedeemBucketsClose
<1> QED BY <1>5, <1>6, <1>7, <1>8, <1>9, <1>10, ClaimKeepsBuckets, BookSteps

(***************************************************************************)
(* However a bucket is filled by strikes, restored by rejected plans and   *)
(* claimed in parts, in assets or in shares, its two sides run out at the  *)
(* same claim (_splitClaim, _fulfillDeposits, _fulfillRedeems).            *)
(***************************************************************************)
THEOREM BucketsStayTogether == Spec => []BucketsCloseTogether
<1>1. Init => Buckets
  BY DEF Init, Buckets, DepositBucketsClose, RedeemBucketsClose, InPlan, Zero
<1>2. IInv /\ Buckets /\ [Next]_vars => Buckets'
  BY BucketsStep
<1>3. Buckets => BucketsCloseTogether
  BY DEF Buckets, DepositBucketsClose, RedeemBucketsClose, BucketsCloseTogether
<1> QED BY <1>1, <1>2, <1>3, InductiveInvariant, PTL DEF Spec

-----------------------------------------------------------------------------
(* The bootstrap minimum                                                   *)

\* The supply reaches zero only in a plan, which no pending deposit can see.
LEMMA BootstrapStep ==
    ASSUME IInv, IInv', BootstrapNeverDust, [Next]_vars
    PROVE  BootstrapNeverDust'
<1>1. /\ pendingDepositAssets \in Ledger /\ depositQueue \in Seq(Accounts) /\ totalSupply \in Nat
      /\ MinBootstrapAssets \in Nat
  BY VaultAssumption DEF IInv, TypeOK, DepositTypes, TokenTypes
<1>2. CASE BooksKept
  BY <1>2 DEF BooksKept, BootstrapNeverDust
<1>3. CASE Claim
  <2>1. UNCHANGED requestDepositVars /\ UNCHANGED totalSupply
    BY <1>3 DEF Claim, deposit, mint, redeem, withdraw, claimDepositRefund, ClaimDeposit,
                ClaimRedeem, depositVars
  <2> QED BY <2>1 DEF requestDepositVars, BootstrapNeverDust
<1>4. CASE Request
  <2>1. PICK sender \in Accounts, controller \in Accounts, owner \in Accounts :
          \/ \E assets \in Amounts : requestDeposit(sender, assets, controller, owner)
          \/ \E shares \in 1 .. shareBalance[owner] : requestRedeem(sender, shares, controller, owner)
    BY <1>4 DEF Request
  <2>2. CASE \E assets \in Amounts : requestDeposit(sender, assets, controller, owner)
    <3>1. PICK assets \in Amounts : requestDeposit(sender, assets, controller, owner)
      BY <2>2
    <3>2. /\ totalSupply = 0 => assets >= MinBootstrapAssets
          /\ pendingDepositAssets' = [pendingDepositAssets EXCEPT ![controller] = @ + assets]
          /\ UNCHANGED totalSupply
      BY <3>1 DEF requestDeposit
    <3>3. assets \in Nat
      BY VaultAssumption
    <3>4. /\ pendingDepositAssets[controller] \in Nat
          /\ pendingDepositAssets'[controller] = pendingDepositAssets[controller] + assets
          /\ \A c \in Accounts : c # controller => pendingDepositAssets'[c] = pendingDepositAssets[c]
      BY <1>1, <3>2 DEF Ledger
    <3>5. totalSupply = 0 => pendingDepositAssets'[controller] >= MinBootstrapAssets
      BY <1>1, <3>2, <3>3, <3>4
    <3> QED BY <3>2, <3>4, <3>5 DEF BootstrapNeverDust
  <2>3. CASE \E shares \in 1 .. shareBalance[owner] : requestRedeem(sender, shares, controller, owner)
    <3>1. UNCHANGED pendingDepositAssets /\ UNCHANGED totalSupply
      BY <2>3 DEF requestRedeem, depositVars, requestDepositVars
    <3> QED BY <3>1 DEF BootstrapNeverDust
  <2> QED BY <2>1, <2>2, <2>3
<1>5. CASE RefundDeposit \/ FulfillDeposit
  <2> DEFINE controller == Head(depositQueue)
  <2>1. depositQueue # <<>> /\ QueuedOnce(depositQueue, pendingDepositAssets)
        /\ pendingDepositAssets' = [pendingDepositAssets EXCEPT ![controller] = 0]
    BY <1>5 DEF RefundDeposit, FulfillDeposit, DequeueDeposit, IInv, DepositBooks
  <2>2. totalSupply' = 0 => totalSupply = 0
    <3>1. CASE RefundDeposit
      BY <3>1 DEF RefundDeposit
    <3>2. CASE FulfillDeposit
      <4> DEFINE shares == SharesFor(pendingDepositAssets[controller])
      <4>1. totalSupply' = totalSupply + shares
        BY <3>2 DEF FulfillDeposit
      <4>2. shares \in Nat
        BY <1>1, <2>1, DequeueKeepsQueue, SharesForIsNat DEF IInv
      <4> HIDE DEF shares
      <4> QED BY <1>1, <4>1, <4>2
    <3> QED BY <1>5, <3>1, <3>2
  <2>3. \A c \in Accounts : pendingDepositAssets'[c] # 0 =>
            pendingDepositAssets'[c] = pendingDepositAssets[c]
    BY <1>1, <2>1 DEF Ledger
  <2> QED BY <2>2, <2>3 DEF BootstrapNeverDust
<1>6. CASE FulfillRedeem \/ (InPlan /\ Rollback)
  <2>1. depositQueue = <<>> /\ QueuedOnce(depositQueue, pendingDepositAssets)
    BY <1>6 DEF IInv, DepositBooks, FulfillRedeem, InPlan
  <2>2. UNCHANGED pendingDepositAssets
    BY <1>6 DEF FulfillRedeem, Rollback, depositVars, requestDepositVars
  <2>3. \A c \in Accounts : pendingDepositAssets[c] = 0
    BY <1>1, <2>1, NothingPending
  <2> QED BY <2>2, <2>3 DEF BootstrapNeverDust
<1> QED BY <1>2, <1>3, <1>4, <1>5, <1>6, BookSteps

(***************************************************************************)
(* A deposit that settles at a zero supply meets the bootstrap minimum,    *)
(* though requestDeposit compares it with the supply of an earlier         *)
(* transaction: the supply drops to zero only while no deposit is pending. *)
(***************************************************************************)
THEOREM BootstrapStaysFunded == Spec => []BootstrapNeverDust
<1>1. Init => BootstrapNeverDust
  BY DEF Init, BootstrapNeverDust, Zero
<1>2. IInv /\ IInv' /\ BootstrapNeverDust /\ [Next]_vars => BootstrapNeverDust'
  BY BootstrapStep
<1> QED BY <1>1, <1>2, InductiveInvariant, PTL DEF Spec

-----------------------------------------------------------------------------
(* The shortfall                                                           *)

\* USDC held and reserved for redeemers, as a rejected plan would leave them.
SettledBalance == IF InPlan THEN saved.usdc ELSE usdc
SettledReserve == IF InPlan THEN saved.totalClaimableRedeemAssets ELSE totalClaimableRedeemAssets
SettledFloor == totalPendingDepositAssets + SettledReserve + totalRefundableDepositAssets
SettledSurplus == SettledBalance - SettledFloor

SettledTypes ==
    /\ SettledBalance \in Nat /\ SettledReserve \in Nat
    /\ totalPendingDepositAssets \in Nat /\ totalRefundableDepositAssets \in Nat

\* The parts of the surplus are natural numbers.
LEMMA SettledAreTyped == IInv => SettledTypes
<1> SUFFICES ASSUME IInv PROVE SettledTypes
  OBVIOUS
<1>1. /\ usdc \in Nat /\ totalClaimableRedeemAssets \in Nat /\ totalPendingDepositAssets \in Nat
      /\ totalRefundableDepositAssets \in Nat /\ saved \in Snapshot
  BY DEF IInv, TypeOK, TokenTypes, RedeemTypes, DepositTypes, StrikeTypes
<1>2. saved.usdc \in Nat /\ saved.totalClaimableRedeemAssets \in Nat
  BY <1>1 DEF Snapshot
<1> QED BY <1>1, <1>2 DEF SettledTypes, SettledBalance, SettledReserve

\* A gap under a floor does not widen when the surplus grows, or ends up positive.
LEMMA GapFollowsSurplus ==
    ASSUME NEW b \in Int, NEW f \in Int, NEW b2 \in Int, NEW f2 \in Int,
           b2 - f2 >= b - f \/ b2 - f2 >= 0
    PROVE  (IF b2 < f2 THEN f2 - b2 ELSE 0) <= (IF b < f THEN f - b ELSE 0)
<1>1. CASE b2 < f2
  <2>1. b2 - f2 >= b - f /\ b < f /\ f2 - b2 <= f - b
    BY <1>1
  <2> QED BY <1>1, <2>1
<1>2. CASE ~(b2 < f2)
  <2>1. CASE b < f
    <3>1. f - b >= 0
      BY <2>1
    <3> QED BY <1>2, <2>1, <3>1
  <2>2. CASE ~(b < f)
    BY <1>2, <2>2
  <2> QED BY <2>1, <2>2
<1> QED BY <1>1, <1>2

\* A claim pays no more than it takes off the book it is paid from.
LEMMA ClaimKeepsSurplus ==
    ASSUME IInv, Claim
    PROVE  SettledSurplus' >= SettledSurplus
<1>1. /\ usdc \in Nat /\ totalClaimableRedeemAssets \in Nat /\ totalPendingDepositAssets \in Nat
      /\ totalRefundableDepositAssets \in Nat
      /\ claimableRedeemShares \in Ledger /\ claimableRedeemAssets \in Ledger
      /\ refundableDepositAssets \in Ledger
  BY DEF IInv, TypeOK, TokenTypes, RedeemTypes, DepositTypes
<1>2. ~InPlan /\ ~InPlan'
  BY DEF Claim, deposit, mint, redeem, withdraw, claimDepositRefund, ClaimDeposit, ClaimRedeem,
         strikeVars, Idle, InPlan
<1>3. UNCHANGED totalPendingDepositAssets
  BY DEF Claim, deposit, mint, redeem, withdraw, claimDepositRefund, ClaimDeposit, ClaimRedeem,
         depositVars, requestDepositVars
<1>4. PICK sender \in Accounts, controller \in Accounts, receiver \in Holders :
        \/ \E x \in 1 .. claimableDepositAssets[controller] : deposit(sender, x, receiver, controller)
        \/ \E x \in 1 .. claimableDepositShares[controller] : mint(sender, x, receiver, controller)
        \/ \E x \in 1 .. claimableRedeemShares[controller] : redeem(sender, x, receiver, controller)
        \/ \E x \in 1 .. claimableRedeemAssets[controller] : withdraw(sender, x, receiver, controller)
        \/ claimDepositRefund(sender, receiver, controller)
  BY DEF Claim
<1> DEFINE rs == claimableRedeemShares[controller]
           ra == claimableRedeemAssets[controller]
<1>5. rs \in Nat /\ ra \in Nat /\ refundableDepositAssets[controller] \in Nat
  BY <1>1 DEF Ledger
<1>6. ASSUME NEW shares, NEW assets \in Nat, ClaimRedeem(receiver, controller, shares, assets)
      PROVE  SettledSurplus' >= SettledSurplus
  <2>1. /\ totalClaimableRedeemAssets' = totalClaimableRedeemAssets - assets
        /\ usdc' = IF receiver = Vault THEN usdc ELSE usdc - assets
        /\ UNCHANGED totalRefundableDepositAssets
    BY <1>6 DEF ClaimRedeem, SendUsdc, depositVars, refundVars
  <2> QED BY <1>1, <1>2, <1>3, <2>1 DEF SettledSurplus, SettledFloor, SettledBalance, SettledReserve
<1>7. CASE \/ \E x \in 1 .. claimableDepositAssets[controller] : deposit(sender, x, receiver, controller)
           \/ \E x \in 1 .. claimableDepositShares[controller] : mint(sender, x, receiver, controller)
  <2>1. UNCHANGED usdc /\ UNCHANGED totalClaimableRedeemAssets /\ UNCHANGED totalRefundableDepositAssets
    BY <1>7 DEF deposit, mint, ClaimDeposit, redeemVars, claimRedeemVars, refundVars
  <2> QED BY <1>1, <1>2, <1>3, <2>1 DEF SettledSurplus, SettledFloor, SettledBalance, SettledReserve
<1>8. CASE \E x \in 1 .. rs : redeem(sender, x, receiver, controller)
  <2>1. PICK x \in 1 .. rs : redeem(sender, x, receiver, controller)
    BY <1>8
  <2> DEFINE split == SplitClaim(x, rs, ra)
  <2>2. split[2] \in Nat
    BY <1>5, SplitClaimBounds
  <2>3. ClaimRedeem(receiver, controller, split[1], split[2])
    BY <2>1 DEF redeem
  <2> QED BY <1>6, <2>2, <2>3
<1>9. CASE \E x \in 1 .. ra : withdraw(sender, x, receiver, controller)
  <2>1. PICK x \in 1 .. ra : withdraw(sender, x, receiver, controller)
    BY <1>9
  <2> DEFINE split == SplitClaim(x, ra, rs)
  <2>2. split[1] \in Nat
    BY <1>5, SplitClaimBounds
  <2>3. ClaimRedeem(receiver, controller, split[2], split[1])
    BY <2>1 DEF withdraw
  <2> QED BY <1>6, <2>2, <2>3
<1>10. CASE claimDepositRefund(sender, receiver, controller)
  <2>1. /\ totalRefundableDepositAssets' =
              totalRefundableDepositAssets - refundableDepositAssets[controller]
        /\ usdc' = IF receiver = Vault THEN usdc ELSE usdc - refundableDepositAssets[controller]
        /\ UNCHANGED totalClaimableRedeemAssets
    BY <1>10 DEF claimDepositRefund, SendUsdc, redeemVars, claimRedeemVars
  <2> QED BY <1>1, <1>2, <1>3, <1>5, <2>1 DEF SettledSurplus, SettledFloor, SettledBalance, SettledReserve
<1> QED BY <1>4, <1>7, <1>8, <1>9, <1>10

\* The strike only moves reservations, checks the floor at its end, or is undone.
LEMMA StrikeKeepsSurplus ==
    ASSUME IInv, Strike
    PROVE  SettledSurplus' >= SettledSurplus \/ SettledSurplus' >= 0
<1>1. /\ usdc \in Nat /\ totalClaimableRedeemAssets \in Nat /\ totalPendingDepositAssets \in Nat
      /\ totalRefundableDepositAssets \in Nat
  BY DEF IInv, TypeOK, TokenTypes, RedeemTypes, DepositTypes
<1>2. SettledSurplus \in Int
  BY SettledAreTyped DEF SettledTypes, SettledSurplus, SettledFloor
<1> DEFINE FloorKept == UNCHANGED <<totalPendingDepositAssets, totalRefundableDepositAssets>>
<1>3. ASSUME FloorKept, SettledBalance' = SettledBalance, SettledReserve' = SettledReserve
      PROVE  SettledSurplus' >= SettledSurplus
  <2>1. SettledSurplus' = SettledSurplus
    BY <1>3 DEF SettledSurplus, SettledFloor
  <2> QED BY <1>2, <2>1
<1>4. CASE \/ PlanArrayMismatch
           \/ \E eventId \in EventIds, attestedNav \in Navs, inputsBlock \in 0 .. MaxBlock,
                 breachFlags \in BOOLEAN :
                 handleSignedEnvelope(eventId, attestedNav, inputsBlock, breachFlags)
  <2>1. FloorKept /\ UNCHANGED usdc /\ UNCHANGED totalClaimableRedeemAssets /\ ~InPlan /\ ~InPlan'
    BY <1>4 DEF PlanArrayMismatch, handleSignedEnvelope, depositVars, requestDepositVars, refundVars,
                redeemVars, claimRedeemVars, Idle, InPlan
  <2> QED BY <1>3, <2>1 DEF SettledBalance, SettledReserve
<1>5. CASE \E steps \in 0 .. MaxPlanSteps : EnterPlan(steps)
  <2>1. FloorKept /\ saved' = CurrentSnapshot /\ ~InPlan /\ InPlan'
    BY <1>5 DEF EnterPlan, depositVars, requestDepositVars, refundVars, InPlan
  <2>2. saved'.usdc = usdc /\ saved'.totalClaimableRedeemAssets = totalClaimableRedeemAssets
    BY <2>1 DEF CurrentSnapshot
  <2> QED BY <1>3, <2>1, <2>2 DEF SettledBalance, SettledReserve
<1>6. CASE (\E balance \in Balances : PlanStep(balance)) \/ PlanStepsDone \/ FulfillRedeem
  <2>1. FloorKept /\ UNCHANGED saved /\ InPlan /\ InPlan'
    BY <1>6 DEF PlanStep, PlanStepsDone, FulfillRedeem, depositVars, requestDepositVars, refundVars,
                strikeVars, InPlan
  <2> QED BY <1>3, <2>1 DEF SettledBalance, SettledReserve
<1>7. CASE PlanStepReverts \/ EscrowFloorBreached
  <2>1. InPlan /\ Rollback
    BY <1>7 DEF PlanStepReverts, EscrowFloorBreached, InPlan
  <2>2. /\ FloorKept /\ ~InPlan' /\ usdc' = saved.usdc
        /\ totalClaimableRedeemAssets' = saved.totalClaimableRedeemAssets
    BY <2>1 DEF Rollback, depositVars, requestDepositVars, refundVars, InPlan
  <2> QED BY <1>3, <2>1, <2>2 DEF SettledBalance, SettledReserve
<1>8. CASE PlanExecuted
  <2>1. /\ FloorKept /\ ~InPlan' /\ UNCHANGED usdc /\ UNCHANGED totalClaimableRedeemAssets
        /\ usdc >= totalPendingDepositAssets + totalClaimableRedeemAssets + totalRefundableDepositAssets
    BY <1>8 DEF PlanExecuted, depositVars, requestDepositVars, refundVars, redeemVars,
                claimRedeemVars, InPlan, EscrowFloorAmount
  <2> QED BY <1>1, <2>1 DEF SettledSurplus, SettledFloor, SettledBalance, SettledReserve
<1>9. CASE RefundDeposit \/ FulfillDeposit
  <2> DEFINE assets == pendingDepositAssets[Head(depositQueue)]
  <2>1. /\ totalPendingDepositAssets' = totalPendingDepositAssets - assets
        /\ \/ UNCHANGED totalRefundableDepositAssets
           \/ totalRefundableDepositAssets' = totalRefundableDepositAssets + assets
        /\ UNCHANGED usdc /\ UNCHANGED totalClaimableRedeemAssets /\ ~InPlan /\ ~InPlan'
    BY <1>9 DEF RefundDeposit, FulfillDeposit, DequeueDeposit, refundVars, redeemVars,
                claimRedeemVars, strikeVars, InPlan
  <2>2. assets \in Nat
    BY <1>9, DequeueKeepsQueue DEF IInv, TypeOK, DepositTypes, DepositBooks, RefundDeposit, FulfillDeposit
  <2> HIDE DEF assets
  <2>3. SettledSurplus = usdc - (totalPendingDepositAssets + totalClaimableRedeemAssets
                                 + totalRefundableDepositAssets)
    BY <2>1 DEF SettledSurplus, SettledFloor, SettledBalance, SettledReserve
  <2>4. SettledSurplus' = usdc - (totalPendingDepositAssets' + totalClaimableRedeemAssets
                                  + totalRefundableDepositAssets')
    BY <2>1 DEF SettledSurplus, SettledFloor, SettledBalance, SettledReserve
  <2> QED BY <1>1, <2>1, <2>2, <2>3, <2>4
<1> QED BY <1>4, <1>5, <1>6, <1>7, <1>8, <1>9 DEF Strike

\* Requests bring the USDC they reserve; execute ends above the floor; nobody else moves either.
LEMMA OthersKeepSurplus ==
    ASSUME IInv, Request \/ Strategist \/ Delegation \/ Environment \/ UNCHANGED vars
    PROVE  \/ SettledSurplus' >= SettledSurplus \/ SettledSurplus' >= 0
           \/ \E balance \in Balances : TokenBurn(balance) \/ emergencyExecute(balance)
<1>1. /\ usdc \in Nat /\ totalClaimableRedeemAssets \in Nat /\ totalPendingDepositAssets \in Nat
      /\ totalRefundableDepositAssets \in Nat /\ Balances \subseteq Nat
  BY VaultAssumption DEF IInv, TypeOK, TokenTypes, RedeemTypes, DepositTypes, Balances
<1>2. SettledSurplus \in Int
  BY SettledAreTyped DEF SettledTypes, SettledSurplus, SettledFloor
<1> DEFINE FloorKept == UNCHANGED <<totalPendingDepositAssets, totalRefundableDepositAssets,
                                    totalClaimableRedeemAssets>> /\ UNCHANGED <<phase, saved>>
<1>3. ASSUME FloorKept, UNCHANGED usdc PROVE SettledSurplus' >= SettledSurplus
  <2>1. SettledSurplus' = SettledSurplus
    BY <1>3 DEF SettledSurplus, SettledFloor, SettledBalance, SettledReserve, InPlan
  <2> QED BY <1>2, <2>1
<1>4. CASE Request
  <2>1. CASE \E sender, controller, owner \in Accounts : \E assets \in Amounts :
                requestDeposit(sender, assets, controller, owner)
    <3>1. PICK assets \in Amounts :
            \E sender, controller, owner \in Accounts : requestDeposit(sender, assets, controller, owner)
      BY <2>1
    <3>2. /\ usdc' = usdc + assets /\ totalPendingDepositAssets' = totalPendingDepositAssets + assets
          /\ UNCHANGED <<totalRefundableDepositAssets, totalClaimableRedeemAssets>>
          /\ ~InPlan /\ ~InPlan'
      BY <3>1 DEF requestDeposit, refundVars, redeemVars, claimRedeemVars, strikeVars, Idle, InPlan
    <3>3. assets \in Nat
      BY VaultAssumption
    <3> QED BY <1>1, <3>2, <3>3 DEF SettledSurplus, SettledFloor, SettledBalance, SettledReserve
  <2>2. CASE \E sender, controller, owner \in Accounts : \E shares \in 1 .. shareBalance[owner] :
                requestRedeem(sender, shares, controller, owner)
    <3>1. FloorKept /\ UNCHANGED usdc
      BY <2>2 DEF requestRedeem, depositVars, requestDepositVars, refundVars, claimRedeemVars, strikeVars
    <3> QED BY <1>3, <3>1
  <2> QED BY <1>4, <2>1, <2>2 DEF Request
<1>5. CASE \E balance \in Balances : execute(balance)
  <2>1. PICK balance \in Balances : execute(balance)
    BY <1>5
  <2>2. /\ FloorKept /\ usdc' = balance /\ ~InPlan
        /\ balance >= totalPendingDepositAssets + totalClaimableRedeemAssets + totalRefundableDepositAssets
    BY <2>1 DEF execute, StrategistCall, depositVars, requestDepositVars, refundVars, redeemVars,
                claimRedeemVars, strikeVars, Idle, InPlan, EscrowFloorAmount
  <2> QED BY <1>1, <2>2 DEF SettledSurplus, SettledFloor, SettledBalance, SettledReserve, InPlan
<1>6. CASE \E balance \in Balances : emergencyExecute(balance)
  BY <1>6
<1>7. CASE Delegation
  <2>1. FloorKept /\ UNCHANGED usdc
    BY <1>7 DEF Delegation, setOperator, approve, depositVars, requestDepositVars, refundVars,
                redeemVars, claimRedeemVars, strikeVars
  <2> QED BY <1>3, <2>1
<1>8. CASE Environment
  <2>1. FloorKept
    BY <1>8 DEF Environment, NextBlock, transfer, Donate, TokenBurn, depositVars, requestDepositVars,
                refundVars, redeemVars, claimRedeemVars, strikeVars
  <2>2. CASE \E assets \in Amounts : Donate(assets)
    <3>1. PICK assets \in Amounts : Donate(assets)
      BY <2>2
    <3>2. assets \in Nat /\ usdc' = usdc + assets /\ ~InPlan
      BY <3>1, VaultAssumption DEF Donate, Idle, InPlan
    <3> QED BY <1>1, <2>1, <3>2 DEF SettledSurplus, SettledFloor, SettledBalance, SettledReserve, InPlan
  <2>3. CASE \E balance \in Balances : TokenBurn(balance)
    BY <2>3
  <2>4. CASE \/ NextBlock
             \/ \E from \in Accounts, to \in Holders :
                   \E shares \in 1 .. shareBalance[from] : transfer(from, to, shares)
    BY <1>3, <2>1, <2>4 DEF NextBlock, transfer
  <2> QED BY <1>8, <2>2, <2>3, <2>4 DEF Environment
<1>9. CASE UNCHANGED vars
  <2>1. FloorKept /\ UNCHANGED usdc
    BY <1>9 DEF vars, depositVars, requestDepositVars, refundVars, redeemVars, claimRedeemVars, strikeVars
  <2> QED BY <1>3, <2>1
<1> QED BY <1>4, <1>5, <1>6, <1>7, <1>8, <1>9 DEF Strategist

(***************************************************************************)
(* Once the token has taken USDC away, no function of the vault but        *)
(* emergencyExecute widens the gap to the escrow floor: claims and refunds *)
(* give up as much reservation as they pay, execute and an executed plan   *)
(* end above the floor, and a rejected plan is undone.                     *)
(***************************************************************************)
THEOREM ShortfallStaysBounded == Spec => ShortfallNeverGrows
<1>1. ASSUME IInv, SettledTypes', [Next]_vars
      PROVE  Shortfall' <= Shortfall
             \/ \E balance \in Balances : TokenBurn(balance) \/ emergencyExecute(balance)
  <2>1. \/ SettledSurplus' >= SettledSurplus \/ SettledSurplus' >= 0
        \/ \E balance \in Balances : TokenBurn(balance) \/ emergencyExecute(balance)
    BY <1>1, ClaimKeepsSurplus, StrikeKeepsSurplus, OthersKeepSurplus DEF Next
  <2>2. SettledTypes
    BY <1>1, SettledAreTyped
  <2>3. /\ SettledFloor \in Int /\ SettledBalance \in Int /\ SettledSurplus = SettledBalance - SettledFloor
        /\ Shortfall = IF SettledBalance < SettledFloor THEN SettledFloor - SettledBalance ELSE 0
    BY <2>2 DEF SettledTypes, SettledSurplus, SettledFloor, Shortfall, SettledBalance, SettledReserve
  <2>4. /\ SettledFloor' \in Int /\ SettledBalance' \in Int /\ SettledSurplus' = SettledBalance' - SettledFloor'
        /\ Shortfall' = IF SettledBalance' < SettledFloor' THEN SettledFloor' - SettledBalance' ELSE 0
    BY <1>1 DEF SettledTypes, SettledSurplus, SettledFloor, Shortfall, SettledBalance, SettledReserve
  <2>5. SettledSurplus' >= SettledSurplus \/ SettledSurplus' >= 0 => Shortfall' <= Shortfall
    BY <2>3, <2>4, GapFollowsSurplus
  <2> QED BY <2>1, <2>5
<1> QED BY <1>1, SettledAreTyped, InductiveInvariant, PTL DEF Spec, ShortfallNeverGrows

=============================================================================
