---------------------------- MODULE LoopDeployer ----------------------------
(***************************************************************************)
(* The life of a loop: LoopDeployer of packages/loop-deploy/src/deployer.ts*)
(* over the registry of registry.ts.  A loop server runs many requests at  *)
(* a time; a request runs alone between two awaits, so each action is what *)
(* it does from one await to the next.  The registry and the chain outlive *)
(* a crash of the server; its requests and its mutation queue do not.      *)
(*                                                                         *)
(* mutateService is one step here that lands and one that returns, as      *)
(* EditsAreAtomic of ServiceMutation allows for a server alone; a write    *)
(* that lands only after its request gave up is ServiceMutation's matter.  *)
(***************************************************************************)
EXTENDS Naturals, Sequences, FiniteSets, SequencesExt

CONSTANTS
    Loops,          \* loop ids, each with its workflow
    Requests,       \* requests the server runs at a time
    Overlap,        \* loops two requests for which may run at a time
    FailBudget,     \* bound: calls that fail and crashes
    RevertBudget    \* bound: deployVault transactions that revert

ASSUME DeployerAssumption ==
    Overlap \subseteq Loops /\ FailBudget \in Nat /\ RevertBudget \in Nat

VARIABLES
    registry,   \* the row of each loop
    txs,        \* deployVault transactions, by order of submission
    runs,       \* runs[l]: the vault the workflow of l strikes, in service.json
    escrow,     \* vaults with deposits or redemptions to settle
    request,    \* what each request is doing
    tail,       \* mutationTail: requests that edit service.json, in turn
    leaving,    \* loops whose workflow a request set out to remove
    failures, reverts   \* used up so far

chainVars == <<txs, runs, escrow>>
budgetVars == <<failures, reverts>>
vars == <<registry, chainVars, request, tail, leaving, budgetVars>>

-----------------------------------------------------------------------------

\* A vault is known by the transaction that deploys it; none is 0.
None == 0

NoRow == [status |-> "none", step |-> "none", handler |-> None, deployTx |-> None]

NoRequest == [pc |-> "none", loop |-> "none", tx |-> None, handler |-> None, step |-> "none"]

Init ==
    /\ registry = [l \in Loops |-> NoRow]
    /\ txs = <<>> /\ runs = [l \in Loops |-> None] /\ escrow = {}
    /\ request = [r \in Requests |-> NoRequest] /\ tail = <<>>
    /\ leaving = {} /\ failures = 0 /\ reverts = 0

Recorded(l) == registry[l] # NoRow

At(r, pc) == request[r].pc = pc

Busy(l) == \E r \in Requests : request[r].loop = l

\* Request r takes up loop l.
Free(r, l) == At(r, "none") /\ (l \in Overlap \/ ~Busy(l))

Published(step) == step \in {"service_updated", "active"}

\* The request goes on at pc, with what it holds in its local variables.
Awaits(r, l, pc, tx, handler) ==
    request' = [request EXCEPT ![r] = [pc |-> pc, loop |-> l, tx |-> tx, handler |-> handler,
                                       step |-> registry[l].step]]

Done(r) == request' = [request EXCEPT ![r] = NoRequest]

Enqueues(r) == tail' = Append(tail, r)

\* Does request r hold the mutation queue?
AtHead(r) == tail # <<>> /\ Head(tail) = r

-----------------------------------------------------------------------------
(* createLoop and resumeLoop, up to the first await of runPipeline         *)

\* The pool preflight went well; a refused request leaves nothing behind.
createLoop(r, l) ==
    /\ Free(r, l) /\ ~Recorded(l)
    /\ registry' = [registry EXCEPT ![l] = [NoRow EXCEPT !.status = "deploying",
                                                         !.step = "validated"]]
    /\ request' = [request EXCEPT ![r] = [NoRequest EXCEPT !.pc = "submit", !.loop = l]]
    /\ UNCHANGED <<chainVars, tail, leaving, budgetVars>>

\* Mutant of Resumable: only a loop marked as failed, not one a crash left deploying.
ResumableFailed(r, l) == Free(r, l) /\ registry[l].status = "failed"

Resumable(r, l) ==
    /\ Free(r, l) /\ Recorded(l)
    /\ registry[l].status \notin {"active", "inactive"}

ResumeSubmits(r, l) ==
    /\ Resumable(r, l)
    /\ registry[l].handler = None /\ registry[l].deployTx = None
    /\ Awaits(r, l, "submit", None, None)
    /\ UNCHANGED <<registry, chainVars, tail, leaving, budgetVars>>

\* The hash is on file: wait for the same transaction.
ResumeFinalizes(r, l) ==
    /\ Resumable(r, l)
    /\ registry[l].handler = None /\ registry[l].deployTx # None
    /\ Awaits(r, l, "finalize", registry[l].deployTx, None)
    /\ UNCHANGED <<registry, chainVars, tail, leaving, budgetVars>>

ResumePublishes(r, l) ==
    /\ Resumable(r, l)
    /\ registry[l].handler # None /\ ~Published(registry[l].step)
    /\ Awaits(r, l, "add", None, registry[l].handler)
    /\ Enqueues(r)
    /\ UNCHANGED <<registry, chainVars, leaving, budgetVars>>

\* Mutant of ResumeActivates: a loop that never reached the service is activated as well.
ResumeActivatesUnpublished(r, l) ==
    /\ Resumable(r, l)
    /\ registry[l].handler # None
    /\ registry' = [registry EXCEPT ![l].step = "active", ![l].status = "active"]
    /\ UNCHANGED <<chainVars, request, tail, leaving, budgetVars>>

\* The step says that nothing is missing: done without an await.
ResumeActivates(r, l) ==
    /\ Resumable(r, l)
    /\ registry[l].handler # None /\ Published(registry[l].step)
    /\ registry' = [registry EXCEPT ![l].step = "active", ![l].status = "active"]
    /\ UNCHANGED <<chainVars, request, tail, leaving, budgetVars>>

resumeLoop(r, l) ==
    ResumeSubmits(r, l) \/ ResumeFinalizes(r, l) \/ ResumePublishes(r, l) \/ ResumeActivates(r, l)

-----------------------------------------------------------------------------
(* runPipeline, from await to await                                        *)

submitDeployHandler(r) ==
    /\ At(r, "submit")
    /\ txs' = Append(txs, [loop |-> request[r].loop, status |-> "pending", recorded |-> FALSE])
    /\ request' = [request EXCEPT ![r].pc = "submitted", ![r].tx = Len(txs) + 1]
    /\ UNCHANGED <<registry, runs, escrow, tail, leaving, budgetVars>>

RecordsHash(r) ==
    /\ At(r, "submitted")
    /\ LET tx == request[r].tx
       IN  /\ registry' = [registry EXCEPT ![request[r].loop].deployTx = tx]
           /\ txs' = [txs EXCEPT ![tx].recorded = TRUE]
    /\ request' = [request EXCEPT ![r].pc = "finalize"]
    /\ UNCHANGED <<runs, escrow, tail, leaving, budgetVars>>

\* Mutant of finalizeDeployHandler: the vault is not written to the registry before the edit.
finalizeUnrecorded(r) ==
    /\ At(r, "finalize") /\ txs[request[r].tx].status = "landed"
    /\ request' = [request EXCEPT ![r].pc = "add", ![r].handler = request[r].tx]
    /\ Enqueues(r)
    /\ UNCHANGED <<registry, chainVars, leaving, budgetVars>>

finalizeDeployHandler(r) ==
    /\ At(r, "finalize") /\ txs[request[r].tx].status = "landed"
    /\ LET vault == request[r].tx
       IN  /\ registry' = [registry EXCEPT ![request[r].loop] =
                             [status |-> "deploying", step |-> "handler_deployed",
                              handler |-> vault, deployTx |-> None]]
           /\ request' = [request EXCEPT ![r].pc = "add", ![r].handler = vault]
    /\ Enqueues(r)
    /\ UNCHANGED <<chainVars, leaving, budgetVars>>

FinalizeReverted(r) ==
    /\ At(r, "finalize") /\ txs[request[r].tx].status = "reverted"
    /\ registry' = [registry EXCEPT ![request[r].loop].status = "failed"]
    /\ Done(r)
    /\ UNCHANGED <<chainVars, tail, leaving, budgetVars>>

\* The edit of runPipeline; it keeps a workflow that is there already.
AddLands(r) ==
    /\ At(r, "add") /\ AtHead(r)
    /\ runs' = [runs EXCEPT ![request[r].loop] = IF @ = None THEN request[r].handler ELSE @]
    /\ request' = [request EXCEPT ![r].pc = "added"]
    /\ UNCHANGED <<registry, txs, escrow, tail, leaving, budgetVars>>

\* service_updated and active are written with no await between them.
Activates(r) ==
    /\ At(r, "added")
    /\ registry' = [registry EXCEPT ![request[r].loop].step = "active",
                                    ![request[r].loop].status = "active"]
    /\ Done(r)
    /\ tail' = Tail(tail)
    /\ UNCHANGED <<chainVars, leaving, budgetVars>>

-----------------------------------------------------------------------------
(* deactivateLoop                                                          *)

Deactivable(r, l) == Free(r, l) /\ Recorded(l) /\ registry[l].status # "inactive"

\* No vault yet: nothing to strand, nothing to remove.
DeactivatesUndeployed(r, l) ==
    /\ Deactivable(r, l) /\ registry[l].handler = None
    /\ registry' = [registry EXCEPT ![l].status = "inactive"]
    /\ UNCHANGED <<chainVars, request, tail, leaving, budgetVars>>

vaultPendingBalances(r, l) ==
    /\ Deactivable(r, l) /\ registry[l].handler # None
    /\ Awaits(r, l, "balances", None, registry[l].handler)
    /\ UNCHANGED <<registry, chainVars, tail, leaving, budgetVars>>

deactivateLoop(r, l) == DeactivatesUndeployed(r, l) \/ vaultPendingBalances(r, l)

\* Mutant of PauseRefused: the guard is advisory, the pause goes on.
PauseWarned(r) ==
    /\ At(r, "balances") /\ request[r].handler \in escrow
    /\ request' = [request EXCEPT ![r].pc = "remove"]
    /\ Enqueues(r)
    /\ leaving' = leaving \cup {request[r].loop}
    /\ UNCHANGED <<registry, chainVars, budgetVars>>

PauseRefused(r) ==
    /\ At(r, "balances") /\ request[r].handler \in escrow
    /\ Done(r)
    /\ UNCHANGED <<registry, chainVars, tail, leaving, budgetVars>>

\* Mutant of PausesUnpublished: a loop that failed is taken for one that never ran.
PausesFailed(r) ==
    /\ At(r, "balances") /\ request[r].handler \notin escrow
    /\ ~Published(request[r].step) \/ registry[request[r].loop].status = "failed"
    /\ registry' = [registry EXCEPT ![request[r].loop].status = "inactive"]
    /\ Done(r)
    /\ UNCHANGED <<chainVars, tail, leaving, budgetVars>>

\* The step read before the await says the service has no workflow of the loop.
PausesUnpublished(r) ==
    /\ At(r, "balances") /\ request[r].handler \notin escrow
    /\ ~Published(request[r].step)
    /\ registry' = [registry EXCEPT ![request[r].loop].status = "inactive"]
    /\ Done(r)
    /\ UNCHANGED <<chainVars, tail, leaving, budgetVars>>

PausesPublished(r) ==
    /\ At(r, "balances") /\ request[r].handler \notin escrow
    /\ Published(request[r].step)
    /\ request' = [request EXCEPT ![r].pc = "remove"]
    /\ Enqueues(r)
    /\ leaving' = leaving \cup {request[r].loop}
    /\ UNCHANGED <<registry, chainVars, budgetVars>>

RemoveLands(r) ==
    /\ At(r, "remove") /\ AtHead(r)
    /\ runs' = [runs EXCEPT ![request[r].loop] = None]
    /\ request' = [request EXCEPT ![r].pc = "removed"]
    /\ UNCHANGED <<registry, txs, escrow, tail, leaving, budgetVars>>

Deactivates(r) ==
    /\ At(r, "removed")
    /\ registry' = [registry EXCEPT ![request[r].loop].status = "inactive"]
    /\ Done(r)
    /\ tail' = Tail(tail)
    /\ UNCHANGED <<chainVars, leaving, budgetVars>>

-----------------------------------------------------------------------------
(* Failures                                                                *)

\* Waiting for its turn, a request makes no call that could fail.
MayFail(r) ==
    /\ failures < FailBudget /\ failures' = failures + 1
    /\ ~At(r, "none")
    /\ At(r, "add") \/ At(r, "remove") => AtHead(r)

\* Mutant of PipelineFails: the hash of the deployment is given up with the request.
PipelineFailsForgets(r) ==
    /\ MayFail(r) /\ ~At(r, "balances")
    /\ registry' = [registry EXCEPT ![request[r].loop].status = "failed",
                                    ![request[r].loop].deployTx = None]
    /\ Done(r)
    /\ tail' = IF AtHead(r) THEN Tail(tail) ELSE tail
    /\ UNCHANGED <<chainVars, leaving, reverts>>

\* Mutant of PipelineFails: a mutation that fails leaves the queue blocked.
PipelineFailsBlocking(r) ==
    /\ MayFail(r) /\ ~At(r, "balances")
    /\ registry' = [registry EXCEPT ![request[r].loop].status = "failed"]
    /\ Done(r)
    /\ UNCHANGED <<chainVars, tail, leaving, reverts>>

\* A call of the chain or of ipfs throws, before it had its effect or after.
PipelineFails(r) ==
    /\ MayFail(r) /\ ~At(r, "balances")
    /\ registry' = [registry EXCEPT ![request[r].loop].status = "failed"]
    /\ Done(r)
    /\ tail' = IF AtHead(r) THEN Tail(tail) ELSE tail
    /\ UNCHANGED <<chainVars, leaving, reverts>>

\* The balances are read outside of the try: the row is not touched.
BalancesFail(r) ==
    /\ MayFail(r) /\ At(r, "balances")
    /\ Done(r)
    /\ UNCHANGED <<registry, chainVars, tail, leaving, reverts>>

\* The row of a loop whose request was about to activate it may have got half of that.
HalfActivated ==
    {[registry EXCEPT ![request[r].loop].step = "service_updated"] : r \in {q \in Requests : At(q, "added")}}

Crash ==
    /\ failures < FailBudget /\ failures' = failures + 1
    /\ \E r \in Requests : ~At(r, "none")
    /\ registry' \in {registry} \cup HalfActivated
    /\ request' = [r \in Requests |-> NoRequest]
    /\ tail' = <<>>
    /\ UNCHANGED <<chainVars, leaving, reverts>>

-----------------------------------------------------------------------------
(* The chain                                                               *)

DeployLands(tx) ==
    /\ txs[tx].status = "pending"
    /\ txs' = [txs EXCEPT ![tx].status = "landed"]
    /\ UNCHANGED <<registry, runs, escrow, request, tail, leaving, budgetVars>>

DeployReverts(tx) ==
    /\ txs[tx].status = "pending"
    /\ reverts < RevertBudget /\ reverts' = reverts + 1
    /\ txs' = [txs EXCEPT ![tx].status = "reverted"]
    /\ UNCHANGED <<registry, runs, escrow, request, tail, leaving, failures>>

\* Someone requests a deposit or a redemption.
EscrowOpens(tx) ==
    /\ txs[tx].status = "landed" /\ tx \notin escrow
    /\ escrow' = escrow \cup {tx}
    /\ UNCHANGED <<registry, txs, runs, request, tail, leaving, budgetVars>>

\* A strike settles; only a workflow of the service makes one.
EscrowSettles(l) ==
    /\ runs[l] \in escrow
    /\ escrow' = escrow \ {runs[l]}
    /\ UNCHANGED <<registry, txs, runs, request, tail, leaving, budgetVars>>

-----------------------------------------------------------------------------

Step(r) ==
    \/ submitDeployHandler(r) \/ RecordsHash(r)
    \/ finalizeDeployHandler(r) \/ FinalizeReverted(r)
    \/ AddLands(r) \/ Activates(r)
    \/ PauseRefused(r) \/ PausesUnpublished(r) \/ PausesPublished(r)
    \/ RemoveLands(r) \/ Deactivates(r)

Chain ==
    \/ \E tx \in DOMAIN txs : DeployLands(tx) \/ DeployReverts(tx) \/ EscrowOpens(tx)
    \/ \E l \in Loops : EscrowSettles(l)

Next ==
    \/ \E r \in Requests, l \in Loops : createLoop(r, l) \/ resumeLoop(r, l) \/ deactivateLoop(r, l)
    \/ \E r \in Requests : Step(r) \/ PipelineFails(r) \/ BalancesFail(r)
    \/ Crash
    \/ Chain

MineDeploys == \E tx \in DOMAIN txs : DeployLands(tx) \/ DeployReverts(tx)

(***************************************************************************)
(* Calls are answered and transactions are mined; a workflow strikes on    *)
(* its schedule; and whoever published a loop keeps asking to resume it.   *)
(***************************************************************************)
Fairness ==
    /\ WF_vars(MineDeploys)
    /\ \A r \in Requests : WF_vars(Step(r))
    /\ \A l \in Loops : WF_vars(EscrowSettles(l))
    /\ \A l \in Loops : SF_vars(\E r \in Requests : resumeLoop(r, l))

Spec == Init /\ [][Next]_vars /\ Fairness

-----------------------------------------------------------------------------
(* Properties                                                              *)

Vaults == {tx \in DOMAIN txs : txs[tx].status = "landed"}

(***************************************************************************)
(* Types.  A row names only vaults deployed for its own loop, and the      *)
(* mutation queue holds, once, the requests that edit service.json.        *)
(***************************************************************************)
TypeOK ==
    /\ \A l \in Loops :
          /\ registry[l].status \in {"none", "deploying", "active", "failed", "inactive"}
          /\ registry[l].step \in {"none", "validated", "handler_deployed", "service_updated", "active"}
          /\ registry[l].handler # None =>
                registry[l].handler \in Vaults /\ txs[registry[l].handler].loop = l
          /\ registry[l].deployTx # None => txs[registry[l].deployTx].loop = l
          /\ runs[l] \in {None} \cup Vaults
    /\ escrow \subseteq Vaults /\ leaving \subseteq Loops
    /\ IsInjective(tail)
    /\ ToSet(tail) = {r \in Requests : request[r].pc \in {"add", "added", "remove", "removed"}}

(***************************************************************************)
(* The windows the comments of runPipeline name are closed: once the hash  *)
(* of a deployment was recorded, no crash, failure or resume makes another *)
(* deployment of the loop reach the registry.                              *)
(***************************************************************************)
RecordedOnce ==
    \A l \in Loops \ Overlap :
        Cardinality({tx \in DOMAIN txs : txs[tx].loop = l /\ txs[tx].recorded}) <= 1

(***************************************************************************)
(* The workflow of a loop strikes the vault the registry shows for it, at  *)
(* every step and after every crash.  It needs one request at a time for a *)
(* loop: the server itself does not enforce that.                          *)
(***************************************************************************)
WorkflowMatchesRegistry ==
    \A l \in Loops \ Overlap : runs[l] # None => runs[l] = registry[l].handler

(***************************************************************************)
(* A loop that is shown as active runs, unless its removal was begun:      *)
(* whatever crashed or failed on the way there.                            *)
(***************************************************************************)
ActiveLoopRuns ==
    \A l \in Loops : registry[l].status = "active" /\ l \notin leaving => runs[l] # None

(***************************************************************************)
(* Every request ends, whatever happened to those before it in the         *)
(* mutation queue.                                                         *)
(***************************************************************************)
RequestsEnd == \A r \in Requests : ~At(r, "none") ~> At(r, "none")

(***************************************************************************)
(* "Resume a failed deployment from its recorded step" (resumeLoop): a     *)
(* loop that is resumed again and again gets deployed, unless it is paused.*)
(***************************************************************************)
LoopSettles == \A l \in Loops : Recorded(l) ~> registry[l].status \in {"active", "inactive"}

(***************************************************************************)
(* The pause guard: what was requested of a loop's vault while nothing was *)
(* asked of the loop is settled, however the pauses, resumes and crashes   *)
(* that follow interleave with the strikes.  What is requested while a     *)
(* pause is on its way, after it read the balances, may be left without a  *)
(* workflow.                                                               *)
(***************************************************************************)
EscrowIsSettled ==
    \A l \in Loops :
        /\ runs[l] \in escrow /\ runs[l] = registry[l].handler
        /\ ~Busy(l) /\ l \notin leaving
        ~> runs[l] # None /\ runs[l] \notin escrow

(***************************************************************************)
(* "Remove the loop's workflow from the service" (deactivateLoop): a loop  *)
(* that is paused does not run, if its row had reached the service; after  *)
(* a crash between the landed edit and the row, the pause removes nothing. *)
(***************************************************************************)
InactiveLoopStopped ==
    \A l \in Loops \ Overlap :
        /\ registry[l].status = "inactive" /\ Published(registry[l].step)
        /\ ~Busy(l)
        => runs[l] = None

=============================================================================
