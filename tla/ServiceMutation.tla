-------------------------- MODULE ServiceMutation --------------------------
(***************************************************************************)
(* LoopDeployer.mutateService and nudgeService of                          *)
(* packages/loop-deploy/src/deployer.ts: every loop is a workflow of one   *)
(* shared service.json, and every edit of it is fetch, edit, pin, set on   *)
(* chain.  A loop server runs its edits one after the other; other loop    *)
(* servers of the same service manager run at the same time.               *)
(*                                                                         *)
(* A document is the set of its loop workflows (the template workflow is   *)
(* always there and left out, and so is the order of the keys).  An        *)
(* ipfs:// URI names its content, so the URI the manager holds is the      *)
(* document itself.  setServiceURI is onlyOwner: all writers send from one *)
(* account, so their transactions are mined in the order of their nonces,  *)
(* several to a block.                                                     *)
(***************************************************************************)
EXTENDS Naturals, Sequences

CONSTANTS
    Servers,        \* loop server processes that share one service manager
    Workflows,      \* workflow ids
    NoServer,       \* the sender of a transaction nobody waits for
    NoWorkflow,     \* the workflow of a nudge
    Home,           \* Home[w]: the server whose registry holds the loop of w
    MaxAttempts,    \* MAX_ATTEMPTS of mutateService
    Preinstalled,   \* workflows of the first document, installed earlier
    MutationBudget, \* bound: mutations a server starts
    NudgeBudget,    \* bound: nudges a server starts
    FailBudget      \* bound: calls that fail and crashes, over all servers

ASSUME MutationAssumption ==
    /\ NoServer \notin Servers /\ NoWorkflow \notin Workflows
    /\ Home \in [Workflows -> Servers]
    /\ MaxAttempts \in Nat \ {0}
    /\ Preinstalled \subseteq Workflows
    /\ MutationBudget \in Nat /\ NudgeBudget \in Nat /\ FailBudget \in Nat

VARIABLES
    head,       \* number of the last block
    serviceURI, \* the manager's service URI
    updates,    \* ServiceURIUpdated events: block and URI
    mempool,    \* setServiceURI transactions not mined yet, by nonce
    job,        \* what runs at the head of each server's mutationTail
    added,      \* workflows whose installation was reported
    leaving,    \* workflows whose removal was started
    removed,    \* workflows whose removal was reported
    mutations, nudges, failures     \* used up so far

chainVars == <<head, serviceURI, updates, mempool>>
reportVars == <<added, leaving, removed>>
budgetVars == <<mutations, nudges, failures>>
vars == <<chainVars, job, reportVars, budgetVars>>

-----------------------------------------------------------------------------
(* The edits of service.json: builder.ts                                   *)

addLoopWorkflow(doc, workflow) == doc \cup {workflow}

removeLoopWorkflow(doc, workflow) == doc \ {workflow}

\* target with every workflow of the donors that it does not have, one donor after the other.
mergeMissingWorkflows(target, donors) == target \cup UNION donors

-----------------------------------------------------------------------------

NoJob == [pc |-> "none", op |-> "none", workflow |-> NoWorkflow, attempt |-> 0,
          checkpoint |-> 0, edited |-> {}, writeBlock |-> 0, overlaps |-> {}]

Init ==
    /\ head = 0 /\ serviceURI = Preinstalled /\ updates = {} /\ mempool = <<>>
    /\ job = [s \in Servers |-> NoJob]
    /\ added = Preinstalled /\ leaving = {} /\ removed = {}
    /\ mutations = [s \in Servers |-> 0] /\ nudges = [s \in Servers |-> 0] /\ failures = 0

At(s, pc) == job[s].pc = pc

\* The job of s ends, and s may start the next one of its queue.
Ends(s) == job' = [job EXCEPT ![s] = NoJob]

\* The job of s ends with its edit reported as done.
Succeeds(s) ==
    LET w == job[s].workflow
    IN  /\ Ends(s)
        /\ added' = IF job[s].op = "add" THEN added \cup {w} ELSE added
        /\ removed' = IF job[s].op = "remove" THEN removed \cup {w} ELSE removed
        /\ UNCHANGED leaving

\* Mutant of Retried: the document is not sent again, only looked for.
RetriedByLooking(j) == [j EXCEPT !.pc = "scan"]

\* Back to the top of the loop of mutateService, or out of attempts and out with an error.
Retried(j) ==
    IF j.attempt + 1 < MaxAttempts
    THEN [j EXCEPT !.attempt = @ + 1, !.pc = "checkpoint"]
    ELSE NoJob

-----------------------------------------------------------------------------
(* mutateService                                                           *)

\* A server starts its next job only when the one before it ended.
TailFree(s) == At(s, "none")

StartJob(s, op, workflow, pc) ==
    job' = [job EXCEPT ![s] = [NoJob EXCEPT !.op = op, !.workflow = workflow, !.pc = pc]]

\* runPipeline: a loop that did not reach the step service_updated, new or resumed.
StartAdd(s, w) ==
    /\ TailFree(s) /\ Home[w] = s /\ w \notin added
    /\ mutations[s] < MutationBudget
    /\ mutations' = [mutations EXCEPT ![s] = @ + 1]
    /\ StartJob(s, "add", w, "checkpoint")
    /\ UNCHANGED <<chainVars, reportVars, nudges, failures>>

\* deactivateLoop of a loop that did, again after a failure.
StartRemove(s, w) ==
    /\ TailFree(s) /\ Home[w] = s /\ w \in added \ removed
    /\ mutations[s] < MutationBudget
    /\ mutations' = [mutations EXCEPT ![s] = @ + 1]
    /\ StartJob(s, "remove", w, "checkpoint")
    /\ leaving' = leaving \cup {w}
    /\ UNCHANGED <<chainVars, added, removed, nudges, failures>>

getCurrentBlockNumber(s) ==
    /\ At(s, "checkpoint")
    /\ job' = [job EXCEPT ![s].checkpoint = head, ![s].pc = "read"]
    /\ UNCHANGED <<chainVars, reportVars, budgetVars>>

\* The edit has nothing to do: the workflow is there already, or already gone.
EditIsNoop(s) ==
    /\ At(s, "read")
    /\ (job[s].op = "add") = (job[s].workflow \in serviceURI)
    /\ Succeeds(s)
    /\ UNCHANGED <<chainVars, budgetVars>>

\* Fetch, edit and pin; documents on ipfs do not change.
EditAndPin(s) ==
    /\ At(s, "read")
    /\ (job[s].op = "add") # (job[s].workflow \in serviceURI)
    /\ LET w == job[s].workflow
           edited == IF job[s].op = "add" THEN addLoopWorkflow(serviceURI, w)
                                          ELSE removeLoopWorkflow(serviceURI, w)
       IN  job' = [job EXCEPT ![s].edited = edited, ![s].pc = "send"]
    /\ UNCHANGED <<chainVars, reportVars, budgetVars>>

\* setServiceUri: the transaction is sent, and its receipt awaited.
setServiceUri(s, pc, next) ==
    /\ At(s, pc)
    /\ mempool' = Append(mempool, [by |-> s, uri |-> job[s].edited])
    /\ job' = [job EXCEPT ![s].pc = next]
    /\ UNCHANGED <<head, serviceURI, updates, reportVars, budgetVars>>

(***************************************************************************)
(* The first send throws, on a nonce race or as a duplicate, though its    *)
(* transaction is on its way: setServiceUri sends it again and awaits that *)
(* one.  Nobody waits for the first.                                       *)
(***************************************************************************)
Resent(s, pc, next) ==
    /\ At(s, pc)
    /\ failures < FailBudget
    /\ failures' = failures + 1
    /\ mempool' = mempool \o <<[by |-> NoServer, uri |-> job[s].edited],
                              [by |-> s, uri |-> job[s].edited]>>
    /\ job' = [job EXCEPT ![s].pc = next]
    /\ UNCHANGED <<head, serviceURI, updates, reportVars, mutations, nudges>>

\* What a server does with the receipt of its transaction, mined in block.
WithReceipt(j, block) ==
    CASE j.pc = "mining"      -> [j EXCEPT !.writeBlock = block, !.pc = "scan"]
      [] j.pc = "mergeMining" -> Retried(j)
      [] j.pc = "nudgeMining" -> NoJob

\* A block takes the first n transactions.
Mine(n) ==
    LET block == head + 1
        mined == {mempool[i].by : i \in 1 .. n}
    IN  /\ head' = block
        /\ serviceURI' = mempool[n].uri
        /\ updates' = updates \cup {[block |-> block, uri |-> mempool[i].uri] : i \in 1 .. n}
        /\ mempool' = SubSeq(mempool, n + 1, Len(mempool))
        /\ job' = [s \in Servers |-> IF s \in mined THEN WithReceipt(job[s], block) ELSE job[s]]
        /\ UNCHANGED <<reportVars, budgetVars>>

\* Mutant of UpdatesBetween: one block short.
UpdatesBetweenShort(from, to) ==
    {u.uri : u \in {e \in updates : e.block \in from .. to - 1}}

\* Updates strictly between the checkpoint and our own block.
UpdatesBetween(from, to) ==
    {u.uri : u \in {e \in updates : e.block \in from .. to}}

getServiceUriUpdates(s) ==
    /\ At(s, "scan")
    /\ job' = [job EXCEPT ![s].overlaps = UpdatesBetween(job[s].checkpoint + 1, job[s].writeBlock - 1),
                          ![s].pc = "post"]
    /\ UNCHANGED <<chainVars, reportVars, budgetVars>>

\* No other writer, and the URI is ours.
Verified(s) ==
    /\ At(s, "post")
    /\ serviceURI = job[s].edited /\ job[s].overlaps = {}
    /\ Succeeds(s)
    /\ UNCHANGED <<chainVars, budgetVars>>

\* The URI is ours, but we overwrote others: bring their workflows back, then look again.
Clobbered(s) ==
    /\ At(s, "post")
    /\ serviceURI = job[s].edited /\ job[s].overlaps # {}
    /\ LET merged == mergeMissingWorkflows(job[s].edited, job[s].overlaps)
       IN  job' = [job EXCEPT ![s] = IF merged = job[s].edited THEN Retried(job[s])
                                     ELSE [job[s] EXCEPT !.edited = merged, !.pc = "mergeSend"]]
    /\ UNCHANGED <<chainVars, reportVars, budgetVars>>

\* Someone overwrote us: again, from their document.
Lost(s) ==
    /\ At(s, "post")
    /\ serviceURI # job[s].edited
    /\ job' = [job EXCEPT ![s] = Retried(job[s])]
    /\ UNCHANGED <<chainVars, reportVars, budgetVars>>

-----------------------------------------------------------------------------
(* nudgeService: the heartbeat and the re-emit after a publish             *)

StartNudge(s) ==
    /\ TailFree(s)
    /\ nudges[s] < NudgeBudget
    /\ nudges' = [nudges EXCEPT ![s] = @ + 1]
    /\ StartJob(s, "nudge", NoWorkflow, "nudgeRead")
    /\ UNCHANGED <<chainVars, reportVars, mutations, failures>>

\* Mutant of NudgeReads: the nudge re-emits a URI cached at start-up.
NudgeReadsCached(s) ==
    /\ At(s, "nudgeRead")
    /\ job' = [job EXCEPT ![s].edited = Preinstalled, ![s].pc = "nudgeSend"]
    /\ UNCHANGED <<chainVars, reportVars, budgetVars>>

NudgeReads(s) ==
    /\ At(s, "nudgeRead")
    /\ job' = [job EXCEPT ![s].edited = serviceURI, ![s].pc = "nudgeSend"]
    /\ UNCHANGED <<chainVars, reportVars, budgetVars>>

(***************************************************************************)
(* A call of the chain or of ipfs throws, or the server crashes: the job   *)
(* is lost without a report.  A transaction it sent is still mined.        *)
(***************************************************************************)
Fail(s) ==
    /\ ~TailFree(s)
    /\ failures < FailBudget
    /\ failures' = failures + 1
    /\ Ends(s)
    /\ mempool' = [i \in DOMAIN mempool |->
                      IF mempool[i].by = s THEN [mempool[i] EXCEPT !.by = NoServer] ELSE mempool[i]]
    /\ UNCHANGED <<head, serviceURI, updates, reportVars, mutations, nudges>>

-----------------------------------------------------------------------------

Step(s) ==
    \/ getCurrentBlockNumber(s)
    \/ EditIsNoop(s)
    \/ EditAndPin(s)
    \/ setServiceUri(s, "send", "mining")
    \/ getServiceUriUpdates(s)
    \/ Verified(s)
    \/ Clobbered(s)
    \/ setServiceUri(s, "mergeSend", "mergeMining")
    \/ Lost(s)
    \/ NudgeReads(s)
    \/ setServiceUri(s, "nudgeSend", "nudgeMining")

MineSome == \E n \in 1 .. Len(mempool) : Mine(n)

Start(s) ==
    \/ \E w \in Workflows : StartAdd(s, w) \/ StartRemove(s, w)
    \/ StartNudge(s)

SendsAgain(s) ==
    \/ Resent(s, "send", "mining")
    \/ Resent(s, "mergeSend", "mergeMining")
    \/ Resent(s, "nudgeSend", "nudgeMining")

Next ==
    \/ \E s \in Servers : Start(s) \/ Step(s) \/ Fail(s) \/ SendsAgain(s)
    \/ MineSome

(***************************************************************************)
(* Calls are answered and transactions are mined.  Nobody has to start a   *)
(* mutation.                                                               *)
(***************************************************************************)
Fairness == WF_vars(MineSome) /\ \A s \in Servers : WF_vars(Step(s))

Spec == Init /\ [][Next]_vars /\ Fairness

-----------------------------------------------------------------------------
(* Properties                                                              *)

Quiet == mempool = <<>> /\ \A s \in Servers : TailFree(s)

(***************************************************************************)
(* Once every job has ended, each workflow whose installation was reported *)
(* is in the service the operators run, unless its removal was asked for.  *)
(* It is so, while no call fails, of one server and of two that edit once  *)
(* each; not of two that edit more often.                                  *)
(***************************************************************************)
NoLostWorkflow == Quiet => added \ leaving \subseteq serviceURI

(***************************************************************************)
(* Once every job has ended, no workflow whose removal was reported is in  *)
(* the service, though one call failed or the server stopped once.         *)
(***************************************************************************)
NoResurrection == Quiet /\ failures <= 1 => removed \cap serviceURI = {}

(***************************************************************************)
(* A mutation ends, with a report or with an error: it does not retry      *)
(* forever.                                                                *)
(***************************************************************************)
MutationEnds == \A s \in Servers : ~TailFree(s) ~> TailFree(s)

-----------------------------------------------------------------------------

Service == INSTANCE ServiceDocument WITH doc <- serviceURI

(***************************************************************************)
(* One loop server edits the shared document as if each mutation were      *)
(* atomic, its nudges included, until a call fails: every step is one of   *)
(* ServiceDocument or a stutter.  It is what the serialized queue is for.  *)
(***************************************************************************)
EditsAreAtomic ==
    /\ Service!Init
    /\ [][failures = 0 => Service!Next \/ UNCHANGED Service!vars]_vars

=============================================================================
