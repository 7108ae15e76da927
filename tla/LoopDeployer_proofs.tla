------------------------ MODULE LoopDeployer_proofs ------------------------
(***************************************************************************)
(* Proofs about LoopDeployer, for any loops, requests and bounds.          *)
(*                                                                         *)
(* None of the properties is inductive.  What is missing is what a request *)
(* knows between two awaits: that the row it read is still the row of its  *)
(* loop where it works on it alone, that its transaction is its own, and   *)
(* that a step written to the registry was reached in the service.         *)
(*                                                                         *)
(* TypeOK needs two more: that a request is about to write the transaction *)
(* or the vault of its own loop, and that an edit that landed is that of   *)
(* the first request of the queue.                                         *)
(***************************************************************************)
EXTENDS LoopDeployer, FiniteSetTheorems, SequenceTheorems, TLAPS

Steps == {"none", "validated", "handler_deployed", "service_updated", "active"}

Statuses == {"none", "deploying", "active", "failed", "inactive"}

PCs == {"none", "submit", "submitted", "finalize", "add", "added", "balances", "remove", "removed"}

Row == [status : Statuses, step : Steps, handler : Nat, deployTx : Nat]

Deployment == [loop : Loops, status : {"pending", "landed", "reverted"}, recorded : BOOLEAN]

Job == [pc : PCs, loop : Loops \cup {"none"}, tx : Nat, handler : Nat, step : Steps]

\* Types.
TypeInv ==
    /\ registry \in [Loops -> Row]
    /\ txs \in Seq(Deployment)
    /\ runs \in [Loops -> Nat]
    /\ request \in [Requests -> Job]
    /\ leaving \subseteq Loops

Active(r) == request[r].pc # "none"

\* A request at work has a loop; the transactions it and the rows name were sent.
Known ==
    /\ \A r \in Requests : Active(r) => request[r].loop \in Loops
    /\ \A l \in Loops : registry[l].deployTx <= Len(txs)
    /\ \A r \in Requests : request[r].pc \in {"submitted", "finalize"} =>
          request[r].tx \in 1 .. Len(txs)
    /\ \A r \in Requests : request[r].pc = "submitted" =>
          txs[request[r].tx].loop = request[r].loop

\* A loop that does not allow overlap has one request at a time.
Alone ==
    \A r, q \in Requests :
        Active(r) /\ Active(q) /\ request[r].loop = request[q].loop
        /\ request[r].loop \notin Overlap => r = q

\* What job j, alone at work on a loop, knows of its row.
Knows(j, row) ==
    /\ j.pc \in {"submit", "submitted"} => row.handler = None /\ row.deployTx = None
    /\ j.pc = "finalize" => row.handler = None
    /\ j.pc = "add" => j.handler = row.handler
    /\ j.pc = "balances" => j.step = row.step
    /\ row.status # "inactive"

RowsAsRead ==
    \A r \in Requests :
        Active(r) /\ request[r].loop \notin Overlap =>
            /\ Knows(request[r], registry[request[r].loop])
            /\ request[r].pc = "removed" => runs[request[r].loop] = None

\* WorkflowMatchesRegistry.
Matches == \A l \in Loops \ Overlap : runs[l] # None => runs[l] = registry[l].handler

\* A step or a status that says so was reached in the service, unless a removal was begun.
Reached ==
    /\ \A l \in Loops :
          (Published(registry[l].step) \/ registry[l].status = "active") /\ l \notin leaving
              => runs[l] # None
    /\ \A r \in Requests :
          /\ request[r].pc = "add" => request[r].handler # None
          /\ request[r].pc = "added" /\ request[r].loop \notin leaving
                => runs[request[r].loop] # None
          /\ request[r].pc \in {"remove", "removed"} => request[r].loop \in leaving

\* A loop paused after its row had reached the service does not run.
Stopped ==
    \A l \in Loops \ Overlap :
        registry[l].status = "inactive" /\ Published(registry[l].step) => runs[l] = None

RecordedFor(t, l) == t \in DOMAIN txs /\ txs[t].loop = l /\ txs[t].recorded

\* A row without a vault and without a hash has no recorded deployment; none has two.
OneRecord ==
    /\ \A l \in Loops \ Overlap :
          registry[l].handler = None /\ registry[l].deployTx = None => \A t \in Nat : ~RecordedFor(t, l)
    /\ \A l \in Loops \ Overlap : \A t, u \in Nat : RecordedFor(t, l) /\ RecordedFor(u, l) => t = u

Inv == TypeInv /\ Known /\ Alone /\ RowsAsRead /\ Matches /\ Reached /\ Stopped /\ OneRecord

-----------------------------------------------------------------------------

LEMMA InitInv == Init => Inv
<1> SUFFICES ASSUME Init
             PROVE  Inv
    OBVIOUS
<1>1. TypeInv
    BY DEF Init, TypeInv, Row, Steps, Statuses, Job, PCs, NoRow, NoRequest, None, Deployment
<1>2. Known /\ Alone /\ RowsAsRead
    BY DEF Init, Known, Alone, RowsAsRead, Active, NoRow, NoRequest, None
<1>3. Matches /\ Reached /\ Stopped
    BY DEF Init, Matches, Reached, Stopped, Published, NoRow, NoRequest, None
<1>4. OneRecord
    BY DEF Init, OneRecord, RecordedFor
<1> QED BY <1>1, <1>2, <1>3, <1>4 DEF Inv

-----------------------------------------------------------------------------
(* What the steps have in common                                           *)

\* The row of a loop is written, and requests end: the vault and the hash stay.
LEMMA RowWritten ==
    ASSUME Inv, NEW l \in Loops, NEW row \in Row,
           registry' = [registry EXCEPT ![l] = row],
           row.handler = registry[l].handler, row.deployTx = registry[l].deployTx,
           request' \in [Requests -> Job],
           \A q \in Requests : request'[q] = request[q] \/ request'[q] = NoRequest,
           \A q \in Requests : request'[q].pc # "none" /\ l \notin Overlap => request[q].loop # l,
           UNCHANGED <<txs, runs, leaving>>,
           Published(row.step) \/ row.status = "active" => l \in leaving \/ runs[l] # None,
           row.status = "inactive" /\ Published(row.step) /\ l \notin Overlap => runs[l] = None
    PROVE  Inv'
<1>1. /\ registry' \in [Loops -> Row] /\ registry'[l] = row
      /\ \A k \in Loops : k # l => registry'[k] = registry[k]
    BY DEF Inv, TypeInv
<1>2. \A q \in Requests : Active(q)' => Active(q) /\ request'[q] = request[q]
    BY DEF Active, NoRequest
<1>3. \A k \in Loops : registry'[k].handler = registry[k].handler
                    /\ registry'[k].deployTx = registry[k].deployTx
    BY <1>1
<1>4. TypeInv'
    BY <1>1 DEF Inv, TypeInv
<1>5. Known' /\ Alone'
    BY <1>2, <1>3 DEF Inv, Known, Alone, Active
<1>6. RowsAsRead'
    BY <1>1, <1>2 DEF Inv, Known, RowsAsRead, Active
<1>7. Matches'
    BY <1>3 DEF Inv, Matches
<1>8. Reached'
    BY <1>1, <1>2 DEF Inv, Reached, Active
<1>9. Stopped'
    BY <1>1 DEF Inv, Stopped
<1>10. OneRecord'
    BY <1>3 DEF Inv, OneRecord, RecordedFor
<1> QED BY <1>4, <1>5, <1>6, <1>7, <1>8, <1>9, <1>10 DEF Inv

\* A request goes on with job j, and nothing else happens.
LEMMA JobTaken ==
    ASSUME Inv, NEW r \in Requests, NEW j \in Job,
           request' = [request EXCEPT ![r] = j],
           j.pc \notin {"none", "submitted", "added", "removed"}, j.loop \in Loops,
           j.loop \notin Overlap =>
               /\ Knows(j, registry[j.loop])
               /\ \A q \in Requests : q # r => request[q].loop # j.loop,
           j.pc = "finalize" => j.tx \in 1 .. Len(txs),
           j.pc = "add" => j.handler # None,
           UNCHANGED <<registry, txs, runs>>,
           leaving \subseteq leaving', leaving' \subseteq Loops,
           j.pc = "remove" => j.loop \in leaving'
    PROVE  Inv'
<1>1. /\ request' \in [Requests -> Job] /\ request'[r] = j
      /\ \A q \in Requests : q # r => request'[q] = request[q]
    BY DEF Inv, TypeInv
<1>2. TypeInv' /\ Known'
    BY <1>1 DEF Inv, TypeInv, Known, Active
<1>3. Alone'
    BY <1>1 DEF Inv, Alone, Active
<1>4. RowsAsRead'
    BY <1>1 DEF Inv, RowsAsRead, Active
<1>5. Matches' /\ Stopped' /\ OneRecord'
    BY DEF Inv, Matches, Stopped, OneRecord, RecordedFor
<1>6. Reached'
    BY <1>1 DEF Inv, Reached
<1> QED BY <1>2, <1>3, <1>4, <1>5, <1>6 DEF Inv

\* A transaction changes its status and nothing else.
LEMMA StatusWritten ==
    ASSUME Inv, NEW i \in DOMAIN txs, NEW status \in {"pending", "landed", "reverted"},
           txs' = [txs EXCEPT ![i].status = status],
           UNCHANGED <<registry, runs, request, leaving>>
    PROVE  Inv'
<1> DEFINE d == [txs[i] EXCEPT !.status = status]
<1>1. txs \in Seq(Deployment) /\ i \in 1 .. Len(txs) /\ txs[i] \in Deployment
    BY DEF Inv, TypeInv
<1>2. d \in Deployment /\ d.loop = txs[i].loop /\ d.recorded = txs[i].recorded
    BY <1>1 DEF Deployment
<1>3. txs' = [txs EXCEPT ![i] = d]
    OBVIOUS
<1> HIDE DEF d
<1>4. txs' \in Seq(Deployment) /\ Len(txs') = Len(txs)
      /\ \A j \in 1 .. Len(txs) : txs'[j].loop = txs[j].loop /\ txs'[j].recorded = txs[j].recorded
    BY <1>1, <1>2, <1>3, ExceptSeq
<1>5. TypeInv'
    BY <1>4 DEF Inv, TypeInv
<1>6. Known' /\ Alone' /\ RowsAsRead'
    BY <1>4 DEF Inv, Known, Alone, RowsAsRead, Active
<1>7. Matches' /\ Reached' /\ Stopped'
    BY DEF Inv, Matches, Reached, Stopped
<1>8. \A t \in Nat, l \in Loops : RecordedFor(t, l)' => RecordedFor(t, l)
    BY <1>1, <1>4 DEF RecordedFor
<1>9. OneRecord'
    BY <1>8 DEF Inv, OneRecord
<1> QED BY <1>5, <1>6, <1>7, <1>9 DEF Inv

-----------------------------------------------------------------------------
(* The steps                                                               *)

\* A request takes up a loop: nobody works on it, unless it allows overlap.
LEMMA StartsInv ==
    ASSUME Inv, NEW r \in Requests, NEW l \in Loops,
           \/ ResumeSubmits(r, l) \/ ResumeFinalizes(r, l) \/ ResumePublishes(r, l)
           \/ vaultPendingBalances(r, l)
    PROVE  Inv'
<1>1. registry[l] \in Row /\ registry[l].deployTx <= Len(txs) /\ Len(txs) \in Nat
    BY DEF Inv, TypeInv, Known
<1>2. l \notin Overlap /\ Free(r, l) => \A q \in Requests : q # r => request[q].loop # l
    BY DEF Free, Busy
<1>3. leaving \subseteq Loops
    BY DEF Inv, TypeInv
<1>4. ASSUME NEW pc \in PCs, NEW tx \in Nat, NEW handler \in Nat, Awaits(r, l, pc, tx, handler)
      PROVE  \E j \in Job : /\ request' = [request EXCEPT ![r] = j]
                            /\ j.pc = pc /\ j.loop = l /\ j.tx = tx /\ j.handler = handler
                            /\ j.step = registry[l].step
    <2> DEFINE j == [pc |-> pc, loop |-> l, tx |-> tx, handler |-> handler,
                     step |-> registry[l].step]
    <2>1. j \in Job
        BY <1>1 DEF Job, Row
    <2>2. request' = [request EXCEPT ![r] = j]
        BY <1>4 DEF Awaits
    <2> QED BY <2>1, <2>2
<1>5. CASE ResumeSubmits(r, l)
    <2>1. PICK j \in Job : /\ request' = [request EXCEPT ![r] = j]
                           /\ j.pc = "submit" /\ j.loop = l
        BY <1>4, <1>5 DEF ResumeSubmits, None, PCs
    <2> QED BY <1>2, <1>3, <1>5, <2>1, JobTaken DEF ResumeSubmits, Resumable, Knows, chainVars
<1>6. CASE ResumeFinalizes(r, l)
    <2>1. PICK j \in Job : /\ request' = [request EXCEPT ![r] = j]
                           /\ j.pc = "finalize" /\ j.loop = l /\ j.tx = registry[l].deployTx
        BY <1>1, <1>4, <1>6 DEF ResumeFinalizes, None, PCs, Row
    <2>2. j.tx \in 1 .. Len(txs)
        BY <1>1, <1>6, <2>1 DEF ResumeFinalizes, None, Row
    <2> QED BY <1>2, <1>3, <1>6, <2>1, <2>2, JobTaken
            DEF ResumeFinalizes, Resumable, Knows, chainVars
<1>7. CASE ResumePublishes(r, l)
    <2>1. PICK j \in Job : /\ request' = [request EXCEPT ![r] = j]
                           /\ j.pc = "add" /\ j.loop = l /\ j.handler = registry[l].handler
        BY <1>1, <1>4, <1>7 DEF ResumePublishes, None, PCs, Row
    <2> QED BY <1>2, <1>3, <1>7, <2>1, JobTaken
            DEF ResumePublishes, Resumable, Knows, chainVars
<1>8. CASE vaultPendingBalances(r, l)
    <2>1. PICK j \in Job : /\ request' = [request EXCEPT ![r] = j]
                           /\ j.pc = "balances" /\ j.loop = l /\ j.step = registry[l].step
        <3>1. None \in Nat /\ registry[l].handler \in Nat /\ "balances" \in PCs
            BY <1>1 DEF None, PCs, Row
        <3>2. Awaits(r, l, "balances", None, registry[l].handler)
            BY <1>8 DEF vaultPendingBalances
        <3> QED BY <1>4, <3>1, <3>2
    <2> QED BY <1>2, <1>3, <1>8, <2>1, JobTaken
            DEF vaultPendingBalances, Deactivable, Knows, chainVars
<1> QED BY <1>5, <1>6, <1>7, <1>8

\* A loop is created.
LEMMA CreatesInv ==
    ASSUME Inv, NEW r \in Requests, NEW l \in Loops,
           createLoop(r, l)
    PROVE  Inv'
<1> USE DEF None, NoRow, NoRequest, Free, At, Busy, Active, chainVars
<1>1. TypeInv'
    BY DEF Inv, TypeInv, Known, Row, Job, PCs, Steps, Statuses, Deployment, createLoop, Recorded
<1>2. Known'
    BY DEF Inv, TypeInv, Known, Row, Job, Deployment, createLoop, Recorded
<1>3. Alone'
    BY DEF Inv, TypeInv, Alone, createLoop, Recorded
<1>4. RowsAsRead'
    BY DEF Inv, TypeInv, Known, Alone, RowsAsRead, Knows, Matches, Row, Job, createLoop, Recorded
<1>5. Matches'
    BY DEF Inv, TypeInv, Known, RowsAsRead, Knows, Matches, createLoop, Recorded
<1>6. Reached'
    BY DEF Inv, TypeInv, Known, Reached, Published, createLoop, Recorded
<1>7. Stopped'
    BY DEF Inv, TypeInv, Known, RowsAsRead, Knows, Matches, Stopped, Published, createLoop, Recorded
<1>8. OneRecord'
    BY DEF Inv, TypeInv, Known, RowsAsRead, Knows, OneRecord, RecordedFor, Deployment, createLoop, Recorded
<1> QED BY <1>1, <1>2, <1>3, <1>4, <1>5, <1>6, <1>7, <1>8 DEF Inv

\* What a request at work has to do with its loop.
LEMMA AtWork ==
    ASSUME Inv, NEW r \in Requests, Active(r), NEW l, l = request[r].loop
    PROVE  /\ l \in Loops /\ registry[l] \in Row /\ request[r] \in Job
           /\ l \notin Overlap =>
                 /\ Knows(request[r], registry[l])
                 /\ \A q \in Requests : q # r /\ Active(q) => request[q].loop # l
BY DEF Inv, TypeInv, Known, Alone, RowsAsRead

\* A request gives up its loop; its row keeps the vault and the hash.
LEMMA Releases ==
    ASSUME Inv, NEW r \in Requests, Active(r), Done(r),
           NEW l, l = request[r].loop,
           NEW row \in Row, registry' = [registry EXCEPT ![l] = row],
           row.handler = registry[l].handler, row.deployTx = registry[l].deployTx,
           UNCHANGED <<txs, runs, leaving>>,
           Published(row.step) \/ row.status = "active" => l \in leaving \/ runs[l] # None,
           row.status = "inactive" /\ Published(row.step) /\ l \notin Overlap => runs[l] = None
    PROVE  Inv'
<1>1. l \in Loops
    BY AtWork
<1>2. NoRequest \in Job
    BY DEF NoRequest, Job, PCs, Steps, None
<1>3. /\ request' \in [Requests -> Job]
      /\ \A q \in Requests : request'[q] = IF q = r THEN NoRequest ELSE request[q]
    BY <1>2 DEF Inv, TypeInv, Done
<1>4. \A q \in Requests : request'[q].pc # "none" /\ l \notin Overlap => request[q].loop # l
    BY <1>3, AtWork DEF NoRequest, Active
<1> QED BY <1>1, <1>3, <1>4, RowWritten

\* ... with its status written.
LEMMA ReleasesStatus ==
    ASSUME Inv, NEW r \in Requests, Active(r), Done(r),
           NEW status \in Statuses \ {"active"},
           registry' = [registry EXCEPT ![request[r].loop].status = status],
           UNCHANGED <<txs, runs, leaving>>,
           status = "inactive" /\ request[r].loop \notin Overlap =>
               \/ ~Published(registry[request[r].loop].step)
               \/ runs[request[r].loop] = None
    PROVE  Inv'
<1> DEFINE l == request[r].loop
           row == [registry[l] EXCEPT !.status = status]
<1>1. l \in Loops /\ registry[l] \in Row
    BY AtWork
<1>2. /\ row \in Row /\ row.status = status /\ row.step = registry[l].step
      /\ row.handler = registry[l].handler /\ row.deployTx = registry[l].deployTx
    BY <1>1 DEF Row
<1>3. registry' = [registry EXCEPT ![l] = row]
    OBVIOUS
<1>4. Published(row.step) \/ row.status = "active" => l \in leaving \/ runs[l] # None
    BY <1>1, <1>2 DEF Inv, Reached
<1>5. row.status = "inactive" /\ Published(row.step) /\ l \notin Overlap => runs[l] = None
    BY <1>2
<1>6. Active(r) /\ Done(r) /\ UNCHANGED <<txs, runs, leaving>>
    OBVIOUS
<1> HIDE DEF row
<1> QED BY <1>2, <1>3, <1>4, <1>5, <1>6, Releases

\* ... or as it is.
LEMMA ReleasesOnly ==
    ASSUME Inv, NEW r \in Requests, Active(r), Done(r),
           UNCHANGED <<registry, txs, runs, leaving>>
    PROVE  Inv'
<1> DEFINE l == request[r].loop
<1>1. l \in Loops /\ registry[l] \in Row
    BY AtWork
<1>2. registry' = [registry EXCEPT ![l] = registry[l]]
    BY DEF Inv, TypeInv
<1>3. /\ Published(registry[l].step) \/ registry[l].status = "active" =>
            l \in leaving \/ runs[l] # None
      /\ registry[l].status = "inactive" /\ Published(registry[l].step) /\ l \notin Overlap =>
            runs[l] = None
    BY <1>1 DEF Inv, Reached, Stopped
<1> QED BY <1>1, <1>2, <1>3, Releases

\* A request ends.
LEMMA EndsInv ==
    ASSUME Inv, NEW r \in Requests,
           \/ FinalizeReverted(r) \/ Activates(r) \/ Deactivates(r)
           \/ PauseRefused(r) \/ PausesUnpublished(r)
    PROVE  Inv'
<1>1. CASE FinalizeReverted(r)
    <2>1. Active(r) /\ Done(r) /\ UNCHANGED <<txs, runs, leaving>>
        BY <1>1 DEF FinalizeReverted, At, Active, chainVars
    <2>2. "failed" \in Statuses \ {"active"} /\ "failed" # "inactive"
        BY DEF Statuses
    <2>3. registry' = [registry EXCEPT ![request[r].loop].status = "failed"]
        BY <1>1 DEF FinalizeReverted
    <2> QED BY <2>1, <2>2, <2>3, ReleasesStatus
<1>2. CASE Activates(r)
    <2> DEFINE l == request[r].loop
               row == [registry[l] EXCEPT !.step = "active", !.status = "active"]
    <2>1. Active(r) /\ l \in Loops /\ registry[l] \in Row
        BY <1>2, AtWork DEF Activates, At, Active
    <2>2. /\ row \in Row /\ row.status = "active"
          /\ row.handler = registry[l].handler /\ row.deployTx = registry[l].deployTx
        BY <2>1 DEF Row, Steps, Statuses
    <2>3. registry' = [registry EXCEPT ![l] = row]
        BY <1>2, <2>1 DEF Activates, Inv, TypeInv
    <2>4. l \in leaving \/ runs[l] # None
        BY <1>2 DEF Activates, At, Inv, Reached
    <2>5. Done(r) /\ UNCHANGED <<txs, runs, leaving>>
        BY <1>2 DEF Activates, chainVars
    <2> HIDE DEF row
    <2> QED BY <2>1, <2>2, <2>3, <2>4, <2>5, Releases
<1>3. CASE Deactivates(r)
    <2>1. request[r].loop \notin Overlap => runs[request[r].loop] = None
        BY <1>3 DEF Deactivates, At, Active, Inv, RowsAsRead
    <2>2. Active(r) /\ Done(r) /\ UNCHANGED <<txs, runs, leaving>>
        BY <1>3 DEF Deactivates, At, Active, chainVars
    <2>3. "inactive" \in Statuses \ {"active"}
        BY DEF Statuses
    <2>4. registry' = [registry EXCEPT ![request[r].loop].status = "inactive"]
        BY <1>3 DEF Deactivates
    <2> QED BY <2>1, <2>2, <2>3, <2>4, ReleasesStatus
<1>4. CASE PauseRefused(r)
    BY <1>4, ReleasesOnly DEF PauseRefused, At, Active, chainVars
<1>5. CASE PausesUnpublished(r)
    <2>1. Active(r)
        BY <1>5 DEF PausesUnpublished, At, Active
    <2>2. request[r].loop \notin Overlap => ~Published(registry[request[r].loop].step)
        BY <1>5, <2>1, AtWork DEF PausesUnpublished, At, Knows
    <2>3. Done(r) /\ UNCHANGED <<txs, runs, leaving>>
        BY <1>5 DEF PausesUnpublished, chainVars
    <2>4. "inactive" \in Statuses \ {"active"}
        BY DEF Statuses
    <2>5. registry' = [registry EXCEPT ![request[r].loop].status = "inactive"]
        BY <1>5 DEF PausesUnpublished
    <2> QED BY <2>1, <2>2, <2>3, <2>4, <2>5, ReleasesStatus
<1> QED BY <1>1, <1>2, <1>3, <1>4, <1>5

\* A request fails.
LEMMA FailsInv ==
    ASSUME Inv, NEW r \in Requests, PipelineFails(r) \/ BalancesFail(r)
    PROVE  Inv'
<1>1. Active(r)
    BY DEF PipelineFails, BalancesFail, MayFail, At, Active
<1>2. CASE PipelineFails(r)
    <2>1. Done(r) /\ UNCHANGED <<txs, runs, leaving>>
        BY <1>2 DEF PipelineFails, chainVars
    <2>2. "failed" \in Statuses \ {"active"} /\ "failed" # "inactive"
        BY DEF Statuses
    <2>3. registry' = [registry EXCEPT ![request[r].loop].status = "failed"]
        BY <1>2 DEF PipelineFails
    <2> QED BY <1>1, <2>1, <2>2, <2>3, ReleasesStatus
<1>3. CASE BalancesFail(r)
    BY <1>1, <1>3, ReleasesOnly DEF BalancesFail, chainVars
<1> QED BY <1>2, <1>3

\* The server stops: all requests end, and a row may be half activated.
LEMMA CrashInv ==
    ASSUME Inv, Crash
    PROVE  Inv'
<1>1. PICK r \in Requests : Active(r)
    BY DEF Crash, At, Active
<1>2. NoRequest \in Job /\ NoRequest.pc = "none"
    BY DEF NoRequest, Job, PCs, Steps, None
<1>3. /\ request' \in [Requests -> Job] /\ \A q \in Requests : request'[q] = NoRequest
      /\ UNCHANGED <<txs, runs, leaving>>
    BY <1>2 DEF Crash, chainVars
<1>4. CASE registry' = registry
    <2> DEFINE l == request[r].loop
    <2>1. l \in Loops /\ registry[l] \in Row
        BY <1>1, AtWork
    <2>2. registry' = [registry EXCEPT ![l] = registry[l]]
        BY <1>4 DEF Inv, TypeInv
    <2>3. /\ Published(registry[l].step) \/ registry[l].status = "active" =>
                l \in leaving \/ runs[l] # None
          /\ registry[l].status = "inactive" /\ Published(registry[l].step) /\ l \notin Overlap =>
                runs[l] = None
        BY <2>1 DEF Inv, Reached, Stopped
    <2> QED BY <1>2, <1>3, <2>1, <2>2, <2>3, RowWritten
<1>5. CASE registry' \in HalfActivated
    <2>1. PICK q \in Requests :
              /\ At(q, "added")
              /\ registry' = [registry EXCEPT ![request[q].loop].step = "service_updated"]
        BY <1>5 DEF HalfActivated
    <2> DEFINE l == request[q].loop
               row == [registry[l] EXCEPT !.step = "service_updated"]
    <2>2. Active(q) /\ l \in Loops /\ registry[l] \in Row
        BY <2>1, AtWork DEF At, Active
    <2>3. /\ row \in Row /\ row.status = registry[l].status
          /\ row.handler = registry[l].handler /\ row.deployTx = registry[l].deployTx
        BY <2>2 DEF Row, Steps
    <2>4. registry' = [registry EXCEPT ![l] = row]
        BY <2>1
    <2>5. l \in leaving \/ runs[l] # None
        BY <2>1 DEF At, Inv, Reached
    <2>6. l \notin Overlap => row.status # "inactive"
        BY <2>2, <2>3, AtWork DEF Knows
    <2> HIDE DEF row
    <2> QED BY <1>2, <1>3, <2>2, <2>3, <2>4, <2>5, <2>6, RowWritten
<1> QED BY <1>4, <1>5 DEF Crash

\* The deployment of a request is sent; its hash is only in the request.
LEMMA SubmitsInv ==
    ASSUME Inv, NEW r \in Requests, submitDeployHandler(r)
    PROVE  Inv'
<1> DEFINE l == request[r].loop
           d == [loop |-> l, status |-> "pending", recorded |-> FALSE]
           n == Len(txs) + 1
           j == [request[r] EXCEPT !.pc = "submitted", !.tx = n]
<1>1. Active(r) /\ request[r].pc = "submit"
    BY DEF submitDeployHandler, At, Active
<1>2. /\ l \in Loops /\ request[r] \in Job /\ txs \in Seq(Deployment) /\ Len(txs) \in Nat
      /\ \A k \in Loops : registry[k] \in Row
    BY <1>1, AtWork DEF Inv, TypeInv
<1>3. d \in Deployment
    BY <1>2 DEF Deployment
<1>4. /\ j \in Job /\ j.pc = "submitted" /\ j.tx = Len(txs) + 1
      /\ j.loop = l /\ j.handler = request[r].handler /\ j.step = request[r].step
    <2>1. n \in Nat
        BY <1>2
    <2> HIDE DEF n
    <2>2. /\ j \in Job /\ j.pc = "submitted" /\ j.tx = n
          /\ j.loop = l /\ j.handler = request[r].handler /\ j.step = request[r].step
        BY <1>2, <2>1 DEF Job, PCs
    <2> QED BY <2>2 DEF n
<1>5. txs' = Append(txs, d) /\ UNCHANGED <<registry, runs, leaving>>
    BY DEF submitDeployHandler
<1>6. request' = [request EXCEPT ![r] = j]
    BY DEF submitDeployHandler
<1> HIDE DEF d, j
<1>7. /\ request' \in [Requests -> Job] /\ request'[r] = j
      /\ \A q \in Requests : q # r => request'[q] = request[q]
    BY <1>4, <1>6 DEF Inv, TypeInv
<1>8. /\ txs' \in Seq(Deployment) /\ Len(txs') = Len(txs) + 1
      /\ \A i \in 1 .. Len(txs) : txs'[i] = txs[i]
      /\ txs'[Len(txs) + 1] = d
    BY <1>2, <1>3, <1>5, AppendProperties
<1>9. d.loop = l /\ d.recorded = FALSE
    BY DEF d
<1>10. TypeInv'
    BY <1>5, <1>7, <1>8 DEF Inv, TypeInv
<1>11. Known'
    <2>1. \A q \in Requests : Active(q)' => request'[q].loop \in Loops
        BY <1>2, <1>4, <1>7 DEF Inv, Known, Active
    <2>2. \A k \in Loops : registry'[k].deployTx <= Len(txs')
        BY <1>2, <1>5, <1>8 DEF Inv, Known, Row
    <2>3. \A q \in Requests : request'[q].pc \in {"submitted", "finalize"} =>
              request'[q].tx \in 1 .. Len(txs')
        BY <1>2, <1>4, <1>7, <1>8 DEF Inv, Known
    <2>4. \A q \in Requests : request'[q].pc = "submitted" =>
              txs'[request'[q].tx].loop = request'[q].loop
        BY <1>2, <1>4, <1>7, <1>8, <1>9 DEF Inv, Known
    <2> QED BY <2>1, <2>2, <2>3, <2>4 DEF Known
<1>12. Alone' /\ RowsAsRead'
    BY <1>1, <1>4, <1>5, <1>7 DEF Inv, Alone, RowsAsRead, Knows, Active
<1>13. Matches' /\ Reached' /\ Stopped'
    BY <1>4, <1>5, <1>7 DEF Inv, Matches, Reached, Stopped
<1>14. \A t \in Nat, k \in Loops : RecordedFor(t, k)' => RecordedFor(t, k)
    BY <1>2, <1>8, <1>9 DEF RecordedFor
<1>15. OneRecord'
    BY <1>5, <1>14 DEF Inv, OneRecord
<1> QED BY <1>10, <1>11, <1>12, <1>13, <1>15 DEF Inv

\* The hash of a deployment is recorded in the row of its loop.
LEMMA RecordsInv ==
    ASSUME Inv, NEW r \in Requests, RecordsHash(r)
    PROVE  Inv'
<1> DEFINE l == request[r].loop
           i == request[r].tx
           d == [txs[i] EXCEPT !.recorded = TRUE]
           row == [registry[l] EXCEPT !.deployTx = i]
           j == [request[r] EXCEPT !.pc = "finalize"]
<1>1. Active(r) /\ request[r].pc = "submitted"
    BY DEF RecordsHash, At, Active
<1>2. /\ l \in Loops /\ request[r] \in Job /\ registry[l] \in Row
      /\ txs \in Seq(Deployment) /\ Len(txs) \in Nat
    BY <1>1, AtWork DEF Inv, TypeInv
<1>3. i \in 1 .. Len(txs) /\ txs[i] \in Deployment /\ txs[i].loop = l
    BY <1>1, <1>2 DEF Inv, Known
<1>4. d \in Deployment /\ d.loop = l /\ d.recorded
    BY <1>3 DEF Deployment
<1>5. /\ row \in Row /\ row.deployTx = i /\ row.handler = registry[l].handler
      /\ row.status = registry[l].status /\ row.step = registry[l].step
    BY <1>2, <1>3 DEF Row
<1>6. /\ j \in Job /\ j.pc = "finalize" /\ j.tx = i /\ j.loop = l
      /\ j.handler = request[r].handler /\ j.step = request[r].step
    BY <1>2 DEF Job, PCs
<1>7. /\ txs' = [txs EXCEPT ![i] = d] /\ registry' = [registry EXCEPT ![l] = row]
      /\ request' = [request EXCEPT ![r] = j] /\ UNCHANGED <<runs, leaving>>
    BY DEF RecordsHash
<1> HIDE DEF d, row, j
<1>8. /\ txs' \in Seq(Deployment) /\ Len(txs') = Len(txs)
      /\ \A t \in 1 .. Len(txs) : txs'[t] = IF t = i THEN d ELSE txs[t]
    BY <1>2, <1>3, <1>4, <1>7, ExceptSeq
<1>9. /\ request' \in [Requests -> Job] /\ request'[r] = j
      /\ \A q \in Requests : q # r => request'[q] = request[q]
    BY <1>6, <1>7 DEF Inv, TypeInv
<1>10. /\ registry' \in [Loops -> Row] /\ registry'[l] = row
       /\ \A k \in Loops : k # l => registry'[k] = registry[k]
    BY <1>2, <1>5, <1>7 DEF Inv, TypeInv
<1>11. TypeInv'
    BY <1>7, <1>8, <1>9, <1>10 DEF Inv, TypeInv
<1>12. Known'
    <2>1. \A q \in Requests : Active(q)' => request'[q].loop \in Loops
        BY <1>2, <1>6, <1>9 DEF Inv, Known, Active
    <2>2. \A k \in Loops : registry'[k].deployTx <= Len(txs')
        BY <1>2, <1>3, <1>5, <1>8, <1>10 DEF Inv, Known
    <2>3. \A q \in Requests : request'[q].pc \in {"submitted", "finalize"} =>
              request'[q].tx \in 1 .. Len(txs')
        BY <1>3, <1>6, <1>8, <1>9 DEF Inv, Known
    <2>4. \A t \in 1 .. Len(txs) : txs'[t].loop = txs[t].loop
        BY <1>3, <1>4, <1>8
    <2>5. \A q \in Requests : request'[q].pc = "submitted" =>
              txs'[request'[q].tx].loop = request'[q].loop
        BY <1>6, <1>9, <2>4 DEF Inv, Known
    <2> QED BY <2>1, <2>2, <2>3, <2>5 DEF Known
<1>13. Alone'
    BY <1>1, <1>6, <1>9 DEF Inv, Alone, Active
<1>14. l \notin Overlap =>
           /\ Knows(request[r], registry[l])
           /\ \A q \in Requests : q # r /\ Active(q) => request[q].loop # l
    BY <1>1, AtWork
<1>15. RowsAsRead'
    <2>1. ASSUME NEW q \in Requests, q # r, Active(q)', request'[q].loop \notin Overlap
          PROVE  Active(q) /\ request'[q] = request[q] /\ request[q].loop \in Loops
                 /\ request[q].loop # l /\ registry'[request[q].loop] = registry[request[q].loop]
        BY <1>9, <1>10, <1>14, <2>1 DEF Inv, Known, Active
    <2>2. l \notin Overlap => Knows(j, row)
        BY <1>1, <1>5, <1>6, <1>14 DEF Knows
    <2> QED BY <1>6, <1>7, <1>9, <1>10, <2>1, <2>2 DEF Inv, RowsAsRead
<1>16. Matches' /\ Reached' /\ Stopped'
    <2>1. \A k \in Loops : /\ registry'[k].handler = registry[k].handler
                           /\ registry'[k].status = registry[k].status
                           /\ registry'[k].step = registry[k].step
        BY <1>5, <1>10
    <2>2. Matches' /\ Stopped'
        BY <1>7, <2>1 DEF Inv, Matches, Stopped
    <2>3. Reached'
        BY <1>6, <1>7, <1>9, <2>1 DEF Inv, Reached
    <2> QED BY <2>2, <2>3
<1>17. \A t \in Nat, k \in Loops : RecordedFor(t, k)' => RecordedFor(t, k) \/ (t = i /\ k = l)
    BY <1>2, <1>3, <1>4, <1>8 DEF RecordedFor
<1>18. l \notin Overlap => registry[l].handler = None /\ registry[l].deployTx = None
    BY <1>1, <1>14 DEF Knows
<1>19. OneRecord'
    <2>1. \A k \in Loops \ Overlap : registry'[k].handler = None /\ registry'[k].deployTx = None =>
              k # l /\ registry'[k] = registry[k]
        BY <1>3, <1>5, <1>10 DEF None
    <2>2. l \notin Overlap => \A t \in Nat : ~RecordedFor(t, l)
        BY <1>2, <1>18 DEF Inv, OneRecord
    <2> QED BY <1>17, <2>1, <2>2 DEF Inv, OneRecord
<1> QED BY <1>11, <1>12, <1>13, <1>15, <1>16, <1>19 DEF Inv

\* The vault of a request is recorded, and it queues to publish it.
LEMMA FinalizesInv ==
    ASSUME Inv, NEW r \in Requests, finalizeDeployHandler(r)
    PROVE  Inv'
<1> DEFINE l == request[r].loop
           i == request[r].tx
           row == [status |-> "deploying", step |-> "handler_deployed",
                   handler |-> i, deployTx |-> None]
           j == [request[r] EXCEPT !.pc = "add", !.handler = i]
<1>1. Active(r) /\ request[r].pc = "finalize"
    BY DEF finalizeDeployHandler, At, Active
<1>2. /\ l \in Loops /\ request[r] \in Job /\ registry[l] \in Row
      /\ i \in Nat /\ i # None /\ Len(txs) \in Nat
    BY <1>1, AtWork DEF Inv, TypeInv, Known, None
<1>3. /\ row \in Row /\ row.status = "deploying" /\ ~Published(row.step)
      /\ row.handler = i /\ row.deployTx = None
    BY <1>2 DEF Row, Steps, Statuses, Published, None
<1>4. /\ j \in Job /\ j.pc = "add" /\ j.loop = l /\ j.handler = i
    BY <1>2 DEF Job, PCs
<1>5. /\ registry' = [registry EXCEPT ![l] = row]
      /\ request' = [request EXCEPT ![r] = j] /\ UNCHANGED <<txs, runs, leaving>>
    BY DEF finalizeDeployHandler, chainVars
<1> HIDE DEF row, j
<1>6. /\ request' \in [Requests -> Job] /\ request'[r] = j
      /\ \A q \in Requests : q # r => request'[q] = request[q]
    BY <1>4, <1>5 DEF Inv, TypeInv
<1>7. /\ registry' \in [Loops -> Row] /\ registry'[l] = row
      /\ \A k \in Loops : k # l => registry'[k] = registry[k]
    BY <1>2, <1>3, <1>5 DEF Inv, TypeInv
<1>8. l \notin Overlap =>
          /\ Knows(request[r], registry[l])
          /\ \A q \in Requests : q # r /\ Active(q) => request[q].loop # l
    BY <1>1, AtWork
<1>9. TypeInv'
    BY <1>5, <1>6, <1>7 DEF Inv, TypeInv
<1>10. Known'
    <2>1. \A q \in Requests : Active(q)' => request'[q].loop \in Loops
        BY <1>2, <1>4, <1>6 DEF Inv, Known, Active
    <2>2. \A k \in Loops : registry'[k].deployTx <= Len(txs')
        BY <1>2, <1>3, <1>5, <1>7 DEF Inv, Known, None
    <2> QED BY <1>4, <1>5, <1>6, <2>1, <2>2 DEF Inv, Known
<1>11. Alone'
    BY <1>1, <1>4, <1>6 DEF Inv, Alone, Active
<1>12. RowsAsRead'
    <2>1. ASSUME NEW q \in Requests, q # r, Active(q)', request'[q].loop \notin Overlap
          PROVE  Active(q) /\ request'[q] = request[q] /\ request[q].loop \in Loops
                 /\ request[q].loop # l /\ registry'[request[q].loop] = registry[request[q].loop]
        BY <1>6, <1>7, <1>8, <2>1 DEF Inv, Known, Active
    <2>2. Knows(j, row)
        BY <1>3, <1>4 DEF Knows
    <2> QED BY <1>4, <1>5, <1>6, <1>7, <2>1, <2>2 DEF Inv, RowsAsRead
<1>13. l \notin Overlap => runs[l] = None
    BY <1>1, <1>2, <1>8 DEF Inv, Matches, Knows, TypeInv, None
<1>14. Matches'
    BY <1>5, <1>7, <1>13 DEF Inv, Matches
<1>15. Reached' /\ Stopped'
    BY <1>2, <1>3, <1>4, <1>5, <1>6, <1>7 DEF Inv, Reached, Stopped
<1>16. OneRecord'
    BY <1>2, <1>3, <1>5, <1>7 DEF Inv, OneRecord, RecordedFor
<1> QED BY <1>9, <1>10, <1>11, <1>12, <1>14, <1>15, <1>16 DEF Inv

\* The workflow of a loop is added or removed: the request reads what it did.
LEMMA EditsInv ==
    ASSUME Inv, NEW r \in Requests, AddLands(r) \/ RemoveLands(r)
    PROVE  Inv'
<1> DEFINE l == request[r].loop
<1>1. Active(r)
    BY DEF AddLands, RemoveLands, At, Active
<1>2. /\ l \in Loops /\ request[r] \in Job /\ registry[l] \in Row
      /\ l \notin Overlap =>
            /\ Knows(request[r], registry[l])
            /\ \A q \in Requests : q # r /\ Active(q) => request[q].loop # l
    BY <1>1, AtWork
<1>3. PICK pc \in PCs : /\ request' = [request EXCEPT ![r].pc = pc]
                        /\ pc \in {"added", "removed"}
                        /\ UNCHANGED <<registry, txs, leaving>>
                        /\ pc = "added" => request[r].pc = "add"
                        /\ pc = "removed" => request[r].pc = "remove"
    BY DEF AddLands, RemoveLands, At, PCs
<1> DEFINE j == [request[r] EXCEPT !.pc = pc]
<1>4. j \in Job /\ j.pc = pc /\ j.loop = l
    BY <1>2 DEF Job
<1>5. request' = [request EXCEPT ![r] = j]
    BY <1>3
<1> HIDE DEF j
<1>6. /\ request' \in [Requests -> Job] /\ request'[r] = j
      /\ \A q \in Requests : q # r => request'[q] = request[q]
    BY <1>4, <1>5 DEF Inv, TypeInv
<1>7. /\ runs' \in [Loops -> Nat]
      /\ \A k \in Loops : k # l => runs'[k] = runs[k]
      /\ pc = "removed" => runs'[l] = None
      /\ pc = "added" => runs'[l] = IF runs[l] = None THEN request[r].handler ELSE runs[l]
    <2>1. CASE AddLands(r)
        <3>1. request[r].handler \in Nat /\ runs \in [Loops -> Nat]
            BY <1>2 DEF Job, Inv, TypeInv
        <3>2. runs' = [runs EXCEPT ![l] = IF runs[l] = None THEN request[r].handler ELSE runs[l]]
            BY <1>2, <2>1, <3>1 DEF AddLands
        <3>3. pc # "removed"
            BY <1>3, <2>1 DEF AddLands, At
        <3> QED BY <1>2, <3>1, <3>2, <3>3
    <2>2. CASE RemoveLands(r)
        <3>1. runs' = [runs EXCEPT ![l] = None] /\ pc # "added"
            BY <1>3, <2>2 DEF RemoveLands, At
        <3> QED BY <1>2, <3>1 DEF Inv, TypeInv, None
    <2> QED BY <2>1, <2>2
<1>8. TypeInv' /\ Known'
    BY <1>2, <1>3, <1>4, <1>6, <1>7 DEF Inv, TypeInv, Known, Active
<1>9. Alone'
    BY <1>1, <1>4, <1>6 DEF Inv, Alone, Active
<1>10. RowsAsRead'
    <2>1. ASSUME NEW q \in Requests, q # r, Active(q)', request'[q].loop \notin Overlap
          PROVE  Active(q) /\ request'[q] = request[q] /\ request[q].loop \in Loops
                 /\ request[q].loop # l /\ runs'[request[q].loop] = runs[request[q].loop]
        BY <1>2, <1>6, <1>7, <2>1 DEF Inv, Known, Active
    <2>2. l \notin Overlap => Knows(j, registry[l])
        BY <1>2, <1>3, <1>4 DEF Knows
    <2> QED BY <1>3, <1>4, <1>6, <1>7, <2>1, <2>2 DEF Inv, RowsAsRead
<1>11. pc = "added" /\ l \notin Overlap => request[r].handler = registry[l].handler
    BY <1>2, <1>3 DEF Knows
<1>12. Matches'
    BY <1>2, <1>3, <1>7, <1>11 DEF Inv, Matches
<1>13. pc = "added" => request[r].handler # None
    BY <1>3 DEF Inv, Reached
<1>14. pc = "removed" => l \in leaving
    BY <1>3 DEF Inv, Reached
<1>15. Reached'
    <2>1. \A k \in Loops : k \notin leaving /\ runs[k] # None => runs'[k] # None
        BY <1>3, <1>7, <1>13, <1>14
    <2>2. pc = "added" => runs'[l] # None
        BY <1>7, <1>13
    <2> QED BY <1>2, <1>3, <1>4, <1>6, <1>14, <2>1, <2>2 DEF Inv, Reached, Known, Active
<1>16. Stopped'
    BY <1>2, <1>3, <1>7 DEF Inv, Stopped, Knows
<1>17. OneRecord'
    BY <1>3 DEF Inv, OneRecord, RecordedFor
<1> QED BY <1>8, <1>9, <1>10, <1>12, <1>15, <1>16, <1>17 DEF Inv

\* The pause of a published loop queues to remove its workflow.
LEMMA PausesInv ==
    ASSUME Inv, NEW r \in Requests, PausesPublished(r)
    PROVE  Inv'
<1> DEFINE l == request[r].loop
           j == [request[r] EXCEPT !.pc = "remove"]
<1>1. Active(r)
    BY DEF PausesPublished, At, Active
<1>2. /\ l \in Loops /\ request[r] \in Job
      /\ l \notin Overlap =>
            /\ Knows(request[r], registry[l])
            /\ \A q \in Requests : q # r /\ Active(q) => request[q].loop # l
    BY <1>1, AtWork
<1>3. j \in Job /\ j.pc = "remove" /\ j.loop = l
    BY <1>2 DEF Job, PCs
<1>4. /\ request' = [request EXCEPT ![r] = j] /\ UNCHANGED <<registry, txs, runs>>
      /\ leaving' = leaving \cup {l}
    BY DEF PausesPublished, chainVars
<1> HIDE DEF j
<1>5. /\ request' \in [Requests -> Job] /\ request'[r] = j
      /\ \A q \in Requests : q # r => request'[q] = request[q]
    BY <1>3, <1>4 DEF Inv, TypeInv
<1>6. TypeInv' /\ Known'
    BY <1>2, <1>3, <1>4, <1>5 DEF Inv, TypeInv, Known, Active
<1>7. Alone'
    BY <1>1, <1>3, <1>5 DEF Inv, Alone, Active
<1>8. RowsAsRead'
    BY <1>2, <1>3, <1>4, <1>5 DEF Inv, RowsAsRead, Active, Knows
<1>9. Matches' /\ Stopped' /\ OneRecord'
    BY <1>4 DEF Inv, Matches, Stopped, OneRecord, RecordedFor
<1>10. Reached'
    BY <1>3, <1>4, <1>5 DEF Inv, Reached
<1> QED BY <1>6, <1>7, <1>8, <1>9, <1>10 DEF Inv

\* A row is activated or paused at once, with no await.
LEMMA AtOnceInv ==
    ASSUME Inv, NEW r \in Requests, NEW l \in Loops,
           ResumeActivates(r, l) \/ DeactivatesUndeployed(r, l)
    PROVE  Inv'
<1>1. /\ registry[l] \in Row /\ registry \in [Loops -> Row] /\ request \in [Requests -> Job]
      /\ UNCHANGED <<txs, runs, request, leaving>>
    BY DEF Inv, TypeInv, ResumeActivates, DeactivatesUndeployed, chainVars
<1>2. \A q \in Requests : request[q].pc # "none" /\ l \notin Overlap => request[q].loop # l
    BY DEF ResumeActivates, Resumable, DeactivatesUndeployed, Deactivable, Free, Busy
<1>3. CASE ResumeActivates(r, l)
    <2> DEFINE row == [registry[l] EXCEPT !.step = "active", !.status = "active"]
    <2>1. /\ row \in Row /\ row.status = "active"
          /\ row.handler = registry[l].handler /\ row.deployTx = registry[l].deployTx
        BY <1>1 DEF Row, Steps, Statuses
    <2>2. registry' = [registry EXCEPT ![l] = row]
        BY <1>1, <1>3 DEF ResumeActivates
    <2>3. l \in leaving \/ runs[l] # None
        BY <1>3 DEF ResumeActivates, Inv, Reached
    <2> HIDE DEF row
    <2> QED BY <1>1, <1>2, <2>1, <2>2, <2>3, RowWritten
<1>4. CASE DeactivatesUndeployed(r, l)
    <2> DEFINE row == [registry[l] EXCEPT !.status = "inactive"]
    <2>1. /\ row \in Row /\ row.status = "inactive" /\ row.step = registry[l].step
          /\ row.handler = registry[l].handler /\ row.deployTx = registry[l].deployTx
        BY <1>1 DEF Row, Statuses
    <2>2. registry' = [registry EXCEPT ![l] = row]
        BY <1>4 DEF DeactivatesUndeployed
    <2>3. Published(registry[l].step) => l \in leaving \/ runs[l] # None
        BY DEF Inv, Reached
    <2>4. l \notin Overlap => runs[l] = None
        BY <1>4 DEF DeactivatesUndeployed, Inv, Matches
    <2> HIDE DEF row
    <2> QED BY <1>1, <1>2, <2>1, <2>2, <2>3, <2>4, RowWritten
<1> QED BY <1>3, <1>4

\* A deployment is mined; a deposit or a strike changes only what there is to settle.
LEMMA ChainInv ==
    ASSUME Inv, Chain
    PROVE  Inv'
<1>1. CASE \E tx \in DOMAIN txs : DeployLands(tx) \/ DeployReverts(tx)
    <2>1. PICK i \in DOMAIN txs : DeployLands(i) \/ DeployReverts(i)
        BY <1>1
    <2>2. UNCHANGED <<registry, runs, request, leaving>>
        BY <2>1 DEF DeployLands, DeployReverts
    <2>3. CASE DeployLands(i)
        BY <2>2, <2>3, StatusWritten DEF DeployLands
    <2>4. CASE DeployReverts(i)
        BY <2>2, <2>4, StatusWritten DEF DeployReverts
    <2> QED BY <2>1, <2>3, <2>4
<1>2. CASE UNCHANGED <<registry, txs, runs, request, leaving>>
    BY <1>2 DEF Inv, TypeInv, Known, Alone, RowsAsRead, Matches, Reached, Stopped, OneRecord,
                RecordedFor, Active
<1>3. CASE (\E tx \in DOMAIN txs : EscrowOpens(tx)) \/ (\E l \in Loops : EscrowSettles(l))
    BY <1>2, <1>3 DEF EscrowOpens, EscrowSettles
<1> QED BY <1>1, <1>3 DEF Chain

-----------------------------------------------------------------------------
(* The theorems                                                            *)

\* Every step keeps the invariant.
LEMMA NextInv == Inv /\ [Next]_vars => Inv'
<1> SUFFICES ASSUME Inv, [Next]_vars
             PROVE  Inv'
    OBVIOUS
<1>1. ASSUME NEW r \in Requests, NEW l \in Loops,
             createLoop(r, l) \/ resumeLoop(r, l) \/ deactivateLoop(r, l)
      PROVE  Inv'
    BY <1>1, CreatesInv, StartsInv, AtOnceInv DEF resumeLoop, deactivateLoop
<1>2. ASSUME NEW r \in Requests, Step(r)
      PROVE  Inv'
    BY <1>2, SubmitsInv, RecordsInv, FinalizesInv, EditsInv, EndsInv, PausesInv DEF Step
<1>3. ASSUME NEW r \in Requests, PipelineFails(r) \/ BalancesFail(r)
      PROVE  Inv'
    BY <1>3, FailsInv
<1>4. CASE UNCHANGED vars
    BY <1>4 DEF vars, chainVars, Inv, TypeInv, Known, Alone, RowsAsRead, Matches, Reached, Stopped,
                OneRecord, RecordedFor, Active
<1> QED BY <1>1, <1>2, <1>3, <1>4, CrashInv, ChainInv DEF Next

\* What the requests know, and what the registry says of the service, holds at every step.
THEOREM Invariance == Spec => []Inv
<1>1. Inv /\ [Next]_vars => Inv'
    BY NextInv
<1> QED BY <1>1, InitInv, PTL DEF Spec

(***************************************************************************)
(* Once the hash of a deployment was recorded, no crash, failure or resume *)
(* makes another deployment of the loop reach the registry.                *)
(***************************************************************************)
THEOREM OneDeployment == Spec => []RecordedOnce
<1>1. Inv => RecordedOnce
    <2> SUFFICES ASSUME Inv, NEW l \in Loops \ Overlap
                 PROVE  Cardinality({tx \in DOMAIN txs : txs[tx].loop = l /\ txs[tx].recorded}) <= 1
        BY DEF RecordedOnce
    <2> DEFINE S == {tx \in DOMAIN txs : txs[tx].loop = l /\ txs[tx].recorded}
    <2>1. \A t \in S : t \in Nat /\ RecordedFor(t, l)
        BY DEF Inv, TypeInv, RecordedFor
    <2>2. \A t, u \in S : t = u
        BY <2>1 DEF Inv, OneRecord
    <2>3. S = {} \/ \E t : S = {t}
        BY <2>2
    <2> HIDE DEF S
    <2>4. Cardinality(S) = 0 \/ Cardinality(S) = 1
        BY <2>3, FS_EmptySet, FS_Singleton
    <2>5. Cardinality(S) <= 1
        BY <2>4
    <2> QED BY <2>5 DEF S
<1> QED BY <1>1, Invariance, PTL

(***************************************************************************)
(* The workflow of a loop strikes the vault the registry shows for it, at  *)
(* every step and after every crash, where its requests do not overlap.    *)
(***************************************************************************)
THEOREM WorkflowOfRegistry == Spec => []WorkflowMatchesRegistry
<1>1. Inv => WorkflowMatchesRegistry
    BY DEF Inv, Matches, WorkflowMatchesRegistry
<1> QED BY <1>1, Invariance, PTL

(***************************************************************************)
(* A loop that is shown as active runs, unless its removal was begun, with *)
(* any number of requests at work on it.                                   *)
(***************************************************************************)
THEOREM ActiveRuns == Spec => []ActiveLoopRuns
<1>1. Inv => ActiveLoopRuns
    BY DEF Inv, Reached, ActiveLoopRuns
<1> QED BY <1>1, Invariance, PTL

(***************************************************************************)
(* A loop that was paused after its row had reached the service does not   *)
(* run.                                                                    *)
(***************************************************************************)
THEOREM InactiveStopped == Spec => []InactiveLoopStopped
<1>1. Inv => InactiveLoopStopped
    BY DEF Inv, Stopped, InactiveLoopStopped
<1> QED BY <1>1, Invariance, PTL

-----------------------------------------------------------------------------
(* TypeOK, with any overlap                                                *)

Sent(tx, l) == tx \in 1 .. Len(txs) /\ txs[tx].loop = l

Landed(tx, l) == Sent(tx, l) /\ txs[tx].status = "landed"

\* A row names the deployment and the vault of its own loop.
RowNames(row, l) ==
    /\ row.handler # None => Landed(row.handler, l)
    /\ row.deployTx # None => Sent(row.deployTx, l)

\* So does a request that is to write one of them.
JobNames(j) ==
    /\ j.pc \in {"submitted", "finalize"} => Sent(j.tx, j.loop)
    /\ j.pc = "add" => Landed(j.handler, j.loop)

\* And so does a workflow.
Named ==
    /\ \A l \in Loops : RowNames(registry[l], l) /\ (runs[l] # None => Landed(runs[l], l))
    /\ \A r \in Requests : JobNames(request[r])
    /\ escrow \subseteq Vaults

Editing == {"add", "added", "remove", "removed"}

\* The requests that edit are in the queue, once; an edit that landed is that of the first.
Queue ==
    /\ tail \in Seq(Requests)
    /\ \A i, k \in 1 .. Len(tail) : tail[i] = tail[k] => i = k
    /\ \A r \in Requests : request[r].pc \in Editing <=> \E i \in 1 .. Len(tail) : tail[i] = r
    /\ \A r \in Requests : request[r].pc \in {"added", "removed"} => AtHead(r)

\* Transactions are added, keep their loop and stay landed.
Grows ==
    /\ Len(txs) <= Len(txs)'
    /\ \A i \in 1 .. Len(txs) :
          txs'[i].loop = txs[i].loop /\ (txs[i].status = "landed" => txs'[i].status = "landed")

\* It is enough to look at what is written.
LEMMA NamesKept ==
    ASSUME TypeInv, TypeInv', Named, Grows,
           \A l \in Loops : \/ registry'[l].handler = registry[l].handler /\ registry'[l].deployTx = registry[l].deployTx
                            \/ RowNames(registry[l], l)',
           \A l \in Loops : runs'[l] \in {None, runs[l]} \/ Landed(runs[l], l)',
           \A r \in Requests : \/ request'[r] = request[r] \/ JobNames(request[r])'
                               \/ request'[r].pc \notin {"submitted", "finalize", "add"},
           escrow' \subseteq escrow \cup Vaults'
    PROVE  Named'
<1>1. Len(txs) \in Nat /\ Len(txs') \in Nat /\ DOMAIN txs = 1 .. Len(txs) /\ DOMAIN txs' = 1 .. Len(txs')
    BY DEF TypeInv
<1>2. \A i, l : (Sent(i, l) => Sent(i, l)') /\ (Landed(i, l) => Landed(i, l)')
    BY <1>1 DEF Grows, Sent, Landed
<1>3. \A l \in Loops : RowNames(registry[l], l)'
    BY <1>2 DEF Named, RowNames
<1>4. \A l \in Loops : (runs[l] # None => Landed(runs[l], l))'
    BY <1>2 DEF Named
<1>5. \A r \in Requests : JobNames(request[r])'
    BY <1>2 DEF Named, JobNames
<1>6. escrow' \subseteq Vaults'
    BY <1>1 DEF Named, Grows, Vaults
<1> QED BY <1>3, <1>4, <1>5, <1>6 DEF Named

\* A request that is taken up knows what the row says.
LEMMA StartNames ==
    ASSUME Inv, Inv', Named, NEW r \in Requests, NEW l \in Loops,
           createLoop(r, l) \/ resumeLoop(r, l) \/ deactivateLoop(r, l)
    PROVE  Named'
<1>1. TypeInv /\ TypeInv' /\ registry \in [Loops -> Row] /\ request \in [Requests -> Job]
    BY DEF Inv, TypeInv
<1>2. RowNames(registry[l], l) /\ UNCHANGED <<txs, runs, escrow>>
    BY DEF Named, createLoop, resumeLoop, deactivateLoop, ResumeSubmits, ResumeFinalizes, ResumePublishes,
           ResumeActivates, DeactivatesUndeployed, vaultPendingBalances, chainVars
<1>3. Grows
    BY <1>1, <1>2 DEF TypeInv, Grows
<1>4. \A k \in Loops : \/ registry'[k].handler = registry[k].handler /\ registry'[k].deployTx = registry[k].deployTx
                       \/ RowNames(registry[k], k)'
    <2>1. CASE createLoop(r, l)
        BY <1>1, <2>1 DEF createLoop, RowNames, NoRow
    <2>2. CASE ResumeActivates(r, l)
        BY <1>1, <2>2 DEF ResumeActivates, Row
    <2>3. CASE DeactivatesUndeployed(r, l)
        BY <1>1, <2>3 DEF DeactivatesUndeployed, Row
    <2>4. CASE UNCHANGED registry
        BY <2>4
    <2> QED BY <2>1, <2>2, <2>3, <2>4 DEF resumeLoop, deactivateLoop, ResumeSubmits, ResumeFinalizes,
                                       ResumePublishes, vaultPendingBalances
<1>5. ASSUME NEW q \in Requests
      PROVE  \/ request'[q] = request[q] \/ JobNames(request[q])'
             \/ request'[q].pc \notin {"submitted", "finalize", "add"}
    <2>1. CASE createLoop(r, l)
        BY <1>1, <2>1 DEF createLoop, NoRequest
    <2>2. CASE ResumeSubmits(r, l) \/ vaultPendingBalances(r, l)
        BY <1>1, <2>2 DEF ResumeSubmits, vaultPendingBalances, Awaits
    <2>3. CASE ResumeFinalizes(r, l)
        BY <1>1, <1>2, <2>3 DEF ResumeFinalizes, Awaits, JobNames, RowNames, Sent
    <2>4. CASE ResumePublishes(r, l)
        BY <1>1, <1>2, <2>4 DEF ResumePublishes, Awaits, JobNames, RowNames, Landed, Sent
    <2>5. CASE ResumeActivates(r, l) \/ DeactivatesUndeployed(r, l)
        BY <2>5 DEF ResumeActivates, DeactivatesUndeployed
    <2> QED BY <2>1, <2>2, <2>3, <2>4, <2>5 DEF resumeLoop, deactivateLoop
<1> QED BY <1>1, <1>2, <1>3, <1>4, <1>5, NamesKept

\* What a request writes is its own transaction.
LEMMA StepNames ==
    ASSUME Inv, Inv', Named, NEW r \in Requests, Step(r),
           NEW l, l = request[r].loop, NEW i, i = request[r].tx
    PROVE  Named'
<1>1. TypeInv /\ TypeInv' /\ registry \in [Loops -> Row] /\ request \in [Requests -> Job] /\ runs \in [Loops -> Nat]
      /\ txs \in Seq(Deployment) /\ Len(txs) \in Nat
    BY DEF Inv, TypeInv
<1>2. JobNames(request[r]) /\ l \in Loops
    BY DEF Named, Inv, Known, Active, Step, At, submitDeployHandler, RecordsHash, finalizeDeployHandler,
           FinalizeReverted, AddLands, Activates, PauseRefused, PausesUnpublished, PausesPublished, RemoveLands,
           Deactivates
<1>3. CASE submitDeployHandler(r)
    <2> DEFINE d == [loop |-> l, status |-> "pending", recorded |-> FALSE]
    <2>1. d \in Deployment /\ txs' = Append(txs, d)
        BY <1>2, <1>3 DEF Deployment, submitDeployHandler
    <2>2. Len(txs') = Len(txs) + 1 /\ (\A k \in 1 .. Len(txs) : txs'[k] = txs[k]) /\ txs'[Len(txs) + 1] = d
        BY <1>1, <2>1, AppendProperties
    <2>3. Grows
        BY <1>1, <2>2 DEF Grows
    <2>4. request'[r].tx = Len(txs) + 1 /\ request'[r].pc = "submitted" /\ request'[r].loop = l
          /\ \A q \in Requests \ {r} : request'[q] = request[q]
        BY <1>1, <1>3 DEF submitDeployHandler, Job
    <2>5. JobNames(request[r])'
        BY <1>1, <2>2, <2>4 DEF JobNames, Sent
    <2>6. UNCHANGED <<registry, runs, escrow>>
        BY <1>3 DEF submitDeployHandler
    <2> QED BY <1>1, <2>3, <2>4, <2>5, <2>6, NamesKept
<1>4. CASE RecordsHash(r)
    <2> DEFINE d == [txs[i] EXCEPT !.recorded = TRUE]
    <2>1. At(r, "submitted") /\ Sent(i, l) /\ txs[i] \in Deployment
        BY <1>1, <1>2, <1>4 DEF RecordsHash, At, JobNames, Sent
    <2>2. d \in Deployment /\ d.loop = txs[i].loop /\ d.status = txs[i].status
        BY <2>1 DEF Deployment
    <2>3. txs' = [txs EXCEPT ![i] = d] /\ UNCHANGED <<runs, escrow>>
        BY <1>4 DEF RecordsHash
    <2> HIDE DEF d
    <2>4. Len(txs') = Len(txs) /\ \A k \in 1 .. Len(txs) : txs'[k] = IF k = i THEN d ELSE txs[k]
        BY <1>1, <2>1, <2>2, <2>3, ExceptSeq DEF Sent
    <2>5. Grows
        BY <1>1, <2>2, <2>4 DEF Grows
    <2>6. Sent(i, l)'
        BY <1>1, <2>1, <2>2, <2>4 DEF Sent, At
    <2>7. registry'[l].deployTx = i /\ registry'[l].handler = registry[l].handler
          /\ \A k \in Loops \ {l} : registry'[k] = registry[k]
        BY <1>1, <1>2, <1>4 DEF RecordsHash, Row
    <2>8. request'[r].tx = i /\ request'[r].loop = l /\ \A q \in Requests \ {r} : request'[q] = request[q]
        BY <1>1, <1>4 DEF RecordsHash, Job
    <2>9. RowNames(registry[l], l)'
        <3>1. registry[l].handler # None => Landed(registry[l].handler, l)
            BY <1>2 DEF Named, RowNames
        <3>2. \A k : Landed(k, l) => Landed(k, l)'
            BY <2>4, <2>5 DEF Grows, Landed, Sent
        <3> QED BY <2>6, <2>7, <3>1, <3>2 DEF RowNames
    <2>10. JobNames(request[r])'
        <3>1. request'[r].pc = "finalize"
            BY <1>1, <1>4 DEF RecordsHash, Job
        <3> QED BY <2>6, <2>8, <3>1 DEF JobNames
    <2> QED BY <1>1, <2>3, <2>5, <2>7, <2>8, <2>9, <2>10, NamesKept
<1>5. CASE UNCHANGED <<txs, escrow>>
    <2>1. Grows
        BY <1>1, <1>5 DEF Grows
    <2>2. CASE finalizeDeployHandler(r)
        <3>1. Landed(i, l) /\ UNCHANGED runs
            BY <1>2, <2>2 DEF finalizeDeployHandler, At, JobNames, Landed, chainVars
        <3>2. Landed(i, l)'
            BY <1>5, <3>1 DEF Landed, Sent
        <3>3. registry'[l].handler = i /\ registry'[l].deployTx = None
              /\ \A k \in Loops \ {l} : registry'[k] = registry[k]
            BY <1>1, <1>2, <2>2 DEF finalizeDeployHandler
        <3>4. request'[r].pc = "add" /\ request'[r].handler = i /\ request'[r].loop = l
              /\ \A q \in Requests \ {r} : request'[q] = request[q]
            BY <1>1, <2>2 DEF finalizeDeployHandler, Job
        <3>5. RowNames(registry[l], l)' /\ JobNames(request[r])'
            BY <3>2, <3>3, <3>4 DEF RowNames, JobNames
        <3> QED BY <1>1, <1>5, <2>1, <3>1, <3>3, <3>4, <3>5, NamesKept
    <2>3. CASE AddLands(r)
        <3>1. Landed(request[r].handler, l)
            BY <1>2, <2>3 DEF AddLands, At, JobNames
        <3>2. Landed(request[r].handler, l) => \A v : v = request[r].handler => Landed(v, l)'
            BY <1>5 DEF Landed, Sent
        <3>3. runs'[l] \in {runs[l], request[r].handler} /\ \A k \in Loops \ {l} : runs'[k] = runs[k]
            BY <1>1, <1>2, <2>3 DEF AddLands
        <3>4. \A k \in Loops : runs'[k] \in {None, runs[k]} \/ Landed(runs[k], k)'
            BY <3>1, <3>2, <3>3
        <3>5. request'[r].pc = "added" /\ (\A q \in Requests \ {r} : request'[q] = request[q]) /\ UNCHANGED registry
            BY <1>1, <2>3 DEF AddLands, Job
        <3> QED BY <1>1, <1>5, <2>1, <3>4, <3>5, NamesKept
    <2>4. ASSUME Activates(r) \/ PauseRefused(r) \/ PausesUnpublished(r) \/ PausesPublished(r) \/ RemoveLands(r)
                 \/ Deactivates(r) \/ FinalizeReverted(r)
          PROVE  Named'
        <3>1. \A q \in Requests : request'[q] = request[q] \/ request'[q].pc \notin {"submitted", "finalize", "add"}
            BY <1>1, <2>4 DEF Activates, PauseRefused, PausesUnpublished, PausesPublished, RemoveLands,
                              Deactivates, FinalizeReverted, Done, NoRequest, Job
        <3>2. \A k \in Loops : runs'[k] \in {None, runs[k]}
            BY <1>1, <2>4 DEF Activates, PauseRefused, PausesUnpublished, PausesPublished, RemoveLands,
                              Deactivates, FinalizeReverted, chainVars
        <3>3. \A k \in Loops : registry'[k].handler = registry[k].handler /\ registry'[k].deployTx = registry[k].deployTx
            <4>1. CASE UNCHANGED registry
                BY <4>1
            <4>2. CASE Activates(r)
                BY <1>1, <1>2, <4>2 DEF Activates, Row
            <4>3. ASSUME NEW status, registry' = [registry EXCEPT ![l].status = status]
                  PROVE  \A k \in Loops : registry'[k].handler = registry[k].handler
                                        /\ registry'[k].deployTx = registry[k].deployTx
                BY <1>1, <1>2, <4>3 DEF Row
            <4> QED BY <2>4, <4>1, <4>2, <4>3 DEF PauseRefused, PausesUnpublished, PausesPublished, RemoveLands,
                                                  Deactivates, FinalizeReverted
        <3> QED BY <1>1, <1>5, <2>1, <3>1, <3>2, <3>3, NamesKept
    <2> QED BY <1>3, <1>4, <2>2, <2>3, <2>4 DEF Step
<1>6. UNCHANGED <<txs, escrow>> \/ submitDeployHandler(r) \/ RecordsHash(r)
    BY DEF Step, finalizeDeployHandler, FinalizeReverted, AddLands, Activates, PauseRefused, PausesUnpublished,
           PausesPublished, RemoveLands, Deactivates, chainVars
<1> QED BY <1>3, <1>4, <1>5, <1>6

\* A failure and a crash leave the vault and the hash of each row.
LEMMA FailNames ==
    ASSUME Inv, Inv', Named, Crash \/ \E r \in Requests : PipelineFails(r) \/ BalancesFail(r)
    PROVE  Named'
<1>1. TypeInv /\ TypeInv' /\ registry \in [Loops -> Row] /\ request \in [Requests -> Job]
    BY DEF Inv, TypeInv
<1>2. UNCHANGED <<txs, runs, escrow>>
    BY DEF Crash, PipelineFails, BalancesFail, chainVars
<1>3. \A q \in Requests : request'[q] = request[q] \/ request'[q].pc = "none"
    <2>1. ASSUME NEW r \in Requests, Done(r)
          PROVE  \A q \in Requests : request'[q] = request[q] \/ request'[q].pc = "none"
        BY <1>1, <2>1 DEF Done, NoRequest
    <2>2. CASE Crash
        BY <2>2 DEF Crash, NoRequest
    <2> QED BY <2>1, <2>2 DEF PipelineFails, BalancesFail
<1>4. \A k \in Loops : registry'[k].handler = registry[k].handler /\ registry'[k].deployTx = registry[k].deployTx
    <2>1. ASSUME NEW r \in Requests, PipelineFails(r)
          PROVE  \A k \in Loops : registry'[k].handler = registry[k].handler /\ registry'[k].deployTx = registry[k].deployTx
        BY <1>1, <2>1 DEF PipelineFails, Row
    <2>2. CASE UNCHANGED registry
        BY <2>2
    <2>3. ASSUME NEW r \in Requests, registry' = [registry EXCEPT ![request[r].loop].step = "service_updated"]
          PROVE  \A k \in Loops : registry'[k].handler = registry[k].handler /\ registry'[k].deployTx = registry[k].deployTx
        BY <1>1, <2>3 DEF Row
    <2> QED BY <2>1, <2>2, <2>3 DEF Crash, BalancesFail, HalfActivated
<1>5. Grows
    BY <1>1, <1>2 DEF TypeInv, Grows
<1> QED BY <1>1, <1>2, <1>3, <1>4, <1>5, NamesKept

\* The chain settles what becomes of a deployment, and only vaults take deposits.
LEMMA ChainNames ==
    ASSUME Inv, Inv', Named, Chain
    PROVE  Named'
<1>1. TypeInv /\ TypeInv' /\ txs \in Seq(Deployment) /\ Len(txs) \in Nat /\ DOMAIN txs = 1 .. Len(txs)
    BY DEF Inv, TypeInv
<1>2. UNCHANGED <<registry, runs, request>>
    BY DEF Chain, DeployLands, DeployReverts, EscrowOpens, EscrowSettles
<1>3. ASSUME NEW i \in DOMAIN txs, DeployLands(i) \/ DeployReverts(i) PROVE Named'
    <2>1. PICK status \in {"landed", "reverted"} : txs' = [txs EXCEPT ![i].status = status]
        BY <1>3 DEF DeployLands, DeployReverts
    <2> DEFINE d == [txs[i] EXCEPT !.status = status]
    <2>2. txs[i] \in Deployment /\ txs[i].status = "pending"
        BY <1>1, <1>3 DEF DeployLands, DeployReverts
    <2>3. d \in Deployment /\ d.loop = txs[i].loop
        BY <2>1, <2>2 DEF Deployment
    <2>4. txs' = [txs EXCEPT ![i] = d] /\ UNCHANGED escrow
        BY <1>3, <2>1 DEF DeployLands, DeployReverts
    <2> HIDE DEF d
    <2>5. Len(txs') = Len(txs) /\ \A k \in 1 .. Len(txs) : txs'[k] = IF k = i THEN d ELSE txs[k]
        BY <1>1, <2>3, <2>4, ExceptSeq
    <2>6. Grows
        BY <1>1, <2>2, <2>3, <2>5 DEF Grows
    <2> QED BY <1>1, <1>2, <2>4, <2>6, NamesKept
<1>4. CASE (\E i \in DOMAIN txs : EscrowOpens(i)) \/ \E l \in Loops : EscrowSettles(l)
    <2>1. UNCHANGED txs /\ Grows
        BY <1>1, <1>4 DEF EscrowOpens, EscrowSettles, Grows
    <2>2. escrow' \subseteq escrow \cup Vaults'
        BY <1>4, <2>1 DEF EscrowOpens, EscrowSettles, Vaults
    <2> QED BY <1>1, <1>2, <2>1, <2>2, NamesKept
<1> QED BY <1>3, <1>4 DEF Chain

\* The queue is as it was, and so are those that edit.
LEMMA QueueStays ==
    ASSUME Queue, UNCHANGED tail,
           \A q \in Requests : request'[q].pc \in Editing <=> request[q].pc \in Editing,
           \A q \in Requests : request'[q].pc \in {"added", "removed"} =>
               request[q].pc \in {"added", "removed"} \/ AtHead(q)
    PROVE  Queue'
BY DEF Queue, AtHead

\* A request enters the queue at its end.
LEMMA QueueJoined ==
    ASSUME Queue, NEW r \in Requests, Enqueues(r),
           request[r].pc \notin Editing, request'[r].pc \in {"add", "remove"},
           \A q \in Requests \ {r} : request'[q] = request[q]
    PROVE  Queue'
<1>1. tail \in Seq(Requests) /\ Len(tail) \in Nat /\ tail' = Append(tail, r)
    BY DEF Queue, Enqueues
<1>2. /\ tail' \in Seq(Requests) /\ Len(tail') = Len(tail) + 1 /\ tail'[Len(tail) + 1] = r
      /\ \A i \in 1 .. Len(tail) : tail'[i] = tail[i]
    BY <1>1, AppendProperties
<1>3. \A i \in 1 .. Len(tail') : i \in 1 .. Len(tail) \/ i = Len(tail) + 1
    BY <1>1, <1>2
<1>4. \A i \in 1 .. Len(tail) : i \in 1 .. Len(tail') /\ tail[i] # r
    BY <1>1, <1>2 DEF Queue
<1>5. Len(tail) + 1 \in 1 .. Len(tail')
    BY <1>1, <1>2
<1>6. \A i, k \in 1 .. Len(tail') : tail'[i] = tail'[k] => i = k
    BY <1>2, <1>3, <1>4 DEF Queue
<1>7. ASSUME NEW q \in Requests
      PROVE  request'[q].pc \in Editing <=> \E i \in 1 .. Len(tail') : tail'[i] = q
    <2>1. CASE q = r
        BY <1>2, <1>5, <2>1 DEF Editing
    <2>2. CASE q # r
        BY <1>2, <1>3, <1>4, <2>2 DEF Queue
    <2> QED BY <2>1, <2>2
<1>8. ASSUME NEW q \in Requests, request'[q].pc \in {"added", "removed"} PROVE AtHead(q)'
    <2>1. q # r /\ AtHead(q)
        BY <1>8 DEF Queue
    <2> QED BY <1>1, <1>2, <2>1, HeadTailAppend DEF AtHead
<1> QED BY <1>2, <1>6, <1>7, <1>8 DEF Queue

\* The first of the queue leaves it.
LEMMA QueueLeft ==
    ASSUME Queue, NEW r \in Requests, AtHead(r), tail' = Tail(tail),
           request'[r].pc \notin Editing,
           \A q \in Requests \ {r} : request'[q] = request[q]
    PROVE  Queue'
<1>1. tail \in Seq(Requests) /\ Len(tail) \in Nat /\ tail # <<>> /\ Len(tail) # 0 /\ tail[1] = r
    BY DEF Queue, AtHead
<1>2. /\ tail' \in Seq(Requests) /\ Len(tail') = Len(tail) - 1
      /\ \A i \in 1 .. Len(tail') : tail'[i] = tail[i + 1]
    BY <1>1, HeadTailProperties
<1>3. \A i \in 1 .. Len(tail') : i + 1 \in 1 .. Len(tail) /\ i + 1 # 1
    BY <1>1, <1>2
<1>4. \A i \in 1 .. Len(tail) : i = 1 \/ (i - 1 \in 1 .. Len(tail') /\ tail'[i - 1] = tail[i])
    BY <1>1, <1>2
<1>5. ASSUME NEW i \in 1 .. Len(tail'), NEW k \in 1 .. Len(tail'), tail'[i] = tail'[k] PROVE i = k
    <2>1. i + 1 = k + 1
        BY <1>2, <1>3, <1>5 DEF Queue
    <2> QED BY <1>5, <2>1
<1>6. \A i \in 1 .. Len(tail') : tail'[i] # r
    <2>1. 1 \in 1 .. Len(tail)
        BY <1>1
    <2> QED BY <1>1, <1>2, <1>3, <2>1 DEF Queue
<1>7. ASSUME NEW q \in Requests
      PROVE  request'[q].pc \in Editing <=> \E i \in 1 .. Len(tail') : tail'[i] = q
    <2>1. CASE q = r
        BY <1>6, <2>1
    <2>2. CASE q # r
        BY <1>1, <1>2, <1>3, <1>4, <2>2 DEF Queue
    <2> QED BY <2>1, <2>2
<1>8. \A q \in Requests : request'[q].pc \notin {"added", "removed"}
    BY DEF Queue, AtHead, Editing
<1> QED BY <1>2, <1>5, <1>7, <1>8 DEF Queue

\* Each step moves a request through the queue as its program says.
LEMMA StartQueue ==
    ASSUME Inv, Queue, NEW r \in Requests, NEW l \in Loops,
           createLoop(r, l) \/ resumeLoop(r, l) \/ deactivateLoop(r, l)
    PROVE  Queue'
<1>1. request \in [Requests -> Job]
    BY DEF Inv, TypeInv
<1>2. CASE createLoop(r, l) \/ ResumeSubmits(r, l) \/ ResumeFinalizes(r, l) \/ vaultPendingBalances(r, l)
    <2>1. request[r].pc = "none" /\ request'[r].pc \in {"submit", "finalize", "balances"} /\ UNCHANGED tail
          /\ \A q \in Requests \ {r} : request'[q] = request[q]
        <3>1. CASE createLoop(r, l)
            BY <1>1, <3>1 DEF createLoop, Free, At, NoRequest
        <3>2. ASSUME NEW pc, NEW tx, NEW handler, Awaits(r, l, pc, tx, handler)
              PROVE  request'[r].pc = pc /\ \A q \in Requests \ {r} : request'[q] = request[q]
            BY <1>1, <3>2 DEF Awaits
        <3>3. CASE ResumeSubmits(r, l) \/ ResumeFinalizes(r, l) \/ vaultPendingBalances(r, l)
            BY <3>2, <3>3 DEF ResumeSubmits, ResumeFinalizes, vaultPendingBalances, Resumable, Deactivable, Free, At
        <3> QED BY <1>2, <3>1, <3>3
    <2> QED BY <2>1, QueueStays DEF Editing
<1>3. CASE ResumePublishes(r, l)
    <2>1. request[r].pc = "none" /\ request'[r].pc = "add" /\ Enqueues(r)
          /\ \A q \in Requests \ {r} : request'[q] = request[q]
        BY <1>1, <1>3 DEF ResumePublishes, Awaits, Resumable, Free, At
    <2> QED BY <2>1, QueueJoined DEF Editing
<1>4. CASE ResumeActivates(r, l) \/ DeactivatesUndeployed(r, l)
    BY <1>4, QueueStays DEF ResumeActivates, DeactivatesUndeployed
<1> QED BY <1>2, <1>3, <1>4 DEF resumeLoop, deactivateLoop

\* The same of a request at work.
LEMMA StepQueue ==
    ASSUME Inv, Queue, NEW r \in Requests, Step(r)
    PROVE  Queue'
<1>1. request \in [Requests -> Job] /\ request[r] \in Job
    BY DEF Inv, TypeInv
<1>2. CASE submitDeployHandler(r) \/ RecordsHash(r)
    <2>1. request[r].pc \notin Editing /\ request'[r].pc \notin Editing /\ UNCHANGED tail
          /\ \A q \in Requests \ {r} : request'[q] = request[q]
        BY <1>1, <1>2 DEF submitDeployHandler, RecordsHash, At, Job, Editing
    <2> QED BY <2>1, QueueStays DEF Editing
<1>3. CASE FinalizeReverted(r) \/ PauseRefused(r) \/ PausesUnpublished(r)
    <2>1. request[r].pc \notin Editing /\ request'[r].pc \notin Editing /\ UNCHANGED tail
          /\ \A q \in Requests \ {r} : request'[q] = request[q]
        BY <1>1, <1>3 DEF FinalizeReverted, PauseRefused, PausesUnpublished, Done, NoRequest, At, Editing
    <2> QED BY <2>1, QueueStays DEF Editing
<1>4. CASE finalizeDeployHandler(r) \/ PausesPublished(r)
    <2>1. request[r].pc \notin Editing /\ request'[r].pc \in {"add", "remove"} /\ Enqueues(r)
          /\ \A q \in Requests \ {r} : request'[q] = request[q]
        BY <1>1, <1>4 DEF finalizeDeployHandler, PausesPublished, At, Job, Editing
    <2> QED BY <2>1, QueueJoined
<1>5. CASE AddLands(r) \/ RemoveLands(r)
    <2>1. request[r].pc \in Editing /\ request'[r].pc \in Editing /\ AtHead(r) /\ UNCHANGED tail
          /\ \A q \in Requests \ {r} : request'[q] = request[q]
        BY <1>1, <1>5 DEF AddLands, RemoveLands, At, Job, Editing
    <2> QED BY <2>1, QueueStays
<1>6. CASE Activates(r) \/ Deactivates(r)
    <2>1. request[r].pc \in {"added", "removed"} /\ request'[r].pc \notin Editing /\ tail' = Tail(tail)
          /\ \A q \in Requests \ {r} : request'[q] = request[q]
        BY <1>1, <1>6 DEF Activates, Deactivates, Done, NoRequest, At, Editing
    <2>2. AtHead(r)
        BY <2>1 DEF Queue
    <2> QED BY <2>1, <2>2, QueueLeft
<1> QED BY <1>2, <1>3, <1>4, <1>5, <1>6 DEF Step

\* A request that fails leaves the queue if it was its turn; otherwise it was not in it.
LEMMA FailQueue ==
    ASSUME Inv, Queue, Crash \/ \E r \in Requests : PipelineFails(r) \/ BalancesFail(r)
    PROVE  Queue'
<1>1. request \in [Requests -> Job]
    BY DEF Inv, TypeInv
<1>2. ASSUME NEW r \in Requests, PipelineFails(r) \/ BalancesFail(r) PROVE Queue'
    <2>1. request'[r].pc = "none" /\ \A q \in Requests \ {r} : request'[q] = request[q]
        BY <1>1, <1>2 DEF PipelineFails, BalancesFail, Done, NoRequest
    <2>2. CASE PipelineFails(r) /\ AtHead(r)
        BY <2>1, <2>2, QueueLeft DEF PipelineFails, Editing
    <2>3. CASE PipelineFails(r) /\ ~AtHead(r)
        <3>1. request[r].pc \notin Editing /\ UNCHANGED tail
            BY <2>3 DEF PipelineFails, MayFail, At, Queue, Editing
        <3> QED BY <2>1, <3>1, QueueStays DEF Editing
    <2>4. CASE BalancesFail(r)
        <3>1. request[r].pc \notin Editing /\ UNCHANGED tail
            BY <2>4 DEF BalancesFail, At, Editing
        <3> QED BY <2>1, <3>1, QueueStays DEF Editing
    <2> QED BY <1>2, <2>2, <2>3, <2>4
<1>3. CASE Crash
    <2>1. tail' = <<>> /\ \A q \in Requests : request'[q].pc = "none"
        BY <1>3 DEF Crash, NoRequest
    <2> QED BY <2>1 DEF Queue, Editing
<1> QED BY <1>2, <1>3

\* Nothing is named or queued at first.
LEMMA InitNames == Init => Named /\ Queue
BY DEF Init, Named, RowNames, JobNames, Queue, Editing, Vaults, NoRow, NoRequest, None

\* Every step keeps both.
LEMMA NextNames == Inv /\ Inv' /\ Named /\ Queue /\ [Next]_vars => Named' /\ Queue'
<1> SUFFICES ASSUME Inv, Inv', Named, Queue, [Next]_vars
             PROVE  Named' /\ Queue'
    OBVIOUS
<1>1. ASSUME NEW r \in Requests, NEW l \in Loops,
             createLoop(r, l) \/ resumeLoop(r, l) \/ deactivateLoop(r, l)
      PROVE  Named' /\ Queue'
    BY <1>1, StartNames, StartQueue
<1>2. ASSUME NEW r \in Requests, Step(r)
      PROVE  Named' /\ Queue'
    BY <1>2, StepNames, StepQueue
<1>3. CASE Crash \/ \E r \in Requests : PipelineFails(r) \/ BalancesFail(r)
    BY <1>3, FailNames, FailQueue
<1>4. CASE Chain
    <2>1. UNCHANGED <<request, tail>>
        BY <1>4 DEF Chain, DeployLands, DeployReverts, EscrowOpens, EscrowSettles
    <2> QED BY <1>4, <2>1, ChainNames, QueueStays
<1>5. CASE UNCHANGED vars
    BY <1>5 DEF vars, chainVars, Named, RowNames, JobNames, Landed, Sent, Vaults, Queue, AtHead
<1> QED BY <1>1, <1>2, <1>3, <1>4, <1>5 DEF Next

(***************************************************************************)
(* TypeOK, with any overlap: through failures, crashes and resumes a row   *)
(* names only vaults that were deployed for its own loop, a workflow       *)
(* strikes only a vault that exists, and the mutation queue holds, once,   *)
(* the requests that edit service.json.                                    *)
(***************************************************************************)
THEOREM RowsNameTheirVaults == Spec => []TypeOK
<1>1. Inv /\ Named /\ Queue => TypeOK
    <2> SUFFICES ASSUME Inv, Named, Queue
                 PROVE  TypeOK
        OBVIOUS
    <2>1. DOMAIN txs = 1 .. Len(txs) /\ DOMAIN tail = 1 .. Len(tail)
        BY DEF Inv, TypeInv, Queue
    <2>2. ASSUME NEW l \in Loops
          PROVE  /\ registry[l].status \in {"none", "deploying", "active", "failed", "inactive"}
                 /\ registry[l].step \in {"none", "validated", "handler_deployed", "service_updated", "active"}
                 /\ registry[l].handler # None =>
                       registry[l].handler \in Vaults /\ txs[registry[l].handler].loop = l
                 /\ registry[l].deployTx # None => txs[registry[l].deployTx].loop = l
                 /\ runs[l] \in {None} \cup Vaults
        <3>1. registry[l] \in Row
            BY DEF Inv, TypeInv
        <3>2. RowNames(registry[l], l) /\ (runs[l] # None => Landed(runs[l], l))
            BY DEF Named
        <3> QED BY <2>1, <3>1, <3>2 DEF Row, Statuses, Steps, RowNames, Landed, Sent, Vaults
    <2>3. IsInjective(tail)
        BY <2>1 DEF Queue, IsInjective
    <2>4. \A i \in 1 .. Len(tail) : tail[i] \in Requests
        BY DEF Queue
    <2>5. ToSet(tail) = {r \in Requests : request[r].pc \in {"add", "added", "remove", "removed"}}
        BY <2>1, <2>4 DEF Queue, Editing, ToSet
    <2> QED BY <2>2, <2>3, <2>5 DEF TypeOK, Named, Inv, TypeInv
<1>2. Inv /\ Inv' /\ Named /\ Queue /\ [Next]_vars => Named' /\ Queue'
    BY NextNames
<1> QED BY <1>1, <1>2, Invariance, InitNames, PTL DEF Spec

=============================================================================
