------------------------- MODULE LoopServer_proofs -------------------------
(***************************************************************************)
(* Proofs about two parts of a loop server, each with its own              *)
(* specification; no theorem speaks of both.                               *)
(*                                                                         *)
(* ServiceMutation, for a server that is alone, with any workflows,        *)
(* attempts, mutations and nudges.  What it promises of service.json when  *)
(* nothing runs is not inductive: what is, is where the documents are that *)
(* could still replace the present one.  A job waits for the last          *)
(* transaction there is; the only other one, after one failure, brings     *)
(* nothing that was ever reported and is not in the document already; and  *)
(* no document a merge may use has a workflow whose removal was reported.  *)
(* Until a call fails there is no such transaction, the document is as the *)
(* job read it, and so each block brings one edit of ServiceDocument.      *)
(*                                                                         *)
(* ServiceMutation again, for two servers that edit once each while no     *)
(* call fails.  A job may overwrite what its peer wrote; the invariant is  *)
(* that it finds it: a workflow the peer has added is in the document, or  *)
(* in the job's own edit, or in an update after the job's checkpoint.      *)
(*                                                                         *)
(* ReplayCache, for any intents, texts, requests, window and clocks.  The  *)
(* inductive invariant ties the history to the map: what this process      *)
(* acted upon is either still in the map, for MaxAge seconds from then, or *)
(* at least MaxAge seconds ago; and every use lies in its intent's window. *)
(* The second use of a text by one process then comes MaxAge seconds after *)
(* the first.  As the window is shorter than the lives of two entries,     *)
(* there is one such use at most, however often the server restarts.       *)
(***************************************************************************)
EXTENDS ServiceMutation, ReplayCache, SequenceTheorems, FiniteSetTheorems, TLAPS

(***************************************************************************)
(* service.json, edited by one server                                      *)
(***************************************************************************)

Documents == SUBSET Workflows

Writing == {"checkpoint", "read", "send", "mining", "scan", "post", "mergeSend", "mergeMining"}

Nudging == {"nudgeRead", "nudgeSend", "nudgeMining"}

\* Waiting for a receipt.
Mining == {"mining", "mergeMining", "nudgeMining"}

Jobs == [pc : Writing \cup Nudging \cup {"none"}, op : {"none", "add", "remove", "nudge"},
         workflow : Workflows \cup {NoWorkflow}, attempt : Nat, checkpoint : Nat,
         edited : Documents, writeBlock : Nat, overlaps : SUBSET Documents]

Transactions == [by : Servers \cup {NoServer}, uri : Documents]

Events == [block : Nat, uri : Documents]

\* Types; and no event is of a block to come.
ServiceTypes ==
    /\ head \in Nat /\ serviceURI \in Documents /\ failures \in Nat
    /\ updates \subseteq Events
    /\ mempool \in Seq(Transactions)
    /\ job \in [Servers -> Jobs]
    /\ \A u \in updates : u.block <= head

\* What the steps of job j have in common.
Shaped(j) ==
    /\ j.pc = "none" => j = NoJob
    /\ j.pc \in Writing => j.op \in {"add", "remove"} /\ j.workflow \in Workflows
    /\ j.pc \in Nudging => j.op = "nudge"
    /\ j.op = "add" => j.workflow \notin added
    /\ j.op = "remove" => j.workflow \in leaving \ removed
    /\ j.pc \in {"send", "mining", "scan", "post"} => ((j.op = "add") = (j.workflow \in j.edited))

\* What was reported removed had been asked for, what was asked for had been reported added.
Reports == removed \subseteq leaving /\ leaving \subseteq added

\* The transaction a job waits for is the last one, and nothing waits behind its receipt.
Waits(s, j) ==
    /\ \A i \in 1 .. Len(mempool) :
          mempool[i].by = s => i = Len(mempool) /\ j.pc \in Mining /\ mempool[i].uri = j.edited
    /\ j.pc \in Mining => Len(mempool) # 0 /\ mempool[Len(mempool)].by = s
    /\ j.pc \in {"scan", "post", "mergeSend"} => mempool = <<>>

(* With one failure there is at most one transaction nobody waits for.     *)
(* What it would bring is in the service already, or was never reported.   *)
Orphans(s) ==
    /\ failures = 0 => \A i \in 1 .. Len(mempool) : mempool[i].by = s
    /\ failures <= 1 =>
          /\ \A i, k \in 1 .. Len(mempool) : mempool[i].by # s /\ mempool[k].by # s => i = k
          /\ \A i \in 1 .. Len(mempool) : mempool[i].by # s => mempool[i].uri \cap added \subseteq serviceURI

\* The edit of job j, applied to the document as it is.
EditOf(j) == IF j.op = "add" THEN addLoopWorkflow(serviceURI, j.workflow)
                             ELSE removeLoopWorkflow(serviceURI, j.workflow)

\* Until a call fails, the document changes only when the transaction of job j is mined.
Calm(j) ==
    failures = 0 =>
        /\ j.pc \in {"read", "send", "mining"} => j.checkpoint = head
        /\ j.pc \in {"send", "mining"} =>
              j.edited = EditOf(j) /\ (j.op = "add") # (j.workflow \in serviceURI)
        /\ j.pc \in {"scan", "post"} => j.writeBlock = j.checkpoint + 1 /\ serviceURI = j.edited
        /\ j.pc = "post" => j.overlaps = {}
        /\ j.pc \notin {"mergeSend", "mergeMining"}
        /\ j.pc \in {"nudgeSend", "nudgeMining"} => j.edited = serviceURI
        /\ added \ leaving \subseteq serviceURI

\* No document that job j or the chain may still bring back has workflow w.
Gone(w, j) ==
    /\ w \notin serviceURI /\ w \notin j.edited
    /\ \A i \in 1 .. Len(mempool) : w \notin mempool[i].uri
    /\ \A o \in j.overlaps : w \notin o
    /\ j.pc \in {"read", "send", "mining", "scan"} =>
          \A u \in updates : u.block > j.checkpoint => w \notin u.uri

AllGone(j) == failures <= 1 => \A w \in removed : Gone(w, j)

\* The inductive invariant of a server that is alone.
SoleInv(s) ==
    /\ ServiceTypes /\ Reports
    /\ Shaped(job[s]) /\ Waits(s, job[s]) /\ Orphans(s) /\ Calm(job[s]) /\ AllGone(job[s])

-----------------------------------------------------------------------------

\* No job is a job that does nothing.
LEMMA NoJobIsJob == NoJob \in Jobs
BY DEF NoJob, Jobs, Documents, Writing, Nudging

\* Nothing runs at first, and the document is the one installed.
LEMMA SoleInit == ASSUME NEW s, Servers = {s}, Init PROVE SoleInv(s)
<1>1. job[s] = NoJob
  BY DEF Init
<1>2. ServiceTypes
  BY NoJobIsJob, MutationAssumption DEF Init, ServiceTypes, Documents, Events, Transactions
<1>3. Shaped(job[s]) /\ Reports /\ Waits(s, job[s]) /\ Orphans(s)
  BY <1>1 DEF Init, Shaped, Reports, Waits, Orphans, NoJob, Mining, Writing, Nudging
<1>4. Calm(job[s]) /\ AllGone(job[s])
  BY <1>1 DEF Init, Calm, AllGone, NoJob
<1> QED BY <1>2, <1>3, <1>4 DEF SoleInv

\* A step that only changes what the job knows: the rest of the invariant is as before.
LEMMA ThinkingKeeps ==
  ASSUME NEW s, Servers = {s}, SoleInv(s), NEW x \in Jobs,
         job' = [job EXCEPT ![s] = x], UNCHANGED <<chainVars, reportVars, failures>>,
         job[s].pc \notin Mining, x.pc \notin Mining,
         x.pc \in {"scan", "post", "mergeSend"} => mempool = <<>>,
         Shaped(x), Calm(x), AllGone(x)
  PROVE  SoleInv(s)'
<1>1. job \in [Servers -> Jobs] /\ job' \in [Servers -> Jobs] /\ job'[s] = x
  BY DEF SoleInv, ServiceTypes
<1>2. ServiceTypes' /\ Reports' /\ Orphans(s)'
  BY <1>1 DEF SoleInv, ServiceTypes, Reports, Orphans, chainVars, reportVars
<1>3. Shaped(job[s])' /\ Calm(job[s])' /\ AllGone(job[s])'
  BY <1>1 DEF Shaped, Calm, EditOf, AllGone, Gone, chainVars, reportVars
<1>4. Waits(s, job[s])'
  BY <1>1 DEF SoleInv, Waits, chainVars
<1> QED BY <1>2, <1>3, <1>4 DEF SoleInv

\* A job that has nothing to write is a job at the beginning of its loop.
LEMMA FreshJobFits ==
  ASSUME NEW s, Servers = {s}, SoleInv(s), NEW x \in Jobs, x.pc \in {"none", "checkpoint", "nudgeRead"},
         \/ x.edited = {} /\ x.overlaps = {}
         \/ x.edited = job[s].edited /\ x.overlaps = job[s].overlaps
  PROVE  Calm(x) /\ AllGone(x)
BY DEF SoleInv, Calm, AllGone, Gone

\* An installation starts for a workflow that was not reported added.
LEMMA StartAddKeeps ==
  ASSUME NEW s, Servers = {s}, SoleInv(s), NEW w \in Workflows, StartAdd(s, w)
  PROVE  SoleInv(s)'
<1> DEFINE x == [NoJob EXCEPT !.op = "add", !.workflow = w, !.pc = "checkpoint"]
<1>1. x \in Jobs
  BY DEF NoJob, Jobs, Documents, Writing
<1>2. job[s].pc = "none" /\ Shaped(x)
  BY DEF StartAdd, TailFree, At, Shaped, NoJob, Writing, Nudging
<1>3. Calm(x) /\ AllGone(x)
  BY <1>1, FreshJobFits DEF NoJob
<1> QED BY <1>1, <1>2, <1>3, ThinkingKeeps DEF StartAdd, StartJob, budgetVars, Mining, NoJob

\* A nudge starts.
LEMMA StartNudgeKeeps ==
  ASSUME NEW s, Servers = {s}, SoleInv(s), StartNudge(s)
  PROVE  SoleInv(s)'
<1> DEFINE x == [NoJob EXCEPT !.op = "nudge", !.workflow = NoWorkflow, !.pc = "nudgeRead"]
<1>1. x \in Jobs
  BY DEF NoJob, Jobs, Documents, Nudging
<1>2. job[s].pc = "none" /\ Shaped(x)
  BY DEF StartNudge, TailFree, At, Shaped, NoJob, Writing, Nudging
<1>3. Calm(x) /\ AllGone(x)
  BY <1>1, FreshJobFits DEF NoJob
<1> QED BY <1>1, <1>2, <1>3, ThinkingKeeps DEF StartNudge, StartJob, Mining, NoJob

\* A removal starts for a workflow that was reported added, and takes it out of what must be kept.
LEMMA StartRemoveKeeps ==
  ASSUME NEW s, Servers = {s}, SoleInv(s), NEW w \in Workflows, StartRemove(s, w)
  PROVE  SoleInv(s)'
<1> DEFINE x == [NoJob EXCEPT !.op = "remove", !.workflow = w, !.pc = "checkpoint"]
<1>1. x \in Jobs
  BY DEF NoJob, Jobs, Documents, Writing
<1>2. /\ job' = [job EXCEPT ![s] = x] /\ job[s].pc = "none"
      /\ leaving' = leaving \cup {w} /\ w \in added \ removed
      /\ UNCHANGED <<chainVars, added, removed, failures>>
  BY DEF StartRemove, StartJob, TailFree, At
<1>3. job \in [Servers -> Jobs] /\ job' \in [Servers -> Jobs] /\ job'[s] = x
  BY <1>1, <1>2 DEF SoleInv, ServiceTypes
<1>4. ServiceTypes' /\ Reports' /\ Orphans(s)'
  BY <1>2, <1>3 DEF SoleInv, ServiceTypes, Reports, Orphans, chainVars
<1>5. Shaped(job[s])'
  BY <1>2, <1>3 DEF Shaped, NoJob, Writing, Nudging
<1>6. Waits(s, job[s])'
  BY <1>2, <1>3 DEF SoleInv, Waits, chainVars, Mining, NoJob
<1>7. Calm(job[s])'
  BY <1>2, <1>3 DEF SoleInv, Calm, chainVars, NoJob
<1>8. AllGone(job[s])'
  BY <1>2, <1>3 DEF SoleInv, AllGone, Gone, chainVars, NoJob
<1> QED BY <1>4, <1>5, <1>6, <1>7, <1>8 DEF SoleInv

\* No event is of a later block than the checkpoint.
LEMMA CheckpointKeeps ==
  ASSUME NEW s, Servers = {s}, SoleInv(s), getCurrentBlockNumber(s)
  PROVE  SoleInv(s)'
<1> DEFINE x == [job[s] EXCEPT !.checkpoint = head, !.pc = "read"]
<1>1. x \in Jobs /\ job' = [job EXCEPT ![s] = x]
  BY DEF SoleInv, ServiceTypes, getCurrentBlockNumber, Jobs, Writing
<1>2. job[s] \in Jobs /\ job[s].pc = "checkpoint" /\ Shaped(x)
  BY DEF SoleInv, ServiceTypes, getCurrentBlockNumber, At, Shaped, Jobs, Writing, Nudging
<1>3. Calm(x)
  BY <1>2 DEF SoleInv, Calm, Jobs
<1>4. AllGone(x)
  BY <1>2 DEF SoleInv, ServiceTypes, AllGone, Gone, Jobs, Events
<1> QED BY <1>1, <1>2, <1>3, <1>4, ThinkingKeeps DEF getCurrentBlockNumber, budgetVars, Mining, Jobs

\* The document read has no workflow that must stay away, and the edit adds none.
LEMMA EditKeeps ==
  ASSUME NEW s, Servers = {s}, SoleInv(s), EditAndPin(s)
  PROVE  SoleInv(s)'
<1> DEFINE x == [job[s] EXCEPT !.edited = EditOf(job[s]), !.pc = "send"]
<1>1. job[s] \in Jobs /\ job[s].pc = "read" /\ job[s].op \in {"add", "remove"} /\ job[s].workflow \in Workflows
  BY DEF SoleInv, ServiceTypes, EditAndPin, At, Shaped, Writing
<1>2. x \in Jobs /\ job' = [job EXCEPT ![s] = x]
  BY <1>1 DEF SoleInv, ServiceTypes, EditAndPin, EditOf, Jobs, Writing, Documents,
              addLoopWorkflow, removeLoopWorkflow
<1>3. Shaped(x)
  BY <1>1 DEF SoleInv, Shaped, Jobs, Writing, Nudging, EditOf, addLoopWorkflow, removeLoopWorkflow
<1>4. Calm(x)
  BY <1>1 DEF SoleInv, Calm, EditAndPin, EditOf, Jobs
<1>5. AllGone(x)
  BY <1>1 DEF SoleInv, AllGone, Gone, Shaped, Reports, Jobs, EditOf, addLoopWorkflow, removeLoopWorkflow
<1> QED BY <1>1, <1>2, <1>3, <1>4, <1>5, ThinkingKeeps DEF EditAndPin, budgetVars, Mining, Jobs

\* What landed since the checkpoint has no workflow that must stay away.
LEMMA ScanKeeps ==
  ASSUME NEW s, Servers = {s}, SoleInv(s), getServiceUriUpdates(s)
  PROVE  SoleInv(s)'
<1> DEFINE seen == UpdatesBetween(job[s].checkpoint + 1, job[s].writeBlock - 1)
           x == [job[s] EXCEPT !.overlaps = seen, !.pc = "post"]
<1>1. job[s] \in Jobs /\ job[s].pc = "scan" /\ job[s].checkpoint \in Nat /\ job[s].writeBlock \in Nat
  BY DEF SoleInv, ServiceTypes, getServiceUriUpdates, At, Jobs
<1>2. seen \in SUBSET Documents
  BY DEF SoleInv, ServiceTypes, UpdatesBetween, Events
<1>3. x \in Jobs /\ job' = [job EXCEPT ![s] = x]
  BY <1>1, <1>2 DEF SoleInv, ServiceTypes, getServiceUriUpdates, Jobs, Writing
<1>4. Shaped(x) /\ mempool = <<>>
  BY <1>1 DEF SoleInv, Shaped, Waits, Jobs, Writing, Nudging
<1>5. Calm(x)
  <2>1. failures = 0 => seen = {}
    BY <1>1 DEF SoleInv, ServiceTypes, Calm, UpdatesBetween, Events
  <2> QED BY <1>1, <2>1 DEF SoleInv, Calm, Jobs
<1>6. AllGone(x)
  <2>1. ASSUME NEW o \in seen
        PROVE  \E u \in updates : u.block > job[s].checkpoint /\ o = u.uri
    BY <1>1, <2>1 DEF SoleInv, ServiceTypes, UpdatesBetween, Events
  <2> QED BY <1>1, <2>1 DEF SoleInv, AllGone, Gone, Jobs
<1> QED BY <1>1, <1>3, <1>4, <1>5, <1>6, ThinkingKeeps DEF getServiceUriUpdates, budgetVars, Mining, Jobs

\* Another attempt, or the end of the job, has nothing to write yet.
LEMMA RetryFits ==
  ASSUME NEW s, Servers = {s}, SoleInv(s), job[s].pc \in Writing
  PROVE  /\ Retried(job[s]) \in Jobs /\ Retried(job[s]).pc \in {"none", "checkpoint"}
         /\ Shaped(Retried(job[s])) /\ Calm(Retried(job[s])) /\ AllGone(Retried(job[s]))
<1> DEFINE x == [job[s] EXCEPT !.attempt = @ + 1, !.pc = "checkpoint"]
<1>1. job[s] \in Jobs
  BY DEF SoleInv, ServiceTypes
<1>2. x \in Jobs /\ x.pc = "checkpoint" /\ x.edited = job[s].edited /\ x.overlaps = job[s].overlaps
  <2>1. job[s].attempt + 1 \in Nat
    BY <1>1 DEF Jobs
  <2> HIDE DEF SoleInv
  <2> QED BY <1>1, <2>1 DEF Jobs, Writing
<1>3. Shaped(x)
  BY <1>1 DEF SoleInv, Shaped, Jobs, Writing, Nudging
<1>4. Calm(x) /\ AllGone(x)
  BY <1>2, FreshJobFits
<1>5. Shaped(NoJob) /\ NoJob \in Jobs /\ NoJob.pc = "none" /\ NoJob.edited = {} /\ NoJob.overlaps = {}
  BY NoJobIsJob DEF Shaped, NoJob, Writing, Nudging
<1>6. Calm(NoJob) /\ AllGone(NoJob)
  BY <1>5, FreshJobFits
<1> QED BY <1>2, <1>3, <1>4, <1>5, <1>6 DEF Retried

\* A merge brings back what landed since the checkpoint, and nothing else.
LEMMA ClobberedKeeps ==
  ASSUME NEW s, Servers = {s}, SoleInv(s), Clobbered(s)
  PROVE  SoleInv(s)'
<1> DEFINE merged == mergeMissingWorkflows(job[s].edited, job[s].overlaps)
           m == [job[s] EXCEPT !.edited = merged, !.pc = "mergeSend"]
<1>1. job[s] \in Jobs /\ job[s].pc = "post" /\ mempool = <<>>
  BY DEF SoleInv, ServiceTypes, Waits, Clobbered, At
<1>2. job' = [job EXCEPT ![s] = IF merged = job[s].edited THEN Retried(job[s]) ELSE m]
  BY DEF Clobbered
<1>3. merged \in Documents
  BY <1>1 DEF mergeMissingWorkflows, Jobs, Documents
<1>4. m \in Jobs /\ Shaped(m)
  BY <1>1, <1>3 DEF SoleInv, Shaped, Jobs, Writing, Nudging
<1>5. Calm(m)
  BY <1>1 DEF SoleInv, Calm, Clobbered
<1>6. AllGone(m)
  BY <1>1 DEF SoleInv, AllGone, Gone, mergeMissingWorkflows, Jobs
<1>7. CASE merged = job[s].edited
  BY <1>1, <1>2, <1>7, RetryFits, ThinkingKeeps DEF Clobbered, budgetVars, Mining, Writing
<1>8. CASE merged # job[s].edited
  BY <1>1, <1>2, <1>4, <1>5, <1>6, <1>8, ThinkingKeeps DEF Clobbered, budgetVars, Mining, Jobs
<1> QED BY <1>7, <1>8

\* A job that was overwritten starts again, or ends without a report.
LEMMA LostKeeps ==
  ASSUME NEW s, Servers = {s}, SoleInv(s), Lost(s)
  PROVE  SoleInv(s)'
<1>1. job[s].pc = "post"
  BY DEF Lost, At
<1> QED BY <1>1, RetryFits, ThinkingKeeps DEF Lost, budgetVars, Mining, Writing

\* A nudge reads the document of the moment.
LEMMA NudgeReadsKeeps ==
  ASSUME NEW s, Servers = {s}, SoleInv(s), NudgeReads(s)
  PROVE  SoleInv(s)'
<1> DEFINE x == [job[s] EXCEPT !.edited = serviceURI, !.pc = "nudgeSend"]
<1>1. job[s] \in Jobs /\ job[s].pc = "nudgeRead"
  BY DEF SoleInv, ServiceTypes, NudgeReads, At
<1>2. x \in Jobs /\ job' = [job EXCEPT ![s] = x]
  BY <1>1 DEF SoleInv, ServiceTypes, NudgeReads, Jobs, Nudging
<1>3. Shaped(x) /\ Calm(x) /\ AllGone(x)
  BY <1>1 DEF SoleInv, Shaped, Calm, AllGone, Gone, Jobs, Writing, Nudging
<1> QED BY <1>1, <1>2, <1>3, ThinkingKeeps DEF NudgeReads, budgetVars, Mining, Jobs

\* A report ends the job.  What is reported installed is in the document, what is reported
\* removed is in no document that may come back.
LEMMA ReportKeeps ==
  ASSUME NEW s, Servers = {s}, SoleInv(s), Succeeds(s), UNCHANGED <<chainVars, failures>>,
         job[s].pc \in {"read", "post"},
         job[s].op = "add" => job[s].workflow \in serviceURI,
         failures <= 1 /\ job[s].op = "remove" =>
            /\ job[s].workflow \notin serviceURI
            /\ \A i \in 1 .. Len(mempool) : job[s].workflow \notin mempool[i].uri
  PROVE  SoleInv(s)'
<1> DEFINE w == job[s].workflow
<1>1. /\ job' = [job EXCEPT ![s] = NoJob] /\ leaving' = leaving
      /\ added' = IF job[s].op = "add" THEN added \cup {w} ELSE added
      /\ removed' = IF job[s].op = "remove" THEN removed \cup {w} ELSE removed
  BY DEF Succeeds, Ends
<1>2. job \in [Servers -> Jobs] /\ job' \in [Servers -> Jobs] /\ job'[s] = NoJob
  BY <1>1, NoJobIsJob DEF SoleInv, ServiceTypes
<1>3. ServiceTypes'
  BY <1>2 DEF SoleInv, ServiceTypes, chainVars
<1>4. Reports'
  BY <1>1 DEF SoleInv, Reports, Shaped
<1>5. Shaped(job[s])'
  BY <1>2 DEF Shaped, NoJob, Writing, Nudging
<1>6. Waits(s, job[s])'
  BY <1>2 DEF SoleInv, Waits, chainVars, NoJob, Mining
<1>7. Orphans(s)'
  BY <1>1 DEF SoleInv, Orphans, chainVars
<1>8. Calm(job[s])'
  BY <1>1, <1>2 DEF SoleInv, Calm, NoJob, chainVars
<1>9. AllGone(job[s])'
  BY <1>1, <1>2 DEF SoleInv, AllGone, Gone, NoJob, chainVars
<1> QED BY <1>3, <1>4, <1>5, <1>6, <1>7, <1>8, <1>9 DEF SoleInv

\* A transaction still pending brings back nothing that was reported and is not there.
LEMMA NoopKeeps ==
  ASSUME NEW s, Servers = {s}, SoleInv(s), EditIsNoop(s)
  PROVE  SoleInv(s)'
<1>1. job[s].pc = "read" /\ job[s].op \in {"add", "remove"}
  BY DEF SoleInv, Shaped, EditIsNoop, At, Writing
<1>2. ASSUME failures <= 1, job[s].op = "remove", NEW i \in 1 .. Len(mempool)
      PROVE  job[s].workflow \notin mempool[i].uri
  <2>1. mempool[i].by # s
    BY <1>1 DEF SoleInv, Waits, Mining
  <2>2. job[s].workflow \in added \ serviceURI
    BY <1>2 DEF SoleInv, Shaped, Reports, EditIsNoop
  <2> QED BY <1>2, <2>1, <2>2 DEF SoleInv, Orphans
<1> QED BY <1>1, <1>2, ReportKeeps DEF EditIsNoop, budgetVars

\* Nothing is pending behind the receipt of a transaction.
LEMMA VerifiedKeeps ==
  ASSUME NEW s, Servers = {s}, SoleInv(s), Verified(s)
  PROVE  SoleInv(s)'
<1>1. job[s].pc = "post" /\ serviceURI = job[s].edited
  BY DEF Verified, At
<1>2. Len(mempool) = 0 /\ job[s].op \in {"add", "remove"}
  BY <1>1 DEF SoleInv, Waits, Shaped, Writing
<1>3. (job[s].op = "add") = (job[s].workflow \in serviceURI)
  BY <1>1 DEF SoleInv, Shaped
<1> QED BY <1>1, <1>2, <1>3, ReportKeeps DEF Verified, budgetVars

\* A transaction is sent: it is the last one.
LEMMA SendKeeps ==
  ASSUME NEW s, Servers = {s}, SoleInv(s), NEW pc, NEW next, setServiceUri(s, pc, next),
         <<pc, next>> \in {<<"send", "mining">>, <<"mergeSend", "mergeMining">>, <<"nudgeSend", "nudgeMining">>}
  PROVE  SoleInv(s)'
<1> DEFINE tx == [by |-> s, uri |-> job[s].edited]
           x == [job[s] EXCEPT !.pc = next]
<1>1. job[s] \in Jobs /\ job[s].pc = pc /\ mempool' = Append(mempool, tx)
      /\ UNCHANGED <<head, serviceURI, updates, reportVars, failures>>
  BY DEF SoleInv, ServiceTypes, setServiceUri, At, budgetVars
<1>2. tx \in Transactions
  BY <1>1 DEF Transactions, Jobs
<1>3. x \in Jobs /\ job' = [job EXCEPT ![s] = x]
  BY <1>1 DEF SoleInv, ServiceTypes, setServiceUri, Jobs, Writing, Nudging
<1>4. job \in [Servers -> Jobs] /\ job' \in [Servers -> Jobs] /\ job'[s] = x
  BY <1>3 DEF SoleInv, ServiceTypes
<1>5. /\ mempool' \in Seq(Transactions) /\ Len(mempool') = Len(mempool) + 1 /\ Len(mempool) \in Nat
      /\ \A i \in 1 .. Len(mempool) : mempool'[i] = mempool[i]
      /\ mempool'[Len(mempool')] = tx
  BY <1>1, <1>2, AppendProperties DEF SoleInv, ServiceTypes
<1>6. \A i \in 1 .. Len(mempool') : i \in 1 .. Len(mempool) \/ i = Len(mempool')
  BY <1>5
<1>7. \A i \in 1 .. Len(mempool) : mempool[i].by # s
  BY <1>1 DEF SoleInv, Waits, Mining
<1>8. ServiceTypes' /\ Reports'
  BY <1>1, <1>4, <1>5 DEF SoleInv, ServiceTypes, Reports, reportVars
<1>9. Shaped(x) /\ x.pc = next /\ x.edited = job[s].edited /\ x.overlaps = job[s].overlaps
      /\ x.checkpoint = job[s].checkpoint /\ x.op = job[s].op /\ x.workflow = job[s].workflow
  BY <1>1 DEF SoleInv, Shaped, Jobs, Writing, Nudging
<1>10. Shaped(job[s])'
  BY <1>1, <1>4, <1>9 DEF Shaped, reportVars
<1>11. Waits(s, job[s])'
  <2>1. next \in Mining /\ next \notin {"scan", "post", "mergeSend"}
    BY DEF Mining
  <2> QED BY <1>4, <1>5, <1>6, <1>7, <1>9, <2>1 DEF Waits
<1>12. Orphans(s)'
  BY <1>1, <1>5, <1>6 DEF SoleInv, Orphans, reportVars
<1>13. Calm(job[s])'
  BY <1>1, <1>4, <1>9 DEF SoleInv, Calm, EditOf, reportVars
<1>14. AllGone(job[s])'
  <2>1. ASSUME failures <= 1, NEW w \in removed
        PROVE  \A i \in 1 .. Len(mempool') : w \notin mempool'[i].uri
    BY <1>5, <1>6, <2>1 DEF SoleInv, AllGone, Gone
  <2> QED BY <1>1, <1>4, <1>9, <2>1 DEF SoleInv, AllGone, Gone, reportVars
<1> QED BY <1>8, <1>10, <1>11, <1>12, <1>13, <1>14 DEF SoleInv

\* What the receipt of a transaction mined in block makes of job j: y scans next, starts again, or has ended.
AfterReceipt(j, block, y) ==
    /\ y \in Jobs /\ Shaped(y) /\ y.pc \in {"scan", "none", "checkpoint"}
    /\ \/ y.edited = {} /\ y.overlaps = {}
       \/ y.edited = j.edited /\ y.overlaps = j.overlaps
    /\ y.pc = "scan" => /\ j.pc = "mining" /\ y.edited = j.edited
                        /\ y.checkpoint = j.checkpoint /\ y.writeBlock = block

\* The receipt of its last transaction leaves a job that still fits.
LEMMA ReceiptFits ==
  ASSUME NEW s, Servers = {s}, SoleInv(s), job[s].pc \in Mining, NEW block \in Nat,
         NEW y, y = WithReceipt(job[s], block)
  PROVE  AfterReceipt(job[s], block, y)
<1> DEFINE x == [job[s] EXCEPT !.writeBlock = block, !.pc = "scan"]
<1>1. job[s] \in Jobs
  BY DEF SoleInv, ServiceTypes
<1>2. CASE job[s].pc = "mining"
  <2>1. y = x
    BY <1>2 DEF WithReceipt
  <2>2. Shaped(x)
    BY <1>1, <1>2 DEF SoleInv, Shaped, Jobs, Writing, Nudging
  <2> QED BY <1>1, <1>2, <2>1, <2>2 DEF AfterReceipt, Jobs, Writing
<1>3. CASE job[s].pc = "mergeMining"
  <2>1. y = Retried(job[s])
    BY <1>3 DEF WithReceipt
  <2>2. \/ y.edited = {} /\ y.overlaps = {}
        \/ y.edited = job[s].edited /\ y.overlaps = job[s].overlaps
    BY <1>1, <2>1 DEF Retried, NoJob, Jobs
  <2> QED BY <1>3, <2>1, <2>2, RetryFits DEF AfterReceipt, Writing
<1>4. CASE job[s].pc = "nudgeMining"
  <2>1. y = NoJob
    BY <1>4 DEF WithReceipt
  <2> QED BY <2>1, NoJobIsJob DEF AfterReceipt, Shaped, NoJob, Writing, Nudging
<1> QED BY <1>2, <1>3, <1>4 DEF Mining

\* A block takes transactions from the front: with its own, a server finds none left.
LEMMA MineKeeps ==
  ASSUME NEW s, Servers = {s}, SoleInv(s), NEW n \in 1 .. Len(mempool), Mine(n)
  PROVE  SoleInv(s)'
<1> DEFINE block == head + 1
           j == job[s]
           mined == \E i \in 1 .. n : mempool[i].by = s
           y == IF mined THEN WithReceipt(j, block) ELSE j
           landed == {[block |-> block, uri |-> mempool[i].uri] : i \in 1 .. n}
<1>1. /\ mempool \in Seq(Transactions) /\ Len(mempool) \in Nat /\ head \in Nat /\ job \in [Servers -> Jobs]
      /\ mempool' = SubSeq(mempool, n + 1, Len(mempool)) /\ n \in Nat /\ n >= 1 /\ n <= Len(mempool)
  BY DEF SoleInv, ServiceTypes, Mine
<1>2. /\ head' = block /\ serviceURI' = mempool[n].uri /\ updates' = updates \cup landed
      /\ UNCHANGED <<reportVars, failures>>
  BY DEF Mine, budgetVars
<1>3. \A i \in 1 .. Len(mempool) : mempool[i] \in Transactions
  BY <1>1
<1>4. /\ mempool' \in Seq(Transactions) /\ Len(mempool') = Len(mempool) - n
      /\ \A i \in 1 .. Len(mempool') : mempool'[i] = mempool[n + i] /\ n + i \in 1 .. Len(mempool)
  <2>1. /\ SubSeq(mempool, n + 1, Len(mempool)) \in Seq(Transactions)
        /\ Len(SubSeq(mempool, n + 1, Len(mempool))) =
             IF n + 1 <= Len(mempool) THEN Len(mempool) - (n + 1) + 1 ELSE 0
        /\ \A i \in 1 .. Len(mempool) - (n + 1) + 1 :
             SubSeq(mempool, n + 1, Len(mempool))[i] = mempool[n + 1 + i - 1]
    <3>1. n + 1 \in Int /\ Len(mempool) \in Int /\ \A i \in n + 1 .. Len(mempool) : mempool[i] \in Transactions
      BY <1>1, <1>3
    <3> QED BY <3>1, SubSeqProperties
  <2>2. Len(mempool') = Len(mempool) - n
    BY <1>1, <2>1
  <2> QED BY <1>1, <2>1, <2>2
<1>5. mined => n = Len(mempool) /\ j.pc \in Mining /\ mempool[n].by = s /\ mempool[n].uri = j.edited
  BY <1>1 DEF SoleInv, Waits
<1>6. ~mined => j.pc \notin Mining \/ n < Len(mempool)
  BY <1>1 DEF SoleInv, Waits
<1>7. mined => AfterReceipt(j, block, y)
  <2>1. SUFFICES ASSUME mined PROVE AfterReceipt(j, block, y)
    OBVIOUS
  <2>2. j.pc \in Mining /\ block \in Nat /\ y = WithReceipt(j, block)
    BY <1>1, <1>5, <2>1
  <2> QED BY <2>2, ReceiptFits
<1>8. y \in Jobs /\ job' \in [Servers -> Jobs] /\ job'[s] = y
  <2>1. y \in Jobs
    BY <1>1, <1>7 DEF AfterReceipt
  <2>2. job' = [r \in Servers |-> IF r \in {mempool[i].by : i \in 1 .. n}
                                   THEN WithReceipt(job[r], block) ELSE job[r]]
    BY DEF Mine
  <2>3. s \in {mempool[i].by : i \in 1 .. n} <=> mined
    OBVIOUS
  <2> HIDE DEF y, mined
  <2>4. job'[s] = y /\ job' = [r \in Servers |-> y]
    BY <2>2, <2>3 DEF y
  <2> QED BY <2>1, <2>4
<1>9. /\ Shaped(y)
      /\ mined => y.pc \in {"scan", "none", "checkpoint"}
      /\ \/ y.edited = {} /\ y.overlaps = {}
         \/ y.edited = j.edited /\ y.overlaps = j.overlaps
      /\ mined /\ y.pc = "scan" => /\ j.pc = "mining" /\ y.edited = j.edited
                                   /\ y.checkpoint = j.checkpoint /\ y.writeBlock = block
  <2>1. ~mined => y = j /\ Shaped(j)
    BY DEF SoleInv
  <2> HIDE DEF y, mined
  <2> QED BY <1>7, <2>1 DEF AfterReceipt
<1>10. mempool[n] \in Transactions /\ landed \subseteq Events /\ \A u \in landed : u.block = block
  <2>1. \A i \in 1 .. n : mempool[i].uri \in Documents
    BY <1>1, <1>3 DEF Transactions
  <2> QED BY <1>1, <1>3, <2>1 DEF Events
<1> HIDE DEF y, mined, landed
<1>11. ServiceTypes'
  <2>1. block \in Nat /\ \A u \in updates : u.block \in Nat /\ u.block <= head => u.block <= block
    BY <1>1
  <2>2. \A u \in updates : u.block <= block
    BY <2>1 DEF SoleInv, ServiceTypes, Events
  <2>3. \A u \in updates' : u.block <= block
    BY <1>1, <1>2, <1>10, <2>2
  <2>4. updates' \subseteq Events /\ serviceURI' \in Documents /\ failures' \in Nat
    BY <1>2, <1>10 DEF SoleInv, ServiceTypes, Transactions
  <2> HIDE DEF block
  <2> QED BY <1>2, <1>4, <1>8, <2>1, <2>3, <2>4 DEF ServiceTypes
<1>12. Reports' /\ Shaped(job[s])'
  BY <1>2, <1>8, <1>9 DEF SoleInv, Reports, Shaped, reportVars
<1>13. Waits(s, job[s])'
  <2>1. CASE mined
    <3>1. Len(mempool') = 0 /\ mempool' = <<>>
      BY <1>1, <1>4, <1>5, <2>1
    <3>2. y.pc \notin Mining
      BY <1>9, <2>1 DEF Mining
    <3> QED BY <1>8, <3>1, <3>2 DEF Waits
  <2>2. CASE ~mined
    <3>1. y = j
      BY <2>2 DEF y
    <3>2. j.pc \notin {"scan", "post", "mergeSend"}
      BY <1>1 DEF SoleInv, Waits
    <3>3. \A i \in 1 .. Len(mempool') : mempool'[i].by = s =>
             i = Len(mempool') /\ j.pc \in Mining /\ mempool'[i].uri = j.edited
      BY <1>1, <1>4 DEF SoleInv, Waits
    <3>4. j.pc \in Mining => Len(mempool') # 0 /\ mempool'[Len(mempool')].by = s
      <4>1. SUFFICES ASSUME j.pc \in Mining PROVE Len(mempool') # 0 /\ mempool'[Len(mempool')].by = s
        OBVIOUS
      <4>2. mempool[Len(mempool)].by = s /\ n < Len(mempool)
        BY <1>6, <2>2, <4>1 DEF SoleInv, Waits
      <4>3. Len(mempool') \in 1 .. Len(mempool') /\ n + Len(mempool') = Len(mempool)
        BY <1>1, <1>4, <4>2
      <4>4. mempool'[Len(mempool')] = mempool[n + Len(mempool')]
        BY <1>4, <4>3
      <4> QED BY <4>2, <4>3, <4>4
    <3> QED BY <1>8, <3>1, <3>2, <3>3, <3>4 DEF Waits
  <2> QED BY <2>1, <2>2
<1>14. Orphans(s)'
  <2>1. failures = 0 => \A i \in 1 .. Len(mempool') : mempool'[i].by = s
    BY <1>4 DEF SoleInv, Orphans
  <2>2. ASSUME failures <= 1, NEW i \in 1 .. Len(mempool') PROVE mempool'[i].by = s
    <3>1. SUFFICES ASSUME mempool[n + i].by # s PROVE FALSE
      BY <1>4
    <3>2. 1 \in 1 .. Len(mempool) /\ n + i \in 1 .. Len(mempool) /\ 1 # n + i
      BY <1>1, <1>4
    <3>3. mempool[1].by = s
      BY <2>2, <3>1, <3>2 DEF SoleInv, Orphans
    <3> QED BY <1>1, <3>2, <3>3 DEF SoleInv, Waits
  <2> QED BY <1>2, <2>1, <2>2 DEF Orphans
<1>15. Calm(job[s])'
  <2>1. SUFFICES ASSUME failures = 0 PROVE Calm(job[s])'
    BY <1>2 DEF Calm
  <2>2. 1 \in 1 .. Len(mempool) /\ mempool[1].by = s
    BY <1>1, <2>1 DEF SoleInv, Orphans
  <2>3. mined /\ n = 1 /\ Len(mempool) = 1
    <3>1. Len(mempool) = 1
      BY <1>1, <2>2 DEF SoleInv, Waits
    <3>2. n = 1 /\ 1 \in 1 .. n
      BY <1>1, <3>1
    <3> QED BY <2>2, <3>1, <3>2 DEF mined
  <2>4. serviceURI' = j.edited /\ j.pc \in {"mining", "nudgeMining"}
    BY <1>2, <1>5, <2>1, <2>3 DEF SoleInv, Calm, Mining
  <2>5. y.pc = "scan" => y.writeBlock = y.checkpoint + 1 /\ serviceURI' = y.edited
    BY <1>9, <2>1, <2>3, <2>4 DEF SoleInv, Calm
  <2>6. added \ leaving \subseteq serviceURI'
    <3>1. CASE j.pc = "mining"
      BY <2>1, <2>4, <3>1 DEF SoleInv, Calm, Shaped, EditOf, addLoopWorkflow, removeLoopWorkflow, Writing
    <3>2. CASE j.pc = "nudgeMining"
      BY <2>1, <2>4, <3>2 DEF SoleInv, Calm
    <3> QED BY <2>4, <3>1, <3>2
  <2> QED BY <1>2, <1>8, <1>9, <2>3, <2>5, <2>6 DEF Calm, reportVars
<1>16. AllGone(job[s])'
  <2>1. SUFFICES ASSUME failures <= 1, NEW w \in removed PROVE Gone(w, job[s])'
    BY <1>2 DEF AllGone, reportVars
  <2>2. Gone(w, j)
    BY <2>1 DEF SoleInv, AllGone
  <2>3. w \notin serviceURI' /\ \A i \in 1 .. Len(mempool') : w \notin mempool'[i].uri
    BY <1>2, <1>4, <2>2 DEF Gone
  <2>4. w \notin y.edited /\ \A o \in y.overlaps : w \notin o
    BY <1>9, <2>2 DEF Gone
  <2>5. \A u \in landed : w \notin u.uri
    BY <1>1, <2>2 DEF Gone, landed
  <2>6. y.pc \in {"read", "send", "mining", "scan"} =>
          j.pc \in {"read", "send", "mining", "scan"} /\ y.checkpoint = j.checkpoint
    BY <1>9 DEF y
  <2> QED BY <1>2, <1>8, <2>2, <2>3, <2>4, <2>5, <2>6 DEF Gone
<1> QED BY <1>11, <1>12, <1>13, <1>14, <1>15, <1>16 DEF SoleInv

\* The job is lost; its transaction, if it sent one, waits for nobody.
LEMMA FailKeeps ==
  ASSUME NEW s, Servers = {s}, SoleInv(s), Fail(s)
  PROVE  SoleInv(s)'
<1>1. /\ job' = [job EXCEPT ![s] = NoJob] /\ failures' = failures + 1
      /\ UNCHANGED <<head, serviceURI, updates, reportVars>>
      /\ mempool' = [i \in DOMAIN mempool |->
                       IF mempool[i].by = s THEN [mempool[i] EXCEPT !.by = NoServer] ELSE mempool[i]]
  BY DEF Fail, Ends
<1>2. job \in [Servers -> Jobs] /\ job' \in [Servers -> Jobs] /\ job'[s] = NoJob
  BY <1>1, NoJobIsJob DEF SoleInv, ServiceTypes
<1>3. mempool \in Seq(Transactions) /\ Len(mempool) \in Nat /\ DOMAIN mempool = 1 .. Len(mempool) /\ failures \in Nat
  BY DEF SoleInv, ServiceTypes
<1>4. \A i \in 1 .. Len(mempool) : mempool[i] \in Transactions
  BY <1>3
<1>5. \A i \in 1 .. Len(mempool) :
         mempool'[i] \in Transactions /\ mempool'[i].uri = mempool[i].uri /\ mempool'[i].by # s
  BY <1>1, <1>3, <1>4, MutationAssumption DEF Transactions
<1>6. mempool' \in Seq(Transactions) /\ Len(mempool') = Len(mempool)
  <2>1. mempool' = [i \in 1 .. Len(mempool) |-> mempool'[i]]
    BY <1>1, <1>3
  <2> QED BY <1>3, <1>5, <2>1, IsASeq, LenProperties
<1>7. ServiceTypes' /\ Reports'
  BY <1>1, <1>2, <1>3, <1>6 DEF SoleInv, ServiceTypes, Reports, reportVars
<1>8. Shaped(job[s])' /\ Waits(s, job[s])'
  BY <1>2, <1>5, <1>6 DEF Shaped, Waits, NoJob, Writing, Nudging, Mining
<1>9. Orphans(s)'
  <2>1. SUFFICES ASSUME failures = 0 PROVE Orphans(s)'
    BY <1>1, <1>3 DEF Orphans
  <2>2. \A i \in 1 .. Len(mempool) : i = Len(mempool)
    BY <2>1 DEF SoleInv, Orphans, Waits
  <2>3. ASSUME NEW i \in 1 .. Len(mempool) PROVE mempool[i].uri \cap added \subseteq serviceURI
    <3>1. mempool[i].uri = job[s].edited /\ job[s].pc \in {"mining", "nudgeMining"}
      BY <2>1 DEF SoleInv, Orphans, Waits, Calm, Mining
    <3> QED BY <2>1, <3>1 DEF SoleInv, Calm, Shaped, EditOf, addLoopWorkflow, removeLoopWorkflow
  <2> QED BY <1>1, <1>3, <1>5, <1>6, <2>1, <2>2, <2>3 DEF Orphans, reportVars
<1>10. Calm(job[s])' /\ AllGone(job[s])'
  BY <1>1, <1>2, <1>3, <1>5, <1>6 DEF SoleInv, Calm, AllGone, Gone, NoJob, reportVars
<1> QED BY <1>7, <1>8, <1>9, <1>10 DEF SoleInv

(***************************************************************************)
(* A transaction is sent twice.  If it is the first call that failed, none *)
(* was on its way, and the document it brings has nothing that was ever    *)
(* reported and is not in the present one.                                 *)
(***************************************************************************)
LEMMA ResentKeeps ==
  ASSUME NEW s, Servers = {s}, SoleInv(s), NEW pc, NEW next, Resent(s, pc, next),
         <<pc, next>> \in {<<"send", "mining">>, <<"mergeSend", "mergeMining">>, <<"nudgeSend", "nudgeMining">>}
  PROVE  SoleInv(s)'
<1> DEFINE first == [by |-> NoServer, uri |-> job[s].edited]
           second == [by |-> s, uri |-> job[s].edited]
           x == [job[s] EXCEPT !.pc = next]
<1>1. job[s] \in Jobs /\ job[s].pc = pc /\ mempool' = mempool \o <<first, second>>
      /\ failures \in Nat /\ failures' = failures + 1
      /\ UNCHANGED <<head, serviceURI, updates, reportVars>>
  BY DEF SoleInv, ServiceTypes, Resent, At
<1>2. first \in Transactions /\ second \in Transactions /\ first.by # s /\ second.by = s
      /\ first.uri = job[s].edited /\ second.uri = job[s].edited
  BY <1>1, MutationAssumption DEF Transactions, Jobs
<1>3. x \in Jobs /\ job' = [job EXCEPT ![s] = x]
  BY <1>1 DEF SoleInv, ServiceTypes, Resent, Jobs, Writing, Nudging
<1>4. job \in [Servers -> Jobs] /\ job' \in [Servers -> Jobs] /\ job'[s] = x
  BY <1>3 DEF SoleInv, ServiceTypes
<1>5. /\ mempool' \in Seq(Transactions) /\ Len(mempool') = Len(mempool) + 2 /\ Len(mempool) \in Nat
      /\ \A i \in 1 .. Len(mempool) : mempool'[i] = mempool[i]
      /\ mempool'[Len(mempool) + 1] = first /\ mempool'[Len(mempool')] = second
  <2>1. mempool \in Seq(Transactions) /\ <<first, second>> \in Seq(Transactions)
        /\ Len(<<first, second>>) = 2
    BY <1>2 DEF SoleInv, ServiceTypes
  <2>2. Len(mempool) \in Nat
    BY <2>1
  <2> HIDE DEF first, second
  <2> QED BY <1>1, <2>1, <2>2, ConcatProperties
<1>6. \A i \in 1 .. Len(mempool') : \/ i \in 1 .. Len(mempool)
                                   \/ i = Len(mempool) + 1
                                   \/ i = Len(mempool')
  BY <1>5
<1>7. \A i \in 1 .. Len(mempool) : mempool[i].by # s
  BY <1>1 DEF SoleInv, Waits, Mining
<1>8. ServiceTypes' /\ Reports'
  BY <1>1, <1>4, <1>5 DEF SoleInv, ServiceTypes, Reports, reportVars
<1>9. Shaped(x) /\ x.pc = next /\ x.edited = job[s].edited /\ x.overlaps = job[s].overlaps
      /\ x.checkpoint = job[s].checkpoint /\ x.op = job[s].op /\ x.workflow = job[s].workflow
  BY <1>1 DEF SoleInv, Shaped, Jobs, Writing, Nudging
<1>10. Shaped(job[s])'
  BY <1>1, <1>4, <1>9 DEF Shaped, reportVars
<1>11. Waits(s, job[s])'
  <2>1. next \in Mining /\ next \notin {"scan", "post", "mergeSend"}
    BY DEF Mining
  <2>2. Len(mempool') # 0 /\ mempool'[Len(mempool')].by = s
    BY <1>2, <1>5
  <2>3. \A i \in 1 .. Len(mempool') : mempool'[i].by = s => i = Len(mempool')
    BY <1>2, <1>5, <1>6, <1>7
  <2> QED BY <1>2, <1>4, <1>5, <1>9, <2>1, <2>2, <2>3 DEF Waits
<1>12. Orphans(s)'
  <2>1. CASE failures # 0
    <3>1. failures' # 0 /\ ~(failures' <= 1)
      BY <1>1, <2>1
    <3> QED BY <3>1 DEF Orphans
  <2>2. SUFFICES ASSUME failures = 0 PROVE Orphans(s)'
    BY <2>1
  <2>3. Len(mempool) = 0
    BY <1>5, <1>7, <2>2 DEF SoleInv, Orphans
  <2>4. pc \in {"send", "nudgeSend"}
    BY <1>1, <2>2 DEF SoleInv, Calm
  <2>5. job[s].edited \cap added \subseteq serviceURI
    BY <1>1, <2>2, <2>4 DEF SoleInv, Calm, Shaped, EditOf, addLoopWorkflow, removeLoopWorkflow
  <2>6. \A i \in 1 .. Len(mempool') : mempool'[i].by # s => i = 1 /\ mempool'[i].uri = job[s].edited
    BY <1>2, <1>5, <1>6, <2>3
  <2>7. \A i, k \in 1 .. Len(mempool') : mempool'[i].by # s /\ mempool'[k].by # s => i = k
    BY <2>6
  <2>8. \A i \in 1 .. Len(mempool') : mempool'[i].by # s => mempool'[i].uri \cap added' \subseteq serviceURI'
    BY <1>1, <2>5, <2>6 DEF reportVars
  <2>9. failures' # 0
    BY <1>1
  <2> QED BY <2>7, <2>8, <2>9 DEF Orphans
<1>13. Calm(job[s])'
  BY <1>1 DEF Calm
<1>14. AllGone(job[s])'
  <2>1. ASSUME failures <= 1, NEW w \in removed
        PROVE  \A i \in 1 .. Len(mempool') : w \notin mempool'[i].uri
    BY <1>2, <1>5, <1>6, <2>1 DEF SoleInv, AllGone, Gone
  <2> QED BY <1>1, <1>4, <1>9, <2>1 DEF SoleInv, AllGone, Gone, reportVars
<1> QED BY <1>8, <1>10, <1>11, <1>12, <1>13, <1>14 DEF SoleInv

\* Every step of a server that is alone, and of the chain, keeps the invariant.
LEMMA SoleStep == ASSUME NEW s, Servers = {s}, SoleInv(s), [Next]_vars PROVE SoleInv(s)'
<1>1. CASE UNCHANGED vars
  BY <1>1 DEF vars, chainVars, reportVars, budgetVars, SoleInv, ServiceTypes, Reports, Shaped, Waits,
              Orphans, Calm, EditOf, AllGone, Gone
<1>2. CASE Start(s)
  BY <1>2, StartAddKeeps, StartRemoveKeeps, StartNudgeKeeps DEF Start
<1>3. CASE Step(s)
  <2>1. CASE getCurrentBlockNumber(s) \/ EditAndPin(s) \/ getServiceUriUpdates(s) \/ NudgeReads(s)
    BY <2>1, CheckpointKeeps, EditKeeps, ScanKeeps, NudgeReadsKeeps
  <2>2. CASE EditIsNoop(s) \/ Verified(s) \/ Clobbered(s) \/ Lost(s)
    BY <2>2, NoopKeeps, VerifiedKeeps, ClobberedKeeps, LostKeeps
  <2>3. CASE \/ setServiceUri(s, "send", "mining")
             \/ setServiceUri(s, "mergeSend", "mergeMining")
             \/ setServiceUri(s, "nudgeSend", "nudgeMining")
    BY <2>3, SendKeeps
  <2> QED BY <1>3, <2>1, <2>2, <2>3 DEF Step
<1>4. CASE Fail(s)
  BY <1>4, FailKeeps
<1>5. CASE MineSome
  BY <1>5, MineKeeps DEF MineSome
<1>6. CASE SendsAgain(s)
  BY <1>6, ResentKeeps DEF SendsAgain
<1> QED BY <1>1, <1>2, <1>3, <1>4, <1>5, <1>6 DEF Next

(***************************************************************************)
(* What a server that is alone knows of the document and of the            *)
(* transactions on their way.                                              *)
(***************************************************************************)
THEOREM SoleInvariance == ASSUME NEW s, Servers = {s} PROVE Spec => []SoleInv(s)
<1>1. Init => SoleInv(s)
  BY SoleInit
<1>2. SoleInv(s) /\ [Next]_vars => SoleInv(s)'
  BY SoleStep
<1> QED BY <1>1, <1>2, PTL DEF Spec

(***************************************************************************)
(* NoResurrection, for one server and any workflows, attempts and nudges:  *)
(* with the one failure it allows, nothing that was reported removed is in *)
(* a transaction nobody waits for, so no later block brings it back.       *)
(***************************************************************************)
THEOREM RemovedStaysRemoved == ASSUME NEW s, Servers = {s} PROVE Spec => []NoResurrection
<1>1. SoleInv(s) => NoResurrection
  BY DEF SoleInv, AllGone, Gone, NoResurrection
<1> QED BY <1>1, SoleInvariance, PTL

(***************************************************************************)
(* Until a call fails, a server that is alone loses no workflow it         *)
(* reported, nudges or not.                                                *)
(***************************************************************************)
THEOREM AloneLosesNothing == ASSUME NEW s, Servers = {s} PROVE Spec => [](failures = 0 => NoLostWorkflow)
<1>1. SoleInv(s) => (failures = 0 => NoLostWorkflow)
  BY DEF SoleInv, Calm, NoLostWorkflow
<1> QED BY <1>1, SoleInvariance, PTL

-----------------------------------------------------------------------------
(* The refinement of ServiceDocument                                       *)

\* A step that neither writes the document nor reports anything is a stutter of the service.
LEMMA Stutters == ASSUME UNCHANGED <<chainVars, reportVars>> \/ UNCHANGED <<serviceURI, reportVars>>
                  PROVE  UNCHANGED Service!vars
BY DEF chainVars, reportVars, Service!vars

\* A report is one of the service: the workflow is there, or it is gone.
LEMMA ReportsAsPromised ==
  ASSUME NEW s, Servers = {s}, SoleInv(s), Succeeds(s), UNCHANGED serviceURI, job[s].pc \in Writing,
         (job[s].op = "add") = (job[s].workflow \in serviceURI)
  PROVE  Service!Next
<1> DEFINE w == job[s].workflow
<1>1. w \in Workflows /\ job[s].op \in {"add", "remove"} /\ UNCHANGED leaving
  BY DEF SoleInv, Shaped, Succeeds
<1>2. CASE job[s].op = "add"
  <2>1. Service!ReportInstalled(w)
    BY <1>1, <1>2 DEF SoleInv, Shaped, Succeeds, Service!ReportInstalled
  <2> QED BY <1>1, <2>1 DEF Service!Next
<1>3. CASE job[s].op = "remove"
  <2>1. Service!ReportRemoved(w)
    BY <1>1, <1>3 DEF SoleInv, Shaped, Succeeds, Service!ReportRemoved
  <2> QED BY <1>1, <2>1 DEF Service!Next
<1> QED BY <1>1, <1>2, <1>3

\* Until a call fails, a block brings the one edit that is under way, or the document as it is.
LEMMA BlockIsOneEdit ==
  ASSUME NEW s, Servers = {s}, SoleInv(s), failures = 0, NEW n \in 1 .. Len(mempool), Mine(n)
  PROVE  Service!Next \/ UNCHANGED Service!vars
<1> DEFINE j == job[s]
           w == j.workflow
<1>1. mempool[n].by = s /\ n = Len(mempool) /\ j.pc \in Mining /\ mempool[n].uri = j.edited
  BY DEF SoleInv, Orphans, Waits
<1>2. serviceURI' = j.edited /\ UNCHANGED reportVars /\ j.pc \in {"mining", "nudgeMining"}
  BY <1>1 DEF Mine, SoleInv, Calm, Mining
<1>3. CASE j.pc = "nudgeMining"
  BY <1>2, <1>3 DEF SoleInv, Calm, Service!vars, reportVars
<1>4. CASE j.pc = "mining" /\ j.op = "add"
  <2>1. w \in Workflows /\ Service!Install(w)
    BY <1>2, <1>4 DEF SoleInv, Calm, Shaped, Writing, EditOf, addLoopWorkflow, reportVars, Service!Install
  <2> QED BY <2>1 DEF Service!Next
<1>5. CASE j.pc = "mining" /\ j.op # "add"
  <2>1. w \in Workflows /\ Service!Uninstall(w)
    BY <1>2, <1>5 DEF SoleInv, Calm, Shaped, Writing, EditOf, removeLoopWorkflow, reportVars, Service!Uninstall
  <2> QED BY <2>1 DEF Service!Next
<1> QED BY <1>2, <1>3, <1>4, <1>5

\* Each step is one of the service or a stutter of it, until a call fails.
LEMMA StepIsOneEdit ==
  ASSUME NEW s, Servers = {s}, SoleInv(s), failures = 0, Next
  PROVE  Service!Next \/ UNCHANGED Service!vars
<1>1. ASSUME NEW w \in Workflows, StartAdd(s, w) PROVE UNCHANGED Service!vars
  BY <1>1, Stutters DEF StartAdd
<1>2. ASSUME NEW w \in Workflows, StartRemove(s, w) PROVE Service!Next \/ UNCHANGED Service!vars
  <2>1. leaving' = leaving \cup {w} /\ w \in added /\ UNCHANGED <<chainVars, added, removed>>
    BY <1>2 DEF StartRemove
  <2>2. CASE w \in leaving
    BY <2>1, <2>2 DEF chainVars, Service!vars
  <2>3. CASE w \notin leaving
    BY <2>1, <2>3 DEF chainVars, Service!Next, Service!AskRemoval
  <2> QED BY <2>2, <2>3
<1>3. CASE StartNudge(s)
  BY <1>3, Stutters DEF StartNudge
<1>4. CASE \/ getCurrentBlockNumber(s) \/ EditAndPin(s) \/ getServiceUriUpdates(s)
           \/ Clobbered(s) \/ Lost(s) \/ NudgeReads(s)
  BY <1>4, Stutters DEF getCurrentBlockNumber, EditAndPin, getServiceUriUpdates, Clobbered, Lost, NudgeReads
<1>5. CASE EditIsNoop(s)
  BY <1>5, ReportsAsPromised DEF EditIsNoop, At, Writing, chainVars
<1>6. CASE Verified(s)
  <2>1. job[s].pc = "post" /\ serviceURI = job[s].edited
    BY <1>6 DEF Verified, At
  <2>2. (job[s].op = "add") = (job[s].workflow \in serviceURI)
    BY <2>1 DEF SoleInv, Shaped
  <2> QED BY <1>6, <2>1, <2>2, ReportsAsPromised DEF Verified, Writing, chainVars
<1>7. ASSUME NEW pc, NEW next, setServiceUri(s, pc, next) PROVE UNCHANGED Service!vars
  BY <1>7, Stutters DEF setServiceUri
<1>8. CASE Fail(s)
  BY <1>8, Stutters DEF Fail
<1>9. CASE MineSome
  BY <1>9, BlockIsOneEdit DEF MineSome
<1>10. CASE Start(s)
  BY <1>1, <1>2, <1>3, <1>10 DEF Start
<1>11. CASE Step(s)
  BY <1>4, <1>5, <1>6, <1>7, <1>11 DEF Step
<1>12. CASE SendsAgain(s)
  BY <1>12, Stutters DEF SendsAgain, Resent
<1> QED BY <1>8, <1>9, <1>10, <1>11, <1>12 DEF Next

(***************************************************************************)
(* EditsAreAtomic, for one server: until a call fails, mutateService and   *)
(* nudgeService behind the serialized queue implement ServiceDocument,     *)
(* with the chain's document as the document of the service.               *)
(***************************************************************************)
THEOREM EditsRefineDocument == ASSUME NEW s, Servers = {s} PROVE Spec => EditsAreAtomic
<1>1. Init => Service!Init
  BY DEF Init, Service!Init
<1>2. SoleInv(s) /\ [Next]_vars => [failures = 0 => Service!Next \/ UNCHANGED Service!vars]_vars
  BY StepIsOneEdit
<1> QED BY <1>1, <1>2, SoleInvariance, PTL DEF Spec, EditsAreAtomic

-----------------------------------------------------------------------------
(* Two servers, one mutation each                                          *)

\* A job that has a document of its own.
Written == {"send", "mining", "scan", "post", "mergeSend", "mergeMining"}

\* Types; nothing that was installed at first is forgotten.
PairTypes ==
    /\ ServiceTypes
    /\ failures = 0
    /\ mutations \in [Servers -> Nat] /\ nudges \in [Servers -> Nat]
    /\ Preinstalled \subseteq added /\ added \subseteq Workflows

\* Each transaction is the one its sender waits for.
Sent ==
    /\ \A i \in 1 .. Len(mempool) :
          /\ mempool[i].by \in Servers
          /\ job[mempool[i].by].pc \in Mining /\ mempool[i].uri = job[mempool[i].by].edited
    /\ \A i, k \in 1 .. Len(mempool) : mempool[i].by = mempool[k].by => i = k

\* What was installed at first and is to stay is in every document of the chain.
Kept ==
    \A w \in Preinstalled \ leaving :
        /\ w \in serviceURI
        /\ \A i \in 1 .. Len(mempool) : w \in mempool[i].uri
        /\ \A u \in updates : w \in u.uri

\* The document is still as job j read it, or the scan of j will find what it is now.
AsRead(j) ==
    j.pc \in {"send", "mining"} =>
        \/ j.edited = EditOf(j)
        \/ \E u \in updates : u.block > j.checkpoint /\ u.uri = serviceURI

\* Workflow w is the one that server a may add, adds or has added.
AddedBy(a, w) ==
    /\ Home[w] = a /\ w \notin Preinstalled
    /\ \/ mutations[a] = 0
       \/ job[a].op = "add" /\ job[a].workflow = w
       \/ w \in added

\* Every document that job j may have overwritten has workflow w, which its peer adds.
Rescues(w, j) ==
    /\ j.pc \in {"read", "send", "mining", "scan"} =>
          \A u \in updates : u.block > j.checkpoint => w \in u.uri \/ (j.pc = "scan" /\ u.block = j.writeBlock)
    /\ j.pc = "post" => \A o \in j.overlaps : w \in o
    /\ j.pc \in {"mergeSend", "mergeMining"} => w \in j.edited

\* Workflow w, which its peer has added, is in the document, or job j will bring it back.
Restores(w, j) ==
    /\ j.pc \in {"none", "checkpoint", "read", "send", "mining"} => w \in serviceURI
    /\ j.pc \in {"send", "mining"} =>
          w \in j.edited \/ \E u \in updates : u.block > j.checkpoint /\ w \in u.uri
    /\ j.pc = "scan" =>
          \/ w \in serviceURI
          \/ /\ serviceURI = j.edited
             /\ \E u \in updates : u.block > j.checkpoint /\ u.block < j.writeBlock /\ w \in u.uri
    /\ j.pc = "post" => w \in serviceURI \/ (serviceURI = j.edited /\ \E o \in j.overlaps : w \in o)
    /\ j.pc \in {"mergeSend", "mergeMining"} => w \in j.edited

\* What is so of job j of server b.
Fits(b, j) ==
    /\ j \in Jobs /\ j.checkpoint <= head /\ Shaped(j) /\ j.pc \notin Nudging
    /\ j.pc # "none" => mutations[b] # 0 /\ Home[j.workflow] = b
    /\ \A w \in added \ Preinstalled : Home[w] = b => j.pc = "none" /\ mutations[b] # 0
    /\ j.pc \in Written /\ j.op = "add" => j.workflow \in j.edited
    /\ \A w \in Preinstalled \ leaving :
          (j.pc \in Written => w \in j.edited) /\ \A o \in j.overlaps : w \in o
    /\ AsRead(j)
    /\ \A a \in Servers \ {b}, w \in Workflows : AddedBy(a, w) => Rescues(w, j)
    /\ \A a \in Servers \ {b}, w \in added \ Preinstalled : Home[w] = a => Restores(w, j)

PairInv ==
    /\ PairTypes /\ Reports /\ Sent /\ Kept
    /\ \A b \in Servers : Fits(b, job[b])

\* Two servers that edit the document once each, with no failure and no nudge.
Pair(s, t) ==
    /\ s # t /\ Servers = {s, t}
    /\ MutationBudget = 1 /\ NudgeBudget = 0 /\ FailBudget = 0

\* Nothing runs at first.
LEMMA PairInit == ASSUME NEW s, NEW t, Pair(s, t), Init PROVE PairInv
<1>1. \A b \in Servers : job[b] = NoJob
  BY DEF Init
<1>2. PairTypes
  BY NoJobIsJob, MutationAssumption DEF Init, PairTypes, ServiceTypes, Documents, Events, Transactions
<1>3. Reports /\ Sent /\ Kept
  BY DEF Init, Reports, Sent, Kept
<1>4. ASSUME NEW b \in Servers PROVE Fits(b, NoJob)
  <2>1. Shaped(NoJob) /\ NoJob.checkpoint <= head /\ NoJob.pc \notin Nudging
    BY DEF Init, Shaped, NoJob, Writing, Nudging
  <2>2. AsRead(NoJob) /\ \A w \in Workflows : Rescues(w, NoJob)
    BY DEF AsRead, Rescues, NoJob
  <2> QED BY <2>1, <2>2, NoJobIsJob DEF Init, Fits, NoJob, Written
<1> QED BY <1>1, <1>2, <1>3, <1>4 DEF PairInv

\* A step that only changes what a job knows.
LEMMA PairThinks ==
  ASSUME NEW s, NEW t, Pair(s, t), PairInv, NEW b \in Servers, NEW x,
         job' = [job EXCEPT ![b] = x], UNCHANGED <<chainVars, reportVars, budgetVars>>,
         job[b].pc \notin Mining, Fits(b, x),
         x.op = "add" => job[b].op = "add" /\ job[b].workflow = x.workflow
  PROVE  PairInv'
<1>1. job \in [Servers -> Jobs] /\ x \in Jobs /\ job' \in [Servers -> Jobs] /\ job'[b] = x
      /\ \A c \in Servers \ {b} : job'[c] = job[c]
  BY DEF PairInv, PairTypes, ServiceTypes, Fits
<1>2. PairTypes' /\ Reports' /\ Kept'
  BY <1>1 DEF PairInv, PairTypes, ServiceTypes, Reports, Kept, chainVars, reportVars, budgetVars
<1>3. \A i \in 1 .. Len(mempool) : mempool[i].by \in Servers \ {b}
  BY DEF PairInv, Sent
<1>4. Sent'
  BY <1>1, <1>3 DEF PairInv, Sent, chainVars
<1>5. \A a \in Servers, w \in Workflows : AddedBy(a, w)' => AddedBy(a, w)
  BY <1>1 DEF AddedBy, budgetVars, reportVars
<1>6. ASSUME NEW c \in Servers, NEW y, Fits(c, y), y = job'[c] PROVE Fits(c, job[c])'
  BY <1>5, <1>6 DEF Fits, Shaped, AsRead, EditOf, Rescues, Restores, chainVars, reportVars, budgetVars
<1>7. \A c \in Servers : Fits(c, job'[c])
  BY <1>1 DEF PairInv
<1> QED BY <1>2, <1>4, <1>6, <1>7 DEF PairInv

\* Another attempt is the same job from its beginning, or no job.
LEMMA RetryIsJob ==
  ASSUME NEW j \in Jobs
  PROVE  /\ Retried(j) \in Jobs
         /\ \/ Retried(j) = NoJob
            \/ /\ Retried(j).pc = "checkpoint" /\ Retried(j).checkpoint = j.checkpoint
               /\ Retried(j).op = j.op /\ Retried(j).workflow = j.workflow
               /\ Retried(j).edited = j.edited /\ Retried(j).overlaps = j.overlaps
<1> DEFINE x == [j EXCEPT !.attempt = @ + 1, !.pc = "checkpoint"]
<1>1. j.attempt + 1 \in Nat
  BY DEF Jobs
<1>2. x \in Jobs /\ x.pc = "checkpoint" /\ x.checkpoint = j.checkpoint
      /\ x.op = j.op /\ x.workflow = j.workflow /\ x.edited = j.edited /\ x.overlaps = j.overlaps
  BY <1>1 DEF Jobs, Writing
<1> QED BY <1>2, NoJobIsJob DEF Retried

\* A job that is lost fits if what its peer added is in the document.
LEMMA NoJobFits ==
  ASSUME NEW s, NEW t, Pair(s, t), PairInv, NEW b \in Servers, job[b].pc # "none",
         \A w \in added \ Preinstalled : Home[w] # b => w \in serviceURI
  PROVE  Fits(b, NoJob)
<1>1. NoJob \in Jobs /\ NoJob.checkpoint <= head
  BY NoJobIsJob DEF PairInv, PairTypes, ServiceTypes, NoJob
<1>2. Shaped(NoJob) /\ NoJob.pc = "none" /\ NoJob.overlaps = {}
  BY DEF Shaped, NoJob, Writing, Nudging
<1>3. \A w \in added \ Preinstalled : Home[w] # b
  BY DEF PairInv, Fits
<1>4. \A w \in Workflows : Rescues(w, NoJob)
  BY <1>2 DEF Rescues
<1>5. \A w \in added \ Preinstalled : w \in serviceURI => Restores(w, NoJob)
  BY <1>2 DEF Restores
<1> QED BY <1>1, <1>2, <1>3, <1>4, <1>5 DEF Fits, AsRead, Nudging, Written

\* The same of a job that starts again.
LEMMA RetryFitsPair ==
  ASSUME NEW s, NEW t, Pair(s, t), PairInv, NEW b \in Servers, job[b].pc \in Writing,
         \A w \in added \ Preinstalled : Home[w] # b => w \in serviceURI
  PROVE  Fits(b, Retried(job[b])) /\ Retried(job[b]).pc \notin Mining
         /\ (Retried(job[b]).op = "add" => job[b].op = "add" /\ job[b].workflow = Retried(job[b]).workflow)
<1> DEFINE j == job[b]
<1>1. j \in Jobs /\ Fits(b, j) /\ j.pc # "none"
  BY DEF PairInv, Fits, Writing
<1>2. ASSUME NEW x \in Jobs, x.pc = "checkpoint", x.checkpoint = j.checkpoint,
             x.op = j.op, x.workflow = j.workflow, x.edited = j.edited, x.overlaps = j.overlaps
      PROVE  Fits(b, x)
  <2>1. Shaped(x)
    BY <1>1, <1>2 DEF Fits, Shaped, Writing, Nudging
  <2>2. \A w \in Workflows : Rescues(w, x)
    BY <1>2 DEF Rescues
  <2>3. \A w \in added \ Preinstalled : w \in serviceURI => Restores(w, x)
    BY <1>2 DEF Restores
  <2>4. j.checkpoint <= head /\ mutations[b] # 0 /\ Home[j.workflow] = b
        /\ (\A w \in added \ Preinstalled : Home[w] # b)
        /\ \A w \in Preinstalled \ leaving : \A o \in j.overlaps : w \in o
    BY <1>1 DEF Fits
  <2> QED BY <1>2, <2>1, <2>2, <2>3, <2>4 DEF Fits, AsRead, Nudging, Written
<1>3. CASE Retried(j) = NoJob
  BY <1>1, <1>3, NoJobFits DEF NoJob, Mining
<1>4. CASE Retried(j) # NoJob
  <2>1. /\ Retried(j) \in Jobs
        /\ Retried(j).pc = "checkpoint" /\ Retried(j).checkpoint = j.checkpoint
        /\ Retried(j).op = j.op /\ Retried(j).workflow = j.workflow
        /\ Retried(j).edited = j.edited /\ Retried(j).overlaps = j.overlaps
    BY <1>1, <1>4, RetryIsJob
  <2> QED BY <1>2, <2>1 DEF Mining
<1> QED BY <1>3, <1>4

\* No event is of a later block than the checkpoint.
LEMMA PairCheckpoint ==
  ASSUME NEW s, NEW t, Pair(s, t), PairInv, NEW b \in Servers, getCurrentBlockNumber(b)
  PROVE  PairInv'
<1> DEFINE j == job[b]
           x == [j EXCEPT !.checkpoint = head, !.pc = "read"]
<1>1. j \in Jobs /\ Fits(b, j) /\ j.pc = "checkpoint" /\ head \in Nat
  BY DEF PairInv, PairTypes, ServiceTypes, Fits, getCurrentBlockNumber, At
<1>2. x \in Jobs /\ x.pc = "read" /\ x.checkpoint = head /\ x.op = j.op /\ x.workflow = j.workflow
      /\ x.edited = j.edited /\ x.overlaps = j.overlaps
  BY <1>1 DEF Jobs, Writing
<1>3. job' = [job EXCEPT ![b] = x]
  BY DEF getCurrentBlockNumber, PairInv, PairTypes, ServiceTypes, Jobs
<1> HIDE DEF x
<1>4. Shaped(x)
  BY <1>1, <1>2 DEF Fits, Shaped, Writing, Nudging
<1>5. \A w \in Workflows : Rescues(w, x)
  BY <1>2 DEF Rescues, PairInv, PairTypes, ServiceTypes, Events
<1>6. \A w \in Workflows : Restores(w, j) => Restores(w, x)
  BY <1>1, <1>2 DEF Restores
<1>7. Fits(b, x)
  BY <1>1, <1>2, <1>4, <1>5, <1>6 DEF Fits, AsRead, Nudging, Written, PairInv, PairTypes
<1> QED BY <1>1, <1>2, <1>3, <1>7, PairThinks DEF getCurrentBlockNumber, Mining

\* The edit is made in the document of the moment, and takes out no workflow of the peer.
LEMMA PairEdit ==
  ASSUME NEW s, NEW t, Pair(s, t), PairInv, NEW b \in Servers, EditAndPin(b)
  PROVE  PairInv'
<1> DEFINE j == job[b]
           x == [j EXCEPT !.edited = EditOf(j), !.pc = "send"]
<1>1. j \in Jobs /\ Fits(b, j) /\ j.pc = "read" /\ serviceURI \in Documents
  BY DEF PairInv, PairTypes, ServiceTypes, Fits, EditAndPin, At
<1>2. j.op \in {"add", "remove"} /\ j.workflow \in Workflows
  BY <1>1 DEF Fits, Shaped, Writing
<1>3. EditOf(j) \in Documents
  BY <1>1, <1>2 DEF EditOf, addLoopWorkflow, removeLoopWorkflow, Documents
<1>4. x \in Jobs /\ x.pc = "send" /\ x.checkpoint = j.checkpoint /\ x.op = j.op /\ x.workflow = j.workflow
      /\ x.edited = EditOf(j) /\ x.overlaps = j.overlaps
  BY <1>1, <1>3 DEF Jobs, Writing
<1>5. job' = [job EXCEPT ![b] = x]
  BY DEF EditAndPin, EditOf, PairInv, PairTypes, ServiceTypes, Jobs
<1> HIDE DEF x
<1>6. Shaped(x) /\ (x.op = "add" => x.workflow \in x.edited)
  BY <1>1, <1>2, <1>4 DEF Fits, Shaped, Writing, Nudging, EditOf, addLoopWorkflow, removeLoopWorkflow
<1>7. AsRead(x)
  BY <1>4 DEF AsRead, EditOf
<1>8. \A w \in serviceURI : w # j.workflow => w \in x.edited
  BY <1>4 DEF EditOf, addLoopWorkflow, removeLoopWorkflow
<1>9. \A w \in serviceURI : w \notin leaving => w \in x.edited
  BY <1>1, <1>2, <1>4 DEF Fits, Shaped, EditOf, addLoopWorkflow, removeLoopWorkflow
<1>10. Home[j.workflow] = b
  BY <1>1 DEF Fits
<1>11. \A w \in Workflows : Rescues(w, j) => Rescues(w, x)
  BY <1>1, <1>4 DEF Rescues
<1>12. \A w \in Workflows : Home[w] # b /\ Restores(w, j) => Restores(w, x)
  BY <1>1, <1>4, <1>8, <1>10 DEF Restores
<1>13. \A w \in Preinstalled \ leaving : w \in x.edited
  BY <1>9 DEF PairInv, Kept
<1>14. Fits(b, x)
  BY <1>1, <1>4, <1>6, <1>7, <1>11, <1>12, <1>13 DEF Fits, Nudging, Written, PairInv, PairTypes
<1> QED BY <1>1, <1>4, <1>5, <1>14, PairThinks DEF EditAndPin, Mining

\* The scan finds every update that landed before its own block.
LEMMA PairScan ==
  ASSUME NEW s, NEW t, Pair(s, t), PairInv, NEW b \in Servers, getServiceUriUpdates(b)
  PROVE  PairInv'
<1> DEFINE j == job[b]
           seen == UpdatesBetween(j.checkpoint + 1, j.writeBlock - 1)
           x == [j EXCEPT !.overlaps = seen, !.pc = "post"]
<1>1. j \in Jobs /\ Fits(b, j) /\ j.pc = "scan" /\ j.checkpoint \in Nat /\ j.writeBlock \in Nat
  BY DEF PairInv, PairTypes, ServiceTypes, Fits, getServiceUriUpdates, At, Jobs
<1>2. seen \in SUBSET Documents
  BY DEF PairInv, PairTypes, ServiceTypes, UpdatesBetween, Events
<1>3. x \in Jobs /\ x.pc = "post" /\ x.checkpoint = j.checkpoint /\ x.op = j.op /\ x.workflow = j.workflow
      /\ x.edited = j.edited /\ x.overlaps = seen
  BY <1>1, <1>2 DEF Jobs, Writing
<1>4. job' = [job EXCEPT ![b] = x]
  BY DEF getServiceUriUpdates, PairInv, PairTypes, ServiceTypes, Jobs
<1>5. ASSUME NEW o \in seen
      PROVE  \E u \in updates : u.block > j.checkpoint /\ u.block < j.writeBlock /\ o = u.uri
  <2>1. PICK u \in updates : u.block \in j.checkpoint + 1 .. j.writeBlock - 1 /\ o = u.uri
    BY <1>5 DEF UpdatesBetween
  <2>2. u.block \in Nat
    BY DEF PairInv, PairTypes, ServiceTypes, Events
  <2>3. u.block > j.checkpoint /\ u.block < j.writeBlock
    BY <1>1, <2>1, <2>2
  <2> QED BY <2>1, <2>3
<1>6. ASSUME NEW u \in updates, u.block > j.checkpoint, u.block < j.writeBlock
      PROVE  u.uri \in seen
  <2>1. u.block \in Nat
    BY DEF PairInv, PairTypes, ServiceTypes, Events
  <2>2. u.block \in j.checkpoint + 1 .. j.writeBlock - 1
    BY <1>1, <1>6, <2>1
  <2> QED BY <2>2 DEF UpdatesBetween
<1> HIDE DEF x, seen
<1>7. Shaped(x) /\ (x.op = "add" => x.workflow \in x.edited)
  BY <1>1, <1>3 DEF Fits, Shaped, Writing, Nudging, Written
<1>8. \A w \in Workflows : Rescues(w, j) => Rescues(w, x)
  BY <1>1, <1>3, <1>5 DEF Rescues, PairInv, PairTypes, ServiceTypes, Events
<1>9. \A w \in Workflows : Restores(w, j) => Restores(w, x)
  BY <1>1, <1>3, <1>6 DEF Restores
<1>10. \A w \in Preinstalled \ leaving : w \in x.edited /\ \A o \in x.overlaps : w \in o
  BY <1>1, <1>3, <1>5 DEF Fits, Written, PairInv, Kept
<1>11. Fits(b, x)
  BY <1>1, <1>3, <1>7, <1>8, <1>9, <1>10 DEF Fits, AsRead, Nudging, Written, PairInv, PairTypes
<1> QED BY <1>1, <1>3, <1>4, <1>11, PairThinks DEF getServiceUriUpdates, Mining

\* The merge brings back what was overwritten; with nothing to merge, nothing was.
LEMMA PairClobbered ==
  ASSUME NEW s, NEW t, Pair(s, t), PairInv, NEW b \in Servers, Clobbered(b)
  PROVE  PairInv'
<1> DEFINE j == job[b]
           merged == mergeMissingWorkflows(j.edited, j.overlaps)
           x == [j EXCEPT !.edited = merged, !.pc = "mergeSend"]
<1>1. j \in Jobs /\ Fits(b, j) /\ j.pc = "post" /\ serviceURI = j.edited /\ j.overlaps # {}
  BY DEF PairInv, Fits, Clobbered, At
<1>2. /\ merged \in Documents /\ j.edited \subseteq merged
      /\ \A w, o : o \in j.overlaps /\ w \in o => w \in merged
  BY <1>1 DEF mergeMissingWorkflows, Jobs, Documents
<1>3. x \in Jobs /\ x.pc = "mergeSend" /\ x.checkpoint = j.checkpoint /\ x.op = j.op /\ x.workflow = j.workflow
      /\ x.edited = merged /\ x.overlaps = j.overlaps
  BY <1>1, <1>2 DEF Jobs, Writing
<1>4. job' = [job EXCEPT ![b] = IF merged = j.edited THEN Retried(j) ELSE x]
  BY DEF Clobbered
<1> HIDE DEF x, merged
<1>5. \A w \in Workflows : Restores(w, j) => w \in merged
  BY <1>1, <1>2 DEF Restores
<1>6. CASE merged = j.edited
  <2>1. \A w \in added \ Preinstalled : Home[w] # b => w \in serviceURI
    BY <1>1, <1>5, <1>6, MutationAssumption DEF Fits, PairInv, PairTypes
  <2>2. j.pc \in Writing
    BY <1>1 DEF Writing
  <2>3. job' = [job EXCEPT ![b] = Retried(j)]
    BY <1>4, <1>6
  <2> QED BY <1>1, <2>1, <2>2, <2>3, RetryFitsPair, PairThinks DEF Clobbered, Mining
<1>7. CASE merged # j.edited
  <2>1. Shaped(x) /\ (x.op = "add" => x.workflow \in x.edited)
    BY <1>1, <1>2, <1>3 DEF Fits, Shaped, Writing, Nudging, Written
  <2>2. \A w \in Workflows : Rescues(w, j) => Rescues(w, x)
    BY <1>1, <1>2, <1>3 DEF Rescues
  <2>3. \A w \in Workflows : Restores(w, j) => Restores(w, x)
    BY <1>3, <1>5 DEF Restores
  <2>4. \A w \in Preinstalled \ leaving : w \in x.edited /\ \A o \in x.overlaps : w \in o
    BY <1>1, <1>2, <1>3 DEF Fits, Written
  <2>5. Fits(b, x)
    BY <1>1, <1>3, <2>1, <2>2, <2>3, <2>4 DEF Fits, AsRead, Nudging, Written, PairInv, PairTypes
  <2>6. job' = [job EXCEPT ![b] = x]
    BY <1>4, <1>7
  <2> QED BY <1>1, <1>3, <2>5, <2>6, PairThinks DEF Clobbered, Mining
<1> QED BY <1>6, <1>7

\* A job that was overwritten finds in the document what its peer added.
LEMMA PairLost ==
  ASSUME NEW s, NEW t, Pair(s, t), PairInv, NEW b \in Servers, Lost(b)
  PROVE  PairInv'
<1>1. job[b].pc = "post" /\ serviceURI # job[b].edited /\ Fits(b, job[b])
  BY DEF Lost, At, PairInv
<1>2. \A w \in added \ Preinstalled : Home[w] # b => w \in serviceURI
  BY <1>1, MutationAssumption DEF Fits, Restores, PairInv, PairTypes
<1> QED BY <1>1, <1>2, RetryFitsPair, PairThinks DEF Lost, Writing, Mining

\* A mutation starts: it is the only one of its server.
LEMMA PairStart ==
  ASSUME NEW s, NEW t, Pair(s, t), PairInv, NEW b \in Servers, NEW w \in Workflows, NEW op \in {"add", "remove"},
         TailFree(b), Home[w] = b, mutations[b] < MutationBudget,
         mutations' = [mutations EXCEPT ![b] = @ + 1],
         StartJob(b, op, w, "checkpoint"),
         op = "add" => w \notin added /\ leaving' = leaving,
         op = "remove" => w \in added \ removed /\ leaving' = leaving \cup {w},
         UNCHANGED <<chainVars, added, removed, nudges, failures>>
  PROVE  PairInv'
<1> DEFINE x == [NoJob EXCEPT !.op = op, !.workflow = w, !.pc = "checkpoint"]
<1>1. x \in Jobs /\ x.pc = "checkpoint" /\ x.op = op /\ x.workflow = w /\ x.checkpoint = 0 /\ x.overlaps = {}
  BY DEF NoJob, Jobs, Documents, Writing
<1>2. job[b].pc = "none" /\ Fits(b, job[b])
  BY DEF TailFree, At, PairInv
<1>3. job' \in [Servers -> Jobs] /\ job'[b] = x /\ \A c \in Servers \ {b} : job'[c] = job[c]
  BY <1>1 DEF StartJob, PairInv, PairTypes, ServiceTypes
<1> HIDE DEF x
<1>4. mutations[b] = 0 /\ mutations' \in [Servers -> Nat] /\ mutations'[b] = 1
      /\ \A c \in Servers \ {b} : mutations'[c] = mutations[c]
  BY DEF PairInv, PairTypes, Pair
<1>5. leaving \subseteq leaving' /\ leaving' \subseteq added /\ (op = "remove" => w \in leaving')
  BY DEF PairInv, Reports
<1>6. PairTypes' /\ Reports' /\ Kept'
  BY <1>3, <1>4, <1>5 DEF PairInv, PairTypes, ServiceTypes, Reports, Kept, chainVars
<1>7. \A i \in 1 .. Len(mempool) : mempool[i].by \in Servers \ {b}
  BY <1>2 DEF PairInv, Sent, Mining
<1>8. Sent'
  BY <1>3, <1>7 DEF PairInv, Sent, chainVars
<1>9. \A a \in Servers, v \in Workflows : AddedBy(a, v)' => AddedBy(a, v)
  BY <1>3, <1>4 DEF AddedBy
<1>10. Fits(b, job[b])'
  <2>1. Shaped(x)'
    BY <1>1, <1>5 DEF Shaped, Writing, Nudging
  <2>2. \A v \in added \ Preinstalled : Home[v] # b
    BY <1>2, <1>4 DEF Fits
  <2>3. \A v \in Workflows : Rescues(v, x)'
    BY <1>1 DEF Rescues
  <2>4. \A v \in Workflows : Restores(v, job[b]) => Restores(v, x)'
    BY <1>1, <1>2 DEF Restores, chainVars
  <2>5. added \subseteq Workflows /\ head \in Nat
    BY DEF PairInv, PairTypes, ServiceTypes
  <2>6. AsRead(x)' /\ x.checkpoint <= head
    BY <1>1, <2>5 DEF AsRead
  <2>7. \A a \in Servers \ {b}, v \in added \ Preinstalled : Home[v] = a => Restores(v, x)'
    BY <1>2, <2>4, <2>5 DEF Fits
  <2> QED BY <1>1, <1>3, <1>4, <2>1, <2>2, <2>3, <2>6, <2>7 DEF Fits, Nudging, Written, chainVars
<1>11. ASSUME NEW c \in Servers \ {b}, NEW y, Fits(c, y), y = job'[c] PROVE Fits(c, job[c])'
  <2>1. Fits(c, y) /\ job'[c] = y
    BY <1>11
  <2>2. Shaped(y)'
    BY <1>5, <2>1 DEF Fits, Shaped
  <2>3. \A v : (Rescues(v, y) => Rescues(v, y)') /\ (Restores(v, y) => Restores(v, y)')
    BY DEF Rescues, Restores, chainVars
  <2>4. AsRead(y)'
    BY <2>1 DEF Fits, AsRead, EditOf, chainVars
  <2> QED BY <1>4, <1>5, <1>9, <2>1, <2>2, <2>3, <2>4 DEF Fits, chainVars
<1>12. \A c \in Servers \ {b} : Fits(c, job'[c])
  BY <1>3 DEF PairInv
<1> QED BY <1>6, <1>8, <1>10, <1>11, <1>12 DEF PairInv

\* A mutation is reported: its peer's job sees the document as it is, or finds it when it scans.
LEMMA PairReport ==
  ASSUME NEW s, NEW t, Pair(s, t), PairInv, NEW b \in Servers, Succeeds(b),
         UNCHANGED <<chainVars, budgetVars>>,
         job[b].pc \in {"read", "post"}, job[b].pc = "post" => job[b].overlaps = {},
         job[b].op = "add" => job[b].workflow \in serviceURI
  PROVE  PairInv'
<1> DEFINE j == job[b]
           w == j.workflow
<1>1. /\ job' = [job EXCEPT ![b] = NoJob] /\ leaving' = leaving
      /\ added' = IF j.op = "add" THEN added \cup {w} ELSE added
      /\ removed' = IF j.op = "remove" THEN removed \cup {w} ELSE removed
  BY DEF Succeeds, Ends
<1>2. job' \in [Servers -> Jobs] /\ job'[b] = NoJob /\ \A c \in Servers \ {b} : job'[c] = job[c]
  BY <1>1, NoJobIsJob DEF PairInv, PairTypes, ServiceTypes
<1>3. /\ Fits(b, j) /\ j.pc \in Writing /\ j.op \in {"add", "remove"}
      /\ w \in Workflows /\ Home[w] = b /\ mutations[b] # 0
  BY DEF PairInv, Fits, Shaped, Writing
<1>4. (j.op = "add" => w \notin added) /\ (j.op = "remove" => w \in leaving \ removed)
  BY <1>3 DEF Fits, Shaped
<1>5. PairTypes' /\ Reports' /\ Kept'
  BY <1>1, <1>2, <1>3, <1>4 DEF PairInv, PairTypes, ServiceTypes, Reports, Kept, chainVars, budgetVars
<1>6. \A i \in 1 .. Len(mempool) : mempool[i].by \in Servers \ {b}
  BY DEF PairInv, Sent, Mining
<1>7. Sent'
  BY <1>2, <1>6 DEF PairInv, Sent, chainVars
<1>8. \A a \in Servers, v \in Workflows : AddedBy(a, v)' => AddedBy(a, v)
  BY <1>1, <1>2, <1>3 DEF AddedBy, budgetVars, NoJob
<1>9. Fits(b, job[b])'
  <2>1. NoJob.pc = "none" /\ NoJob.checkpoint = 0 /\ NoJob.overlaps = {} /\ NoJob \in Jobs
    BY NoJobIsJob DEF NoJob
  <2>2. Shaped(NoJob)' /\ AsRead(NoJob)' /\ \A v \in Workflows : Rescues(v, NoJob)'
    BY DEF Shaped, AsRead, Rescues, NoJob, Writing, Nudging
  <2>3. ASSUME NEW a \in Servers \ {b}, NEW v \in added' \ Preinstalled, Home[v] = a
        PROVE  Restores(v, NoJob)'
    <3>1. v \in added
      BY <1>1, <1>3, <2>3
    <3>2. Restores(v, j)
      BY <1>3, <2>3, <3>1 DEF Fits
    <3>3. v \in serviceURI
      BY <3>2 DEF Restores
    <3> QED BY <2>1, <3>3 DEF Restores, chainVars
  <2>4. head' \in Nat
    BY <1>5 DEF PairTypes, ServiceTypes
  <2> QED BY <1>2, <1>3, <2>1, <2>2, <2>3, <2>4 DEF Fits, Nudging, Written, budgetVars
<1>10. ASSUME NEW c \in Servers \ {b}, NEW y, Fits(c, y), y = job'[c] PROVE Fits(c, job[c])'
  <2>1. Fits(c, y) /\ job'[c] = y
    BY <1>10
  <2>2. y.pc # "none" => y.workflow # w
    BY <1>3, <2>1 DEF Fits
  <2>3. Shaped(y)'
    BY <1>1, <2>1, <2>2 DEF Fits, Shaped, NoJob
  <2>4. \A v : (Rescues(v, y) => Rescues(v, y)') /\ (Restores(v, y) => Restores(v, y)')
    BY DEF Rescues, Restores, chainVars
  <2>5. AsRead(y)'
    BY <2>1 DEF Fits, AsRead, EditOf, chainVars
  <2>6. \A v \in added' : v \in added \/ (v = w /\ j.op = "add")
    BY <1>1
  <2>7. j.op = "add" => Restores(w, y)
    <3>1. SUFFICES ASSUME j.op = "add" PROVE Restores(w, y)
      OBVIOUS
    <3>2. w \notin Preinstalled
      BY <1>4, <3>1 DEF PairInv, PairTypes
    <3>3. Rescues(w, y)
      BY <1>3, <2>1, <3>1, <3>2 DEF Fits, AddedBy
    <3>4. w \in serviceURI /\ (y.pc \in {"send", "mining"} => w \in EditOf(y) \/ y.edited # EditOf(y))
      BY <2>2, <3>1 DEF EditOf, addLoopWorkflow, removeLoopWorkflow
    <3> QED BY <2>1, <3>3, <3>4 DEF Fits, AsRead, Rescues, Restores
  <2>8. \A a \in Servers \ {c}, v \in added' \ Preinstalled : Home[v] = a => Restores(v, y)'
    BY <2>1, <2>4, <2>6, <2>7 DEF Fits
  <2>9. \A v \in added' \ Preinstalled : Home[v] = c => v \in added
    BY <1>3, <2>6
  <2>10. (y.checkpoint <= head)' /\ UNCHANGED <<mutations, leaving>>
    BY <1>1, <2>1 DEF Fits, chainVars, budgetVars
  <2> QED BY <1>8, <2>1, <2>3, <2>4, <2>5, <2>8, <2>9, <2>10 DEF Fits
<1>11. \A c \in Servers \ {b} : Fits(c, job'[c])
  BY <1>2 DEF PairInv
<1> QED BY <1>5, <1>7, <1>9, <1>10, <1>11 DEF PairInv

\* The edit has nothing to do.
LEMMA PairNoop ==
  ASSUME NEW s, NEW t, Pair(s, t), PairInv, NEW b \in Servers, EditIsNoop(b)
  PROVE  PairInv'
<1>1. job[b].pc = "read" /\ (job[b].op = "add" => job[b].workflow \in serviceURI)
  BY DEF EditIsNoop, At
<1> QED BY <1>1, PairReport DEF EditIsNoop

\* The edit is in place, and nobody was overwritten.
LEMMA PairVerified ==
  ASSUME NEW s, NEW t, Pair(s, t), PairInv, NEW b \in Servers, Verified(b)
  PROVE  PairInv'
<1>1. job[b].pc = "post" /\ job[b].overlaps = {} /\ serviceURI = job[b].edited
  BY DEF Verified, At
<1>2. job[b].op = "add" => job[b].workflow \in serviceURI
  BY <1>1 DEF PairInv, Fits, Written
<1> QED BY <1>1, <1>2, PairReport DEF Verified

\* A transaction is sent: its sender had none in the queue.
LEMMA PairSend ==
  ASSUME NEW s, NEW t, Pair(s, t), PairInv, NEW b \in Servers, NEW pc, NEW next, setServiceUri(b, pc, next),
         <<pc, next>> \in {<<"send", "mining">>, <<"mergeSend", "mergeMining">>}
  PROVE  PairInv'
<1> DEFINE j == job[b]
           tx == [by |-> b, uri |-> j.edited]
           x == [j EXCEPT !.pc = next]
<1>1. j \in Jobs /\ j.pc = pc /\ Fits(b, j) /\ mempool' = Append(mempool, tx) /\ mempool \in Seq(Transactions)
      /\ UNCHANGED <<head, serviceURI, updates, reportVars, budgetVars>>
  BY DEF PairInv, PairTypes, ServiceTypes, setServiceUri, At
<1>2. tx \in Transactions
  BY <1>1 DEF Transactions, Jobs
<1>3. job' = [job EXCEPT ![b] = x] /\ x \in Jobs /\ x.pc = next /\ x.edited = j.edited /\ x.overlaps = j.overlaps
      /\ x.checkpoint = j.checkpoint /\ x.op = j.op /\ x.workflow = j.workflow
  BY <1>1 DEF setServiceUri, PairInv, PairTypes, ServiceTypes, Jobs, Writing
<1>4. job' \in [Servers -> Jobs] /\ job'[b] = x /\ \A c \in Servers \ {b} : job'[c] = job[c]
  BY <1>3 DEF PairInv, PairTypes, ServiceTypes
<1>5. /\ mempool' \in Seq(Transactions) /\ Len(mempool') = Len(mempool) + 1 /\ Len(mempool) \in Nat
      /\ \A i \in 1 .. Len(mempool) : mempool'[i] = mempool[i]
      /\ mempool'[Len(mempool')] = tx
  BY <1>1, <1>2, AppendProperties
<1>6. \A i \in 1 .. Len(mempool') : i \in 1 .. Len(mempool) \/ i = Len(mempool')
  BY <1>5
<1> HIDE DEF x
<1>7. \A i \in 1 .. Len(mempool) : mempool[i].by \in Servers \ {b}
  BY <1>1 DEF PairInv, Sent, Mining
<1>8. j.pc \in Written /\ next \in Mining /\ next \in Written
  BY <1>1 DEF Mining, Written
<1>9. PairTypes' /\ Reports'
  BY <1>1, <1>4, <1>5 DEF PairInv, PairTypes, ServiceTypes, Reports, reportVars, budgetVars
<1>10. Kept'
  <2>1. \A v \in Preinstalled \ leaving : v \in tx.uri
    BY <1>1, <1>8 DEF Fits
  <2> QED BY <1>1, <1>5, <1>6, <2>1 DEF PairInv, Kept, reportVars
<1>11. Sent'
  <2>1. \A i \in 1 .. Len(mempool') :
          /\ mempool'[i].by \in Servers
          /\ job'[mempool'[i].by].pc \in Mining /\ mempool'[i].uri = job'[mempool'[i].by].edited
    BY <1>3, <1>4, <1>5, <1>6, <1>7, <1>8 DEF PairInv, Sent
  <2>2. \A i, k \in 1 .. Len(mempool') : mempool'[i].by = mempool'[k].by => i = k
    BY <1>5, <1>6, <1>7 DEF PairInv, Sent
  <2> QED BY <2>1, <2>2 DEF Sent
<1>12. \A a \in Servers, v \in Workflows : AddedBy(a, v)' => AddedBy(a, v)
  BY <1>1, <1>3, <1>4 DEF AddedBy, reportVars, budgetVars
<1>13. Fits(b, x)
  <2>1. Shaped(x)
    BY <1>1, <1>3 DEF Fits, Shaped, Writing, Nudging
  <2>2. AsRead(x)
    BY <1>1, <1>3 DEF Fits, AsRead, EditOf
  <2>3. \A v : (Rescues(v, j) => Rescues(v, x)) /\ (Restores(v, j) => Restores(v, x))
    BY <1>1, <1>3 DEF Rescues, Restores
  <2>4. \A v \in added \ Preinstalled : Home[v] # b
    BY <1>1, <1>8 DEF Fits, Written
  <2>5. mutations[b] # 0 /\ Home[x.workflow] = b
    BY <1>1, <1>3 DEF Fits
  <2>6. x.pc \in Written \ Nudging
    BY <1>3, <1>8 DEF Written, Nudging
  <2>7. (x.op = "add" => x.workflow \in x.edited) /\ x.checkpoint <= head
    BY <1>1, <1>3, <1>8 DEF Fits
  <2>8. \A v \in Preinstalled \ leaving : v \in x.edited /\ \A o \in x.overlaps : v \in o
    BY <1>1, <1>3, <1>8 DEF Fits
  <2>9. added \subseteq Workflows
    BY DEF PairInv, PairTypes
  <2>10. /\ \A a \in Servers \ {b}, v \in Workflows : AddedBy(a, v) => Rescues(v, x)
         /\ \A a \in Servers \ {b}, v \in added \ Preinstalled : Home[v] = a => Restores(v, x)
    BY <1>1, <2>3, <2>9 DEF Fits
  <2> QED BY <1>3, <2>1, <2>2, <2>4, <2>5, <2>6, <2>7, <2>8, <2>10 DEF Fits
<1>14. ASSUME NEW c \in Servers, NEW y, Fits(c, y), y = job'[c] PROVE Fits(c, job[c])'
  BY <1>1, <1>12, <1>14 DEF Fits, Shaped, AsRead, EditOf, Rescues, Restores, reportVars, budgetVars
<1>15. \A c \in Servers : Fits(c, job'[c])
  BY <1>4, <1>13 DEF PairInv
<1> QED BY <1>9, <1>10, <1>11, <1>14, <1>15 DEF PairInv

\* What the receipt of a transaction mined in block makes of job j: y scans next, starts again, or has ended.
PairReceipt(j, block, y) ==
    /\ y \in Jobs
    /\ \/ j.pc = "mergeMining" /\ y = NoJob
       \/ /\ y.op = j.op /\ y.workflow = j.workflow /\ y.checkpoint = j.checkpoint
          /\ y.edited = j.edited /\ y.overlaps = j.overlaps
          /\ \/ j.pc = "mining" /\ y.pc = "scan" /\ y.writeBlock = block
             \/ j.pc = "mergeMining" /\ y.pc = "checkpoint"

\* A receipt is of an edit or of a merge: nobody nudges.
LEMMA ReceiptOfPair ==
  ASSUME NEW s, NEW t, Pair(s, t), PairInv, NEW b \in Servers, job[b].pc \in Mining, NEW block \in Nat
  PROVE  PairReceipt(job[b], block, WithReceipt(job[b], block))
<1> DEFINE j == job[b]
<1>1. j \in Jobs /\ j.pc \in {"mining", "mergeMining"}
  BY DEF PairInv, Fits, Mining, Nudging
<1>2. CASE j.pc = "mining"
  BY <1>1, <1>2 DEF WithReceipt, PairReceipt, Jobs, Writing
<1>3. CASE j.pc = "mergeMining"
  <2>1. WithReceipt(j, block) = Retried(j)
    BY <1>3 DEF WithReceipt
  <2>2. /\ Retried(j) \in Jobs
        /\ \/ Retried(j) = NoJob
           \/ /\ Retried(j).pc = "checkpoint" /\ Retried(j).checkpoint = j.checkpoint
              /\ Retried(j).op = j.op /\ Retried(j).workflow = j.workflow
              /\ Retried(j).edited = j.edited /\ Retried(j).overlaps = j.overlaps
    BY <1>1, RetryIsJob
  <2> QED BY <1>3, <2>1, <2>2 DEF PairReceipt
<1> QED BY <1>1, <1>2, <1>3

\* What a block of n transactions does to the queue.
LEMMA MinedQueue ==
  ASSUME NEW s, NEW t, Pair(s, t), PairInv, NEW n \in 1 .. Len(mempool), Mine(n)
  PROVE  /\ n \in Nat /\ n >= 1 /\ Len(mempool) \in Nat /\ n <= Len(mempool)
         /\ \A i \in 1 .. Len(mempool) : mempool[i] \in Transactions
         /\ mempool' \in Seq(Transactions) /\ Len(mempool') = Len(mempool) - n
         /\ \A i \in 1 .. Len(mempool') : mempool'[i] = mempool[n + i] /\ n + i \in 1 .. Len(mempool)
<1>1. /\ mempool \in Seq(Transactions) /\ Len(mempool) \in Nat
      /\ mempool' = SubSeq(mempool, n + 1, Len(mempool)) /\ n \in Nat /\ n >= 1 /\ n <= Len(mempool)
  BY DEF PairInv, PairTypes, ServiceTypes, Mine
<1>2. \A i \in 1 .. Len(mempool) : mempool[i] \in Transactions
  BY <1>1
<1>3. /\ SubSeq(mempool, n + 1, Len(mempool)) \in Seq(Transactions)
      /\ Len(SubSeq(mempool, n + 1, Len(mempool))) =
           IF n + 1 <= Len(mempool) THEN Len(mempool) - (n + 1) + 1 ELSE 0
      /\ \A i \in 1 .. Len(mempool) - (n + 1) + 1 :
           SubSeq(mempool, n + 1, Len(mempool))[i] = mempool[n + 1 + i - 1]
  <2>1. n + 1 \in Int /\ Len(mempool) \in Int /\ \A i \in n + 1 .. Len(mempool) : mempool[i] \in Transactions
    BY <1>1, <1>2
  <2> QED BY <2>1, SubSeqProperties
<1>4. Len(mempool') = Len(mempool) - n
  BY <1>1, <1>3
<1> QED BY <1>1, <1>2, <1>3, <1>4

\* A block takes transactions from the front.  What a server did not wait for is in the events
\* after its checkpoint, and a server whose peer is done is the only one that has a transaction.
LEMMA PairMine ==
  ASSUME NEW s, NEW t, Pair(s, t), PairInv, NEW n \in 1 .. Len(mempool), Mine(n)
  PROVE  PairInv'
<1> DEFINE block == head + 1
           Mined(b) == \E i \in 1 .. n : mempool[i].by = b
           landed == {[block |-> block, uri |-> mempool[i].uri] : i \in 1 .. n}
<1>1. /\ n \in Nat /\ n >= 1 /\ Len(mempool) \in Nat /\ n <= Len(mempool)
      /\ \A i \in 1 .. Len(mempool) : mempool[i] \in Transactions
      /\ mempool' \in Seq(Transactions) /\ Len(mempool') = Len(mempool) - n
      /\ \A i \in 1 .. Len(mempool') : mempool'[i] = mempool[n + i] /\ n + i \in 1 .. Len(mempool)
  BY MinedQueue
<1>2. /\ head' = block /\ serviceURI' = mempool[n].uri /\ updates' = updates \cup landed
      /\ UNCHANGED <<reportVars, budgetVars>> /\ head \in Nat /\ block \in Nat
  BY DEF Mine, PairInv, PairTypes, ServiceTypes
<1>3. \A b \in Servers : job'[b] = IF Mined(b) THEN WithReceipt(job[b], block) ELSE job[b]
  <2>1. job' = [r \in Servers |-> IF r \in {mempool[i].by : i \in 1 .. n}
                                   THEN WithReceipt(job[r], block) ELSE job[r]]
    BY DEF Mine
  <2>2. \A b \in Servers : b \in {mempool[i].by : i \in 1 .. n} <=> Mined(b)
    OBVIOUS
  <2> HIDE DEF Mined
  <2> QED BY <2>1, <2>2
<1>4. \A i \in 1 .. Len(mempool) :
         /\ mempool[i].by \in Servers /\ job[mempool[i].by].pc \in Mining
         /\ mempool[i].uri = job[mempool[i].by].edited
  BY DEF PairInv, Sent
<1>5. \A i, k \in 1 .. Len(mempool) : mempool[i].by = mempool[k].by => i = k
  BY DEF PairInv, Sent
<1>6. \A i \in 1 .. n : i \in 1 .. Len(mempool)
  BY <1>1
<1>7. \A b \in Servers : Mined(b) => PairReceipt(job[b], block, job'[b])
  <2>1. SUFFICES ASSUME NEW b \in Servers, Mined(b) PROVE PairReceipt(job[b], block, job'[b])
    OBVIOUS
  <2>2. job[b].pc \in Mining
    BY <1>4, <1>6, <2>1
  <2>3. job'[b] = WithReceipt(job[b], block)
    BY <1>3, <2>1
  <2> QED BY <1>2, <2>2, <2>3, ReceiptOfPair
<1>8. landed \subseteq Events /\ mempool[n].uri \in Documents /\ mempool[n] \in Transactions
      /\ \A u \in landed : u.block = block /\ \E i \in 1 .. n : u.uri = mempool[i].uri
  <2>1. \A i \in 1 .. n : mempool[i].uri \in Documents
    BY <1>1, <1>6 DEF Transactions
  <2>2. n \in 1 .. n
    BY <1>1
  <2> QED BY <1>1, <1>2, <1>6, <2>1, <2>2 DEF Events
<1>9. [block |-> block, uri |-> serviceURI'] \in landed
  BY <1>1, <1>2
<1> HIDE DEF Mined, landed
<1>10. job' \in [Servers -> Jobs] /\ \A b \in Servers : job'[b] \in Jobs
  <2>1. \A b \in Servers : job'[b] \in Jobs
    BY <1>3, <1>7 DEF PairReceipt, PairInv, PairTypes, ServiceTypes
  <2>2. job' = [b \in Servers |-> job'[b]]
    BY DEF Mine
  <2> QED BY <2>1, <2>2
<1>11. PairTypes' /\ Reports'
  <2>1. \A u \in updates' : u.block <= block
    BY <1>2, <1>8 DEF PairInv, PairTypes, ServiceTypes, Events
  <2>2. updates' \subseteq Events /\ serviceURI' \in Documents
    BY <1>2, <1>8 DEF PairInv, PairTypes, ServiceTypes
  <2> HIDE DEF block
  <2> QED BY <1>1, <1>2, <1>10, <2>1, <2>2 DEF PairInv, PairTypes, ServiceTypes, Reports, reportVars, budgetVars
<1>12. Kept'
  BY <1>1, <1>2, <1>6, <1>8 DEF PairInv, Kept, reportVars
<1>13. Sent'
  <2>1. ASSUME NEW i \in 1 .. Len(mempool')
        PROVE  /\ mempool'[i].by \in Servers
               /\ job'[mempool'[i].by].pc \in Mining /\ mempool'[i].uri = job'[mempool'[i].by].edited
    <3>1. mempool'[i] = mempool[n + i] /\ n + i \in 1 .. Len(mempool) /\ \A k \in 1 .. n : k # n + i
      BY <1>1, <2>1
    <3>2. ~Mined(mempool[n + i].by)
      BY <1>5, <1>6, <3>1 DEF Mined
    <3> QED BY <1>3, <1>4, <3>1, <3>2
  <2>2. ASSUME NEW i \in 1 .. Len(mempool'), NEW k \in 1 .. Len(mempool'), mempool'[i].by = mempool'[k].by
        PROVE  i = k
    <3>1. n + i \in 1 .. Len(mempool) /\ n + k \in 1 .. Len(mempool) /\ mempool[n + i].by = mempool[n + k].by
      BY <1>1, <2>2
    <3>2. n + i = n + k
      BY <1>5, <3>1
    <3> QED BY <1>1, <2>2, <3>2
  <2> QED BY <2>1, <2>2 DEF Sent
<1>14. \A a \in Servers, v \in Workflows : AddedBy(a, v)' => AddedBy(a, v)
  <2>1. \A a \in Servers : job'[a].op = "add" => job[a].op = "add" /\ job[a].workflow = job'[a].workflow
    <3>1. SUFFICES ASSUME NEW a \in Servers, job'[a].op = "add"
                   PROVE  job[a].op = "add" /\ job[a].workflow = job'[a].workflow
      OBVIOUS
    <3>2. CASE ~Mined(a)
      BY <1>3, <3>1, <3>2
    <3>3. CASE Mined(a)
      <4>1. PairReceipt(job[a], block, job'[a]) /\ job[a] \in Jobs
        BY <1>7, <3>3 DEF PairInv, PairTypes, ServiceTypes
      <4> QED BY <3>1, <4>1 DEF PairReceipt, NoJob, Jobs
    <3> QED BY <3>2, <3>3
  <2> QED BY <1>2, <2>1 DEF AddedBy, reportVars, budgetVars
<1>15. ASSUME NEW a \in Servers, NEW v \in added \ Preinstalled, Home[v] = a, NEW b \in Servers \ {a}
       PROVE  Mined(b) /\ serviceURI' = job[b].edited
  <2>1. job[a].pc = "none"
    BY <1>15 DEF PairInv, Fits
  <2>2. \A i \in 1 .. Len(mempool) : mempool[i].by = b
    BY <1>4, <1>15, <2>1 DEF Mining, Pair
  <2>3. 1 \in 1 .. Len(mempool) /\ n \in 1 .. Len(mempool)
    BY <1>1
  <2>4. n = 1
    BY <1>5, <2>2, <2>3
  <2>5. 1 \in 1 .. n
    BY <2>4
  <2> QED BY <1>2, <1>4, <2>2, <2>3, <2>5 DEF Mined
<1>16. ASSUME NEW b \in Servers, ~Mined(b), NEW a \in Servers \ {b}, NEW v \in Workflows, AddedBy(a, v)
       PROVE  \A u \in landed : v \in u.uri
  <2>1. SUFFICES ASSUME NEW i \in 1 .. n PROVE v \in mempool[i].uri
    BY <1>8
  <2>2. mempool[i].by = a
    BY <1>4, <1>6, <1>16, <2>1 DEF Mined, Pair
  <2>3. job[a].pc \in Written \ {"none"} /\ mempool[i].uri = job[a].edited /\ Fits(a, job[a])
    BY <1>4, <1>6, <2>1, <2>2 DEF PairInv, Fits, Mining, Nudging, Written
  <2> QED BY <1>16, <2>3 DEF AddedBy, Fits
<1>17. ASSUME NEW b \in Servers, NEW y, y = job'[b], NEW j, j = job[b] PROVE Fits(b, job[b])'
  <2>1. j \in Jobs /\ y \in Jobs /\ Fits(b, j) /\ head \in Nat /\ j.checkpoint \in Nat /\ added \subseteq Workflows
    BY <1>2, <1>10, <1>17 DEF PairInv, PairTypes, ServiceTypes, Jobs
  <2>2. \A u \in updates : u.block \in Nat /\ u.block <= head
    BY DEF PairInv, PairTypes, ServiceTypes, Events
  <2>3. UNCHANGED <<added, leaving, removed, mutations>>
    BY <1>2 DEF reportVars, budgetVars
  <2>4. (\A a \in Servers \ {b}, v \in Workflows : AddedBy(a, v)' => AddedBy(a, v))
        /\ (\A a \in Servers \ {b}, v \in Workflows : AddedBy(a, v) => Rescues(v, j))
        /\ (\A a \in Servers \ {b}, v \in added \ Preinstalled : Home[v] = a => Restores(v, j))
    BY <1>14, <2>1 DEF Fits
  <2>5. Mined(b) => PairReceipt(j, block, y)
    BY <1>7, <1>17
  <2>6. ~Mined(b) => y = j
    BY <1>3, <1>17
  <2>7. Shaped(y)'
    <3>1. Shaped(y)
      BY <2>1, <2>5, <2>6 DEF Fits, PairReceipt, Shaped, NoJob, Writing, Nudging
    <3> QED BY <2>3, <3>1 DEF Shaped
  <2>8. /\ y.checkpoint <= head' /\ y.pc \notin Nudging
        /\ y.pc # "none" => mutations[b] # 0 /\ Home[y.workflow] = b
        /\ \A v \in added \ Preinstalled : Home[v] = b => y.pc = "none" /\ mutations[b] # 0
    <3>1. j.checkpoint <= block /\ 0 <= block
      BY <1>2, <2>1 DEF Fits
    <3> HIDE DEF block
    <3> QED BY <1>2, <2>1, <2>5, <2>6, <3>1 DEF Fits, PairReceipt, NoJob, Nudging
  <2>9. /\ y.pc \in Written /\ y.op = "add" => y.workflow \in y.edited
        /\ \A v \in Preinstalled \ leaving :
              (y.pc \in Written => v \in y.edited) /\ \A o \in y.overlaps : v \in o
    BY <2>1, <2>5, <2>6 DEF Fits, PairReceipt, NoJob, Written
  <2>10. AsRead(y)'
    <3>1. CASE Mined(b)
      BY <2>5, <3>1 DEF PairReceipt, AsRead, NoJob
    <3>2. CASE ~Mined(b)
      <4>1. block > j.checkpoint
        BY <2>1 DEF Fits
      <4> QED BY <1>2, <1>9, <2>6, <3>2, <4>1 DEF AsRead
    <3> QED BY <3>1, <3>2
  <2>11. ASSUME NEW a \in Servers \ {b}, NEW v \in Workflows, AddedBy(a, v)' PROVE Rescues(v, y)'
    <3>1. AddedBy(a, v) /\ Rescues(v, j)
      BY <2>4, <2>11
    <3>2. CASE Mined(b)
      <4>1. y.pc = "scan" => j.pc = "mining" /\ y.checkpoint = j.checkpoint /\ y.writeBlock = block
        BY <2>5, <3>2 DEF PairReceipt, NoJob
      <4>2. y.pc \in {"scan", "none", "checkpoint"}
        BY <2>5, <3>2 DEF PairReceipt, NoJob
      <4> QED BY <1>2, <1>8, <3>1, <4>1, <4>2 DEF Rescues
    <3>3. CASE ~Mined(b)
      <4>1. \A u \in landed : v \in u.uri
        BY <1>16, <2>11, <3>1, <3>3
      <4> QED BY <1>2, <2>6, <3>1, <3>3, <4>1 DEF Rescues
    <3> QED BY <3>2, <3>3
  <2>12. ASSUME NEW a \in Servers \ {b}, NEW v \in added \ Preinstalled, Home[v] = a PROVE Restores(v, y)'
    <3>1. Mined(b) /\ serviceURI' = j.edited
      BY <1>15, <1>17, <2>12
    <3>2. Restores(v, j)
      BY <2>4, <2>12
    <3>3. CASE j.pc = "mining"
      <4>1. y.pc = "scan" /\ y.checkpoint = j.checkpoint /\ y.writeBlock = block /\ y.edited = j.edited
        BY <2>5, <3>1, <3>3 DEF PairReceipt
      <4>2. v \in j.edited \/ \E u \in updates : u.block > j.checkpoint /\ v \in u.uri
        BY <3>2, <3>3 DEF Restores
      <4>3. \A u \in updates : u.block < block
        BY <1>2, <2>2
      <4> QED BY <1>2, <3>1, <4>1, <4>2, <4>3 DEF Restores
    <3>4. CASE j.pc = "mergeMining"
      <4>1. y.pc \in {"none", "checkpoint"}
        BY <2>5, <3>1, <3>4 DEF PairReceipt, NoJob
      <4>2. v \in serviceURI'
        BY <3>1, <3>2, <3>4 DEF Restores
      <4> QED BY <4>1, <4>2 DEF Restores
    <3> QED BY <2>5, <3>1, <3>3, <3>4 DEF PairReceipt
  <2> HIDE DEF block
  <2> QED BY <1>17, <2>1, <2>3, <2>7, <2>8, <2>9, <2>10, <2>11, <2>12 DEF Fits
<1>18. \A b \in Servers : Fits(b, job[b])'
  BY <1>17
<1> QED BY <1>11, <1>12, <1>13, <1>18 DEF PairInv

\* Every step keeps the invariant; a nudge and a failure are not in the budgets.
LEMMA PairStep == ASSUME NEW s, NEW t, Pair(s, t), PairInv, [Next]_vars PROVE PairInv'
<1>1. failures = 0 /\ nudges \in [Servers -> Nat] /\ \A b \in Servers : Fits(b, job[b])
  BY DEF PairInv, PairTypes
<1>2. ASSUME NEW b \in Servers, Start(b) PROVE PairInv'
  <2>1. CASE StartNudge(b)
    BY <1>1, <2>1 DEF StartNudge, Pair
  <2>2. ASSUME NEW w \in Workflows, StartAdd(b, w) PROVE PairInv'
    <3>1. "add" \in {"add", "remove"} /\ "add" # "remove"
      OBVIOUS
    <3> QED BY <2>2, <3>1, PairStart DEF StartAdd, reportVars
  <2>3. ASSUME NEW w \in Workflows, StartRemove(b, w) PROVE PairInv'
    <3>1. "remove" \in {"add", "remove"} /\ "add" # "remove"
      OBVIOUS
    <3> QED BY <2>3, <3>1, PairStart DEF StartRemove
  <2> QED BY <1>2, <2>1, <2>2, <2>3 DEF Start
<1>3. ASSUME NEW b \in Servers, Step(b) PROVE PairInv'
  <2>1. CASE setServiceUri(b, "send", "mining")
    BY <2>1, PairSend
  <2>2. CASE setServiceUri(b, "mergeSend", "mergeMining")
    BY <2>2, PairSend
  <2>3. CASE NudgeReads(b) \/ setServiceUri(b, "nudgeSend", "nudgeMining")
    BY <1>1, <2>3 DEF NudgeReads, setServiceUri, At, Fits, Nudging
  <2> QED BY <1>3, <2>1, <2>2, <2>3, PairCheckpoint, PairNoop, PairEdit, PairScan, PairVerified, PairClobbered,
             PairLost DEF Step
<1>4. ASSUME NEW b \in Servers, Fail(b) PROVE PairInv'
  BY <1>1, <1>4 DEF Fail, Pair
<1>5. ASSUME NEW b \in Servers, SendsAgain(b) PROVE PairInv'
  BY <1>1, <1>5 DEF SendsAgain, Resent, Pair
<1>6. CASE MineSome
  BY <1>6, PairMine DEF MineSome
<1>7. CASE UNCHANGED vars
  <2>1. UNCHANGED <<chainVars, job, reportVars, budgetVars>>
    BY <1>7 DEF vars
  <2>2. PairTypes' /\ Reports' /\ Sent' /\ Kept'
    BY <2>1 DEF PairInv, PairTypes, ServiceTypes, Reports, Sent, Kept, chainVars, reportVars, budgetVars
  <2>3. ASSUME NEW b \in Servers, NEW y, y = job[b], Fits(b, y) PROVE Fits(b, job[b])'
    <3>1. \A a \in Servers, v \in Workflows : AddedBy(a, v)' => AddedBy(a, v)
      BY <2>1 DEF AddedBy, reportVars, budgetVars
    <3> QED BY <2>1, <2>3, <3>1 DEF Fits, Shaped, AsRead, EditOf, Rescues, Restores, chainVars, reportVars, budgetVars
  <2> QED BY <1>1, <2>2, <2>3 DEF PairInv
<1> QED BY <1>2, <1>3, <1>4, <1>5, <1>6, <1>7 DEF Next

(***************************************************************************)
(* Two loop servers that edit service.json once each, with any workflows,  *)
(* lose none that was reported installed, in whatever order their calls    *)
(* and the blocks come, as long as no call fails: mutateService finds the  *)
(* update it overwrote between its checkpoint and its own block.           *)
(***************************************************************************)
THEOREM PairLosesNothing == ASSUME NEW s, NEW t, Pair(s, t) PROVE Spec => []NoLostWorkflow
<1>1. Init => PairInv
  BY PairInit
<1>2. PairInv /\ [Next]_vars => PairInv'
  BY PairStep
<1>3. PairInv => NoLostWorkflow
  <2>1. SUFFICES ASSUME PairInv, \A b \in Servers : job[b].pc = "none", NEW w \in added \ leaving
                 PROVE  w \in serviceURI
    BY DEF NoLostWorkflow, Quiet, TailFree, At
  <2>2. CASE w \in Preinstalled
    BY <2>1, <2>2 DEF PairInv, Kept
  <2>3. CASE w \notin Preinstalled
    <3>1. w \in Workflows /\ Home[w] \in {s, t}
      BY <2>1, MutationAssumption DEF PairInv, PairTypes, Pair
    <3>2. PICK b \in Servers : b # Home[w]
      BY <3>1 DEF Pair
    <3>3. Restores(w, job[b])
      BY <2>1, <2>3, <3>1, <3>2 DEF PairInv, Fits, Pair
    <3> QED BY <2>1, <3>2, <3>3 DEF Restores
  <2> QED BY <2>2, <2>3
<1> QED BY <1>1, <1>2, <1>3, PTL DEF Spec

(***************************************************************************)
(* Signed intents                                                          *)
(***************************************************************************)

Received ==
    [pc : {"none", "recovering", "answered"}, intent : Intents, text : Texts, at : Nat]

Uses == [intent : Intents, text : Texts, at : Nat, by : Requests, run : Nat]

\* Types.
ReplayTypes ==
    /\ now \in Nat /\ restarts \in Nat
    /\ signedAt \in [Intents -> Nat]
    /\ DOMAIN entries \subseteq Texts
    /\ entries \in [DOMAIN entries -> Nat]
    /\ request \in [Requests -> Received]
    /\ accepted \subseteq Uses

\* A request between its two checks was fresh a moment ago.
RecoveringFresh ==
    \A r \in Requests : request[r].pc = "recovering" =>
        /\ request[r].at <= now /\ now <= request[r].at + RecoverySeconds
        /\ request[r].at - signedAt[request[r].intent] <= MaxAge
        /\ request[r].at - signedAt[request[r].intent] >= -MaxSkew

\* What was acted upon is the strategist's, dated in the past and in its window.
UsedInWindow ==
    \A a \in accepted :
        /\ a.text \in Authentic[a.intent]
        /\ a.at <= now /\ a.run <= restarts
        /\ a.at >= signedAt[a.intent] - MaxSkew
        /\ a.at <= signedAt[a.intent] + MaxAge + RecoverySeconds

\* What was acted upon by this process is in the map, or too old to be.
Remembered ==
    \A a \in accepted : a.run = restarts =>
        \/ a.at + MaxAge <= now
        \/ a.text \in DOMAIN entries /\ a.at + MaxAge <= entries[a.text]

\* One run of the server comes after the other.
RunsInOrder == \A a, b \in accepted : a.run < b.run => a.at <= b.at

\* Two uses of a text by one process are the life of an entry apart.
UsesApart ==
    \A a, b \in accepted :
        a # b /\ a.text = b.text /\ a.run = b.run => a.at + MaxAge <= b.at \/ b.at + MaxAge <= a.at

\* The inductive invariant; both properties follow from it.
ReplayInv ==
    ReplayTypes /\ RecoveringFresh /\ UsedInWindow /\ Remembered /\ RunsInOrder /\ UsesApart

USE ReplayAssumption DEF Times

\* What a request holds before and after it is at work.
LEMMA ReceivedTypes == NotReceived \in Received /\ Answered \in Received /\ Answered.pc = "answered"
BY DEF NotReceived, Answered, Received

\* Nothing has been received: the invariant holds.
LEMMA ReplayInitInv == ReplayInit => ReplayInv
<1> SUFFICES ASSUME ReplayInit PROVE ReplayInv
    OBVIOUS
<1>1. ReplayTypes
    BY ReceivedTypes DEF ReplayInit, ReplayTypes
<1>2. RecoveringFresh
    BY DEF ReplayInit, RecoveringFresh, NotReceived
<1> QED BY <1>1, <1>2 DEF ReplayInit, ReplayInv, UsedInWindow, Remembered, RunsInOrder, UsesApart

\* A new request has just passed the freshness check.
LEMMA VerifyInv ==
    ASSUME ReplayInv, NEW r \in Requests, NEW i \in Intents, NEW x \in Texts, verifyLoop(r, i, x)
    PROVE  ReplayInv'
<1> DEFINE new == [pc |-> "recovering", intent |-> i, text |-> x, at |-> now]
<1>1. /\ request' = [request EXCEPT ![r] = new] /\ Fresh(i)
      /\ UNCHANGED <<now, signedAt, entries, restarts, accepted>>
    BY DEF verifyLoop
<1>2. new \in Received
    BY DEF ReplayInv, ReplayTypes, Received
<1>3. ReplayTypes'
    BY <1>1, <1>2 DEF ReplayInv, ReplayTypes
<1>4. RecoveringFresh'
    <2> SUFFICES ASSUME NEW q \in Requests, request'[q].pc = "recovering"
                 PROVE  /\ request'[q].at <= now /\ now <= request'[q].at + RecoverySeconds
                        /\ request'[q].at - signedAt[request'[q].intent] <= MaxAge
                        /\ request'[q].at - signedAt[request'[q].intent] >= -MaxSkew
        BY <1>1 DEF RecoveringFresh
    <2>1. CASE q = r
        BY <2>1, <1>1 DEF Fresh, ReplayInv, ReplayTypes
    <2>2. CASE q # r
        BY <2>2, <1>1 DEF ReplayInv, RecoveringFresh, ReplayTypes
    <2> QED BY <2>1, <2>2
<1> QED BY <1>1, <1>3, <1>4 DEF ReplayInv, UsedInWindow, Remembered, RunsInOrder, UsesApart

\* An answered request is no longer between its checks.
LEMMA AnswerInv ==
    ASSUME ReplayTypes, RecoveringFresh, NEW r \in Requests, Answer(r), UNCHANGED <<now, signedAt>>
    PROVE  /\ request' \in [Requests -> Received]
           /\ RecoveringFresh'
<1>1. request' \in [Requests -> Received]
    BY ReceivedTypes DEF Answer, ReplayTypes
<1>2. \A q \in Requests : request'[q].pc = "recovering" => request'[q] = request[q]
    BY ReceivedTypes DEF Answer, ReplayTypes
<1> QED BY <1>1, <1>2 DEF RecoveringFresh

\* A refused signature leaves the map and the history alone.
LEMMA UnauthorizedInv ==
    ASSUME ReplayInv, NEW r \in Requests, Unauthorized(r)
    PROVE  ReplayInv'
<1>1. request' \in [Requests -> Received] /\ RecoveringFresh'
    BY AnswerInv DEF Unauthorized, ReplayInv
<1> QED BY <1>1 DEF Unauthorized, ReplayInv, ReplayTypes, UsedInWindow, Remembered, RunsInOrder,
                    UsesApart

\* Sweeping the map forgets nothing that is not MaxAge seconds old.
LEMMA ReplayedInv ==
    ASSUME ReplayInv, NEW r \in Requests, ReplayedIntent(r)
    PROVE  ReplayInv'
<1>1. request' \in [Requests -> Received] /\ RecoveringFresh'
    BY AnswerInv DEF ReplayedIntent, ReplayInv
<1>2. entries' = [x \in Live |-> entries[x]] /\ UNCHANGED <<now, signedAt, restarts, accepted>>
    BY DEF ReplayedIntent
<1>3. Live \subseteq DOMAIN entries /\ \A x \in DOMAIN entries \ Live : entries[x] <= now
    BY DEF Live, Alive, ReplayInv, ReplayTypes
<1>4. ReplayTypes'
    BY <1>1, <1>2, <1>3 DEF ReplayInv, ReplayTypes
<1>5. Remembered'
    BY <1>2, <1>3 DEF ReplayInv, Remembered, ReplayTypes, Uses
<1> QED BY <1>1, <1>2, <1>4, <1>5 DEF ReplayInv, UsedInWindow, RunsInOrder, UsesApart

\* A recorded text is not in the map: this process used it MaxAge seconds ago, or never.
LEMMA ObserveInv ==
    ASSUME ReplayInv, NEW r \in Requests, observe(r)
    PROVE  ReplayInv'
<1> DEFINE x == request[r].text
           i == request[r].intent
           use == [intent |-> i, text |-> x, at |-> now, by |-> r, run |-> restarts]
<1>1. request' \in [Requests -> Received] /\ RecoveringFresh'
    BY AnswerInv DEF observe, ReplayInv
<1>2. /\ entries' = [y \in Live \cup {x} |-> IF y = x THEN now + MaxAge ELSE entries[y]]
      /\ UNCHANGED <<now, signedAt, restarts>>
      /\ accepted' = IF x \in Authentic[i] THEN accepted \cup {use} ELSE accepted
      /\ x \notin Live
      /\ request[r].pc = "recovering"
    BY DEF observe, ReachesCache, Recovering, IsAuthentic
<1>3. x \in Texts /\ i \in Intents /\ use \in Uses
    BY DEF ReplayInv, ReplayTypes, Received, Uses
<1>4. Live \subseteq DOMAIN entries /\ \A y \in DOMAIN entries \ Live : entries[y] <= now
    BY DEF Live, Alive, ReplayInv, ReplayTypes
<1>5. now \in Nat /\ restarts \in Nat /\ signedAt[i] \in Nat
    BY <1>3 DEF ReplayInv, ReplayTypes
<1>6. /\ \A a \in accepted' : a \in accepted \/ a = use
      /\ use \in accepted' => x \in Authentic[i] \/ use \in accepted
    BY <1>2
<1>7. ReplayTypes'
    <2>1. DOMAIN entries' = Live \cup {x}
        BY <1>2
    <2>2. entries' \in [Live \cup {x} -> Nat]
        BY <1>2, <1>4, <1>5 DEF ReplayInv, ReplayTypes
    <2>3. Live \cup {x} \subseteq Texts
        BY <1>3, <1>4 DEF ReplayInv, ReplayTypes
    <2>4. accepted' \subseteq Uses
        BY <1>3, <1>6 DEF ReplayInv, ReplayTypes
    <2> QED BY <1>1, <1>2, <2>1, <2>2, <2>3, <2>4 DEF ReplayInv, ReplayTypes
<1>8. UsedInWindow'
    <2>1. ASSUME x \in Authentic[i]
          PROVE  /\ use.at <= now /\ use.run <= restarts
                 /\ use.at >= signedAt[i] - MaxSkew
                 /\ use.at <= signedAt[i] + MaxAge + RecoverySeconds
        <3>1. /\ request[r].at \in Nat /\ request[r].at <= now /\ now <= request[r].at + RecoverySeconds
              /\ request[r].at - signedAt[i] <= MaxAge /\ request[r].at - signedAt[i] >= -MaxSkew
            BY <1>2 DEF ReplayInv, RecoveringFresh, ReplayTypes, Received
        <3> QED BY <3>1, <1>5
    <2> QED BY <2>1, <1>2 DEF ReplayInv, UsedInWindow
<1>9. Remembered'
    <2>1. ASSUME NEW a \in accepted, a.run = restarts
          PROVE  \/ a.at + MaxAge <= now
                 \/ a.text \in Live \cup {x} /\ a.at + MaxAge <= entries'[a.text]
        <3>1. a \in Uses /\ a.at <= now
            BY DEF ReplayInv, ReplayTypes, UsedInWindow
        <3>2. CASE a.text = x
            BY <3>1, <3>2, <1>2, <1>5 DEF Uses
        <3>3. CASE a.text # x
            BY <2>1, <3>1, <3>3, <1>2, <1>4, <1>5 DEF ReplayInv, Remembered, Uses, ReplayTypes
        <3> QED BY <3>2, <3>3
    <2>2. use.text \in Live \cup {x} /\ use.at + MaxAge <= entries'[use.text]
        BY <1>2, <1>5
    <2>3. DOMAIN entries' = Live \cup {x}
        BY <1>2
    <2> QED BY <1>2, <1>6, <2>1, <2>2, <2>3 DEF Remembered
<1>10. RunsInOrder'
    <2> SUFFICES ASSUME NEW a \in accepted', NEW b \in accepted', a.run < b.run PROVE a.at <= b.at
        BY DEF RunsInOrder
    <2>1. CASE a \in accepted /\ b \in accepted
        BY <2>1 DEF ReplayInv, RunsInOrder
    <2>2. CASE a \in accepted /\ b = use
        BY <2>2 DEF ReplayInv, UsedInWindow
    <2>3. CASE a = use
        <3>1. b.run \in Nat /\ b.run <= restarts
            BY <1>3, <1>5, <1>6 DEF ReplayInv, ReplayTypes, UsedInWindow, Uses
        <3> QED BY <2>3, <3>1, <1>5
    <2> QED BY <2>1, <2>2, <2>3, <1>6
<1>11. UsesApart'
    <2>1. ASSUME NEW a \in accepted, a.text = x, a.run = restarts
          PROVE  a.at + MaxAge <= now
        BY <2>1, <1>2, <1>4, <1>5 DEF ReplayInv, Remembered, ReplayTypes, Uses
    <2> SUFFICES ASSUME NEW a \in accepted', NEW b \in accepted', a # b, a.text = b.text, a.run = b.run
                 PROVE  a.at + MaxAge <= b.at \/ b.at + MaxAge <= a.at
        BY DEF UsesApart
    <2>2. CASE a \in accepted /\ b \in accepted
        BY <2>2 DEF ReplayInv, UsesApart
    <2>3. CASE a \in accepted /\ b = use
        BY <2>1, <2>3
    <2>4. CASE a = use /\ b \in accepted
        BY <2>1, <2>4
    <2> QED BY <2>2, <2>3, <2>4, <1>6
<1> QED BY <1>1, <1>7, <1>8, <1>9, <1>10, <1>11 DEF ReplayInv

\* A restart empties the map, but the new process has not acted yet.
LEMMA RestartInv ==
    ASSUME ReplayInv, Restart
    PROVE  ReplayInv'
<1>1. ReplayTypes'
    BY ReceivedTypes DEF Restart, ReplayInv, ReplayTypes
<1>2. RecoveringFresh'
    <2>1. \A r \in Requests : request'[r].pc # "recovering"
        BY ReceivedTypes DEF Restart, Recovering, ReplayInv, ReplayTypes
    <2> QED BY <2>1 DEF RecoveringFresh
<1>3. Remembered' /\ UsedInWindow'
    BY DEF Restart, ReplayInv, UsedInWindow, Remembered, ReplayTypes, Uses
<1> QED BY <1>1, <1>2, <1>3 DEF Restart, ReplayInv, RunsInOrder, UsesApart

\* A second passes.
LEMMA TickInv ==
    ASSUME ReplayInv, Tick
    PROVE  ReplayInv'
<1>1. ReplayTypes'
    BY DEF Tick, ReplayInv, ReplayTypes
<1>2. RecoveringFresh'
    BY DEF Tick, Recovering, ReplayInv, RecoveringFresh, ReplayTypes, Received
<1>3. Remembered' /\ UsedInWindow'
    BY DEF Tick, ReplayInv, UsedInWindow, Remembered, ReplayTypes, Uses
<1> QED BY <1>1, <1>2, <1>3 DEF Tick, ReplayInv, RunsInOrder, UsesApart

\* Every step keeps the invariant.
LEMMA ReplayNextInv == ReplayInv /\ [ReplayNext]_replayVars => ReplayInv'
<1> SUFFICES ASSUME ReplayInv, [ReplayNext]_replayVars PROVE ReplayInv'
    OBVIOUS
<1>1. CASE ReplayNext
    BY <1>1, VerifyInv, UnauthorizedInv, ReplayedInv, ObserveInv, RestartInv, TickInv DEF ReplayNext
<1>2. CASE UNCHANGED replayVars
    BY <1>2 DEF replayVars, ReplayInv, ReplayTypes, RecoveringFresh, UsedInWindow, Remembered,
               RunsInOrder, UsesApart
<1> QED BY <1>1, <1>2

\* The invariant holds in every behaviour.
LEMMA ReplayInvariance == ReplaySpec => []ReplayInv
<1>1. ReplayInit => ReplayInv
    BY ReplayInitInv
<1> QED BY <1>1, ReplayNextInv, PTL DEF ReplaySpec

\* Two uses of a text are of one intent, in a window shorter than the lives of two entries.
LEMMA OneWindow ==
    ASSUME ReplayInv, NEW a \in accepted, NEW b \in accepted, a.text = b.text
    PROVE  /\ a.at \in Nat /\ a.run \in Nat /\ b.at \in Nat /\ b.run \in Nat
           /\ a.intent = b.intent /\ signedAt[a.intent] \in Nat
           /\ b.at <= signedAt[a.intent] + MaxAge + RecoverySeconds
           /\ b.at < a.at + MaxAge + MaxAge
<1>1. a \in Uses /\ b \in Uses /\ a.text \in Authentic[a.intent] /\ b.text \in Authentic[b.intent]
    BY DEF ReplayInv, ReplayTypes, UsedInWindow
<1>2. a.intent = b.intent
    BY <1>1 DEF Uses
<1>3. /\ a.at \in Nat /\ a.run \in Nat /\ b.at \in Nat /\ b.run \in Nat
      /\ signedAt[a.intent] \in Nat
    BY <1>1 DEF Uses, ReplayInv, ReplayTypes
<1>4. /\ a.at >= signedAt[a.intent] - MaxSkew
      /\ b.at <= signedAt[a.intent] + MaxAge + RecoverySeconds
    BY <1>2 DEF ReplayInv, UsedInWindow
<1> QED BY <1>2, <1>3, <1>4

\* The first of two uses by one process was early.
LEMMA FirstWasEarly ==
    ASSUME ReplayInv, NEW a \in accepted, NEW b \in accepted,
           a # b, a.text = b.text, a.run = b.run, a.at <= b.at
    PROVE  a.at + MaxAge <= b.at /\ UsedEarly(a)
<1>1. a.at + MaxAge <= b.at \/ b.at + MaxAge <= a.at
    BY DEF ReplayInv, UsesApart
<1> QED BY <1>1, OneWindow DEF UsedEarly

\* One process acts twice on a text only when its signer's clock was level with or ahead of the server's.
THEOREM ReplayNeedsClock == ReplaySpec => []ReplayNeedsClockAhead
<1>1. ReplayInv => ReplayNeedsClockAhead
    BY FirstWasEarly DEF ReplayNeedsClockAhead
<1> QED BY <1>1, ReplayInvariance, PTL

\* A use after an earlier one by the same process.
Again(u) == \E a \in accepted : a.text = u.text /\ a.run = u.run /\ a.at < u.at

\* In all runs of the server together, at most one use of a text is such a one.
LEMMA AgainOnce ==
    ASSUME ReplayInv, NEW u \in accepted, NEW v \in accepted, u.text = v.text, Again(u), Again(v)
    PROVE  u = v
<1>1. PICK a \in accepted : a.text = u.text /\ a.run = u.run /\ a.at < u.at
    BY DEF Again
<1>2. PICK b \in accepted : b.text = v.text /\ b.run = v.run /\ b.at < v.at
    BY DEF Again
<1>3. /\ a.at \in Nat /\ b.at \in Nat /\ u.at \in Nat /\ v.at \in Nat
      /\ u.run \in Nat /\ v.run \in Nat
    BY <1>1, <1>2, OneWindow
<1>4. a.at + MaxAge <= u.at /\ b.at + MaxAge <= v.at
    BY <1>1, <1>2, <1>3, FirstWasEarly
<1>5. u.at < b.at + MaxAge + MaxAge /\ v.at < a.at + MaxAge + MaxAge
    BY <1>1, <1>2, OneWindow
<1> SUFFICES ASSUME u # v PROVE FALSE
    OBVIOUS
<1>6. CASE u.run = v.run
    <2>1. u.at + MaxAge <= v.at \/ v.at + MaxAge <= u.at
        BY <1>6 DEF ReplayInv, UsesApart
    <2> QED BY <2>1, <1>3, <1>4, <1>5
<1>7. CASE u.run < v.run
    <2>1. u.at <= b.at
        BY <1>2, <1>7 DEF ReplayInv, RunsInOrder
    <2> QED BY <2>1, <1>3, <1>4, <1>5
<1>8. CASE v.run < u.run
    <2>1. v.at <= a.at
        BY <1>1, <1>8 DEF ReplayInv, RunsInOrder
    <2> QED BY <2>1, <1>3, <1>4, <1>5
<1> QED BY <1>3, <1>6, <1>7, <1>8

\* The other uses are told apart by their runs.
LEMMA FirstOncePerRun ==
    ASSUME ReplayInv, NEW u \in accepted, NEW v \in accepted,
           u.text = v.text, u.run = v.run, ~Again(u), ~Again(v)
    PROVE  u = v
<1> SUFFICES ASSUME u # v PROVE FALSE
    OBVIOUS
<1>1. u.at + MaxAge <= v.at \/ v.at + MaxAge <= u.at
    BY DEF ReplayInv, UsesApart
<1>2. u.at < v.at \/ v.at < u.at
    BY <1>1, OneWindow
<1> QED BY <1>2 DEF Again

(***************************************************************************)
(* The uses of a text are counted by their runs, and the one that is not   *)
(* the first of its run by the number after the last.                      *)
(***************************************************************************)
LEMMA InvBounds == ReplayInv => ReplaysAreBounded
<1> SUFFICES ASSUME ReplayInv, NEW x \in Texts
             PROVE  Cardinality(UsesOf(x)) <=
                        1 + restarts + (IF \E a \in UsesOf(x) : UsedEarly(a) THEN 1 ELSE 0)
    BY DEF ReplaysAreBounded
<1> DEFINE U == UsesOf(x)
           early == \E a \in U : UsedEarly(a)
           last == restarts + (IF early THEN 1 ELSE 0)
           number == [u \in U |-> IF Again(u) THEN restarts + 1 ELSE u.run]
<1>1. \A u \in U : u \in accepted /\ u.text = x
    BY DEF UsesOf
<1>2. restarts \in Nat /\ last \in Nat
    BY DEF ReplayInv, ReplayTypes
<1>3. \A u \in U : u.run \in Nat /\ u.run <= restarts /\ u.at \in Nat
    BY <1>1 DEF ReplayInv, ReplayTypes, UsedInWindow, Uses
<1>4. ASSUME NEW u \in U, Again(u) PROVE early
    <2>1. PICK a \in accepted : a.text = x /\ a.run = u.run /\ a.at < u.at
        BY <1>1, <1>4 DEF Again
    <2>2. a \in U
        BY <2>1 DEF UsesOf
    <2>3. a.at <= u.at /\ a # u
        BY <2>1, <2>2, <1>3
    <2>4. UsedEarly(a)
        BY <2>1, <2>3, <1>1, FirstWasEarly
    <2> QED BY <2>2, <2>4
<1>5. number \in [U -> 0 .. last]
    <2> SUFFICES ASSUME NEW u \in U PROVE (IF Again(u) THEN restarts + 1 ELSE u.run) \in 0 .. last
        OBVIOUS
    <2>1. CASE Again(u)
        <3>1. last = restarts + 1
            BY <2>1, <1>4
        <3> QED BY <2>1, <3>1, <1>2
    <2>2. CASE ~Again(u)
        <3>1. restarts <= last
            BY <1>2
        <3> QED BY <2>2, <3>1, <1>2, <1>3
    <2> QED BY <2>1, <2>2
<1>6. ASSUME NEW u \in U, NEW v \in U, number[u] = number[v] PROVE u = v
    <2>1. CASE Again(u) /\ Again(v)
        BY <2>1, <1>1, AgainOnce
    <2>2. CASE ~Again(u) /\ ~Again(v)
        BY <2>2, <1>1, <1>6, FirstOncePerRun
    <2>3. CASE Again(u) /\ ~Again(v)
        <3>1. restarts + 1 = v.run
            BY <2>3, <1>6
        <3> QED BY <3>1, <1>2, <1>3
    <2>4. CASE ~Again(u) /\ Again(v)
        <3>1. restarts + 1 = u.run
            BY <2>4, <1>6
        <3> QED BY <3>1, <1>2, <1>3
    <2> QED BY <2>1, <2>2, <2>3, <2>4
<1>7. number \in Injection(U, 0 .. last)
    BY <1>5, <1>6 DEF Injection, IsInjective
<1>8. IsFiniteSet(0 .. last) /\ Cardinality(0 .. last) = last + 1
    BY <1>2, FS_Interval
<1>9. Cardinality(U) <= last + 1
    <2> HIDE DEF U, number, last
    <2> QED BY <1>7, <1>8, FS_Injection
<1> QED BY <1>9, <1>2

\* A text is acted upon at most once, and once more for each restart and for an early use.
THEOREM ReplaysStayBounded == ReplaySpec => []ReplaysAreBounded
BY InvBounds, ReplayInvariance, PTL

=============================================================================
