---------------------------- MODULE ReplayCache ----------------------------
(***************************************************************************)
(* Signed intents at apps/loop-server/src/main.ts: POST /loops and         *)
(* DELETE /loops/:id refuse an intent outside its window (auth.ts), recover *)
(* its signer, and then refuse a signature seen before (replay-cache.ts).  *)
(*                                                                         *)
(* The cache is one map in memory, and its key is the text of the          *)
(* signature as it was sent.  expectHex takes hex digits of either case,   *)
(* and verifyLoop* takes every text that recovers to the signer, so one    *)
(* signed intent has several texts.  A request awaits the recovery of the  *)
(* signer between the two checks, so copies of one request interleave, and *)
(* each check reads the clock again.  A signer dates an intent by its own  *)
(* clock.                                                                  *)
(***************************************************************************)
EXTENDS Integers, FiniteSets

CONSTANTS
    Intents,            \* what may be signed: publications of a loop, and pauses
    Pauses,             \* those sent to DELETE /loops/:id
    Texts,              \* what a request may send as its signature
    Authentic,          \* Authentic[i]: the texts that recover to the strategist of intent i
    Requests,           \* HTTP requests
    MaxAge,             \* INTENT_MAX_AGE_SECONDS, also the cache's ttlSeconds
    MaxSkew,            \* INTENT_MAX_SKEW_SECONDS
    RecoverySeconds,    \* bound: seconds the recovery of a signer may take
    MaxTime,            \* bound: seconds observed
    MaxRestarts         \* bound: restarts of the server

\* A signature signs one intent.  The window is 300 seconds and 60, a recovery a computation.
ASSUME ReplayAssumption ==
    /\ Intents # {} /\ Texts # {} /\ Pauses \subseteq Intents
    /\ Authentic \in [Intents -> SUBSET Texts]
    /\ \A i, k \in Intents : i # k => Authentic[i] \cap Authentic[k] = {}
    /\ MaxAge \in Nat \ {0} /\ MaxSkew \in Nat /\ RecoverySeconds \in Nat
    /\ MaxSkew + RecoverySeconds < MaxAge
    /\ MaxTime \in Nat /\ MaxRestarts \in Nat

VARIABLES
    now,        \* the server's clock, unix seconds
    signedAt,   \* what each intent says of the time it was signed
    entries,    \* text -> the second its entry expires
    request,    \* what each HTTP request is doing
    restarts,   \* restarts so far
    accepted    \* history: the intents acted upon

replayVars == <<now, signedAt, entries, request, restarts, accepted>>

Times == 0 .. MaxTime

NotReceived ==
    [pc |-> "none", intent |-> CHOOSE i \in Intents : TRUE, text |-> CHOOSE x \in Texts : TRUE,
     at |-> 0]

ReplayInit ==
    /\ now = 0
    /\ signedAt \in [Intents -> Times]
    /\ entries = [x \in {} |-> 0]
    /\ request = [r \in Requests |-> NotReceived]
    /\ restarts = 0
    /\ accepted = {}

-----------------------------------------------------------------------------

\* Mutant of Fresh: an intent has no last second.
FreshForever(intent) == now - signedAt[intent] >= -MaxSkew

\* assertFreshIntent.
Fresh(intent) ==
    /\ now - signedAt[intent] <= MaxAge
    /\ now - signedAt[intent] >= -MaxSkew

\* The first check of a request; a stale intent is refused and changes nothing.
verifyLoop(r, intent, text) ==
    /\ request[r].pc = "none"
    /\ Fresh(intent)
    /\ request' = [request EXCEPT ![r] =
          [pc |-> "recovering", intent |-> intent, text |-> text, at |-> now]]
    /\ UNCHANGED <<now, signedAt, entries, restarts, accepted>>

\* Nothing is left of a request but that it was answered.
Answered == [NotReceived EXCEPT !.pc = "answered"]

Answer(r) == request' = [request EXCEPT ![r] = Answered]

Recovering(r) == request[r].pc = "recovering"

\* The text recovers to the strategist of the intent.
IsAuthentic(r) == request[r].text \in Authentic[request[r].intent]

\* No signer recovers, or another one and verifyLoopPublish throws: before the cache is asked.
Unauthorized(r) ==
    /\ Recovering(r) /\ ~IsAuthentic(r)
    /\ Answer(r)
    /\ UNCHANGED <<now, signedAt, entries, restarts, accepted>>

\* Mutant of Alive: an entry is dropped a second too early.
AliveShort(text) == entries[text] > now + 1

\* evictExpired drops the other entries.
Alive(text) == entries[text] > now

Live == {x \in DOMAIN entries : Alive(x)}

\* verifyLoopPause returns the signer, whoever it is.
ReachesCache(r) == Recovering(r) /\ (IsAuthentic(r) \/ request[r].intent \in Pauses)

\* observe throws: the text has a live entry.
ReplayedIntent(r) ==
    /\ ReachesCache(r)
    /\ request[r].text \in Live
    /\ Answer(r)
    /\ entries' = [x \in Live |-> entries[x]]
    /\ UNCHANGED <<now, signedAt, restarts, accepted>>

\* observe records the text; a pause by another key is refused only after that.
observe(r) ==
    LET text == request[r].text
        use == [intent |-> request[r].intent, text |-> text, at |-> now, by |-> r,
                run |-> restarts]
    IN  /\ ReachesCache(r)
        /\ text \notin Live
        /\ Answer(r)
        /\ entries' = [x \in Live \cup {text} |-> IF x = text THEN now + MaxAge ELSE entries[x]]
        /\ accepted' = IF IsAuthentic(r) THEN accepted \cup {use} ELSE accepted
        /\ UNCHANGED <<now, signedAt, restarts>>

\* The process restarts: the map is empty, and the requests in flight are lost.
Restart ==
    /\ restarts < MaxRestarts
    /\ restarts' = restarts + 1
    /\ entries' = [x \in {} |-> 0]
    /\ request' = [r \in Requests |-> IF Recovering(r) THEN Answered ELSE request[r]]
    /\ UNCHANGED <<now, signedAt, accepted>>

Tick ==
    /\ now < MaxTime
    /\ \A r \in Requests : Recovering(r) => now < request[r].at + RecoverySeconds
    /\ now' = now + 1
    /\ UNCHANGED <<signedAt, entries, request, restarts, accepted>>

ReplayNext ==
    \/ \E r \in Requests :
          \/ \E i \in Intents, x \in Texts : verifyLoop(r, i, x)
          \/ Unauthorized(r)
          \/ ReplayedIntent(r)
          \/ observe(r)
    \/ Restart
    \/ Tick

ReplaySpec == ReplayInit /\ [][ReplayNext]_replayVars

-----------------------------------------------------------------------------
(* Properties, of each text: another text of the same signature counts on  *)
(* its own.                                                                *)

UsesOf(text) == {a \in accepted : a.text = text}

\* Used no later than its signer's clock said, up to the time a recovery takes.
UsedEarly(a) == a.at <= signedAt[a.intent] + RecoverySeconds

(***************************************************************************)
(* What a replay takes.  One process acts twice on a text only when the    *)
(* clock of its signer was level with or ahead of the server's, by at most *)
(* the time a recovery takes less, at the first time: then its window      *)
(* outlasts the entry.                                                     *)
(***************************************************************************)
ReplayNeedsClockAhead ==
    \A a, b \in accepted :
        a.text = b.text /\ a.by # b.by /\ a.run = b.run /\ a.at <= b.at => UsedEarly(a)

(***************************************************************************)
(* How often a text is acted upon: once, once more for each restart, as    *)
(* that empties the cache, and once more when it was used early.  It is so *)
(* however copies of a request interleave and whenever the server stops:   *)
(* window and entries are such that of all its runs only one can see the   *)
(* text twice.                                                             *)
(***************************************************************************)
ReplaysAreBounded ==
    \A text \in Texts :
        Cardinality(UsesOf(text)) <=
            1 + restarts + (IF \E a \in UsesOf(text) : UsedEarly(a) THEN 1 ELSE 0)

=============================================================================
