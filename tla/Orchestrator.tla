---------------------------- MODULE Orchestrator ----------------------------
(***************************************************************************)
(* The allocation router of apps/replay-ui/lib/canvas/orchestrator: it     *)
(* folds a stream of ticks over the lanes ("slots") of a portfolio and     *)
(* moves target weight between them when a derived rule fires              *)
(* (evaluate.ts, with the rule automaton, ranking, sizing and edge locks   *)
(* of rule-schema.ts).                                                     *)
(*                                                                         *)
(* One tick is one Absorb (observations, settled legs, pruned budget)      *)
(* followed by one step per rule, in ruleId order.  Weights are whole      *)
(* units of Total, time is counted in ticks, and an observation says for   *)
(* each threshold metric only on which side of threshold and re-arm level  *)
(* it is.                                                                  *)
(***************************************************************************)
EXTENDS Integers, Sequences, FiniteSets, FiniteSetsExt

CONSTANTS
    Slots,              \* cfg.loops, numbered in the order of their ids
    Rules,              \* cfg.rules in ruleId order: slot, metric, sustainPins, cooldown
    Total,              \* the whole book
    TargetWeight, MinWeight, MaxWeight, \* per slot
    MoveWeight,         \* weight moved per firing
    DustFloor,          \* MIN_HEDGED_DEPOSIT_USD, as a weight
    Ceiling,            \* turnover budget
    BudgetWindow,       \* budgetWindowTicks
    CadenceBudget,      \* cadenceBudgetTicks of every slot
    Threshold, RearmLevel, \* of better_elsewhere
    SettleSeqs,         \* exit profile: observations the capital waits, by edge
    MoveCost,           \* exit profile: cost over improvement is the payback in ticks
    Horizon,            \* PAYBACK_HORIZON_DAYS
    MaxReverseLock,     \* MAX_REVERSE_LOCK_MS
    Readings,           \* what an observation may say, per slot
    MaxTick             \* bound: ticks folded

Metrics == {"floor", "gate_flip", "better_elsewhere"}
Zones == {"breaching", "gap", "safe"}

\* A return nobody published; it ranks last.
Unmeasured == -1

ASSUME OrchestratorAssumption ==
    /\ Slots \subseteq Nat /\ IsFiniteSet(Slots)
    /\ Rules \in Seq([slot : Slots, metric : Metrics, sustainPins : Nat, cooldown : Nat])
    /\ \A i \in DOMAIN Rules : Rules[i].sustainPins >= 2
    /\ Total \in Nat \ {0} /\ MoveWeight \in Nat /\ DustFloor \in Nat \ {0} /\ Ceiling \in Nat
    /\ TargetWeight \in [Slots -> Nat] /\ MinWeight \in [Slots -> Nat]
    /\ MaxWeight \in [Slots -> Nat]
    /\ SumFunction(TargetWeight) = Total
    /\ \A s \in Slots : MinWeight[s] <= TargetWeight[s] /\ TargetWeight[s] <= MaxWeight[s]
    /\ BudgetWindow \in Nat \ {0} /\ CadenceBudget \in Nat /\ MaxTick \in Nat
    /\ Threshold \in Nat /\ RearmLevel \in Int /\ RearmLevel < Threshold
    /\ SettleSeqs \in [Slots \X Slots -> Nat]
    /\ MoveCost \in Nat /\ Horizon \in Nat /\ MaxReverseLock \in Nat
    /\ \A s \in Slots :
          Readings[s] \subseteq
              [ref : {"new", "same", "repin"}, zone : Zones, eligible : BOOLEAN,
               live : BOOLEAN, riskAdj : Nat \cup {Unmeasured}, halfCapacity : Nat]

VARIABLES
    tick, turn,         \* the tick, and the next rule of it (0: the tick is over)
    observed,           \* this tick's observations, by slot
    latest, latestTick, observations, paused, \* SlotRuntime
    weights, rules, locks, commits, openLegs, commitSeq,
    moves               \* the decisions that moved weight

runtimeVars == <<observed, latest, latestTick, observations>>
bookVars == <<weights, locks, commits, openLegs, commitSeq, moves>>
vars == <<tick, turn, runtimeVars, paused, rules, bookVars>>

None == [ref |-> "none"]
Never == -1

initialRuleState == [streak |-> 0, armed |-> TRUE, firedAt |-> Never, rearmStreak |-> 0]

Init ==
    /\ tick = 0 /\ turn = 0
    /\ observed = [s \in Slots |-> None] /\ latest = observed
    /\ latestTick = [s \in Slots |-> Never] /\ observations = [s \in Slots |-> 0]
    /\ paused = {}
    /\ weights = TargetWeight
    /\ rules = [i \in DOMAIN Rules |-> initialRuleState]
    /\ locks = [edge \in Slots \X Slots |-> 0]
    /\ commits = {} /\ openLegs = {} /\ commitSeq = 0 /\ moves = {}

-----------------------------------------------------------------------------
(* The tick: absorb, settle, prune                                         *)

WeightOf(set) == SumFunction([x \in set |-> x.weight])

\* The ticks of the stream: each slot publishes one of its readings, or nothing.
TickRefs ==
    {refs \in [Slots -> UNION {Readings[s] : s \in Slots} \cup {None}] :
        \A s \in Slots : refs[s] \in Readings[s] \cup {None}}

\* Legs whose destination published as often as they have to wait.
Settled(seen) == {leg \in openLegs : seen[leg.dest] - leg.openedAt >= leg.settleSeqs}

\* Mutant of InWindow: the window is a tick too short.
InWindowShort(commit, now) == commit.open \/ commit.tick > now - BudgetWindow + 1

\* Mutant of InWindow: capital in flight is pruned with the rest.
InWindowSettled(commit, now) == commit.tick > now - BudgetWindow

\* A commit spends budget while it is open, or inside the rolling window.
InWindow(commit, now) == commit.open \/ commit.tick > now - BudgetWindow

Absorb(refs) ==
    /\ turn = 0
    /\ tick < MaxTick
    /\ \A s \in Slots : observations[s] = 0 => refs[s].ref \in {"none", "new"}
    /\ tick' = tick + 1 /\ turn' = 1
    /\ observed' = refs
    /\ latest' = [s \in Slots |-> IF refs[s] = None THEN latest[s] ELSE refs[s]]
    /\ latestTick' = [s \in Slots |-> IF refs[s] = None THEN latestTick[s] ELSE tick']
    /\ observations' = [s \in Slots |-> IF refs[s] = None THEN observations[s] ELSE observations[s] + 1]
    /\ LET closed == {leg.commit : leg \in Settled(observations')}
           now == {[c EXCEPT !.open = @ /\ c.id \notin closed] : c \in commits}
       IN  /\ openLegs' = openLegs \ Settled(observations')
           /\ commits' = {c \in now : InWindow(c, tick')}
    /\ UNCHANGED <<paused, rules, weights, locks, commitSeq, moves>>

-----------------------------------------------------------------------------
(* One rule on one observation                                             *)

\* What a move may take from its source: a quarter of it (MOVE_WEIGHT_CAP), or the rule's larger share.
PerTickCap(source) ==
    IF 4 * MoveWeight > Total THEN (MoveWeight * weights[source]) \div Total
                              ELSE weights[source] \div 4

\* sizeMove: no more than the cap, and no dust.
MoveSize(source) ==
    LET size == Min({MoveWeight, PerTickCap(source)})
    IN  IF size < DustFloor THEN 0 ELSE size

\* Mutant of EvacuationBreaching: only a rule that fired counts.
EvacuationFired(s) ==
    \E i \in DOMAIN Rules :
        Rules[i].slot = s /\ Rules[i].metric # "better_elsewhere" /\ ~rules[i].armed

\* An evacuation rule of the slot that breaches while armed, or fired and did not re-arm.
EvacuationBreaching(s) ==
    \E i \in DOMAIN Rules :
        /\ Rules[i].slot = s /\ Rules[i].metric # "better_elsewhere"
        /\ ~rules[i].armed \/ rules[i].streak > 0

Headroom(s) == latest[s].halfCapacity - weights[s]

\* selectDestination over the slots that are not paused and not stale.
Candidates(source) ==
    {s \in Slots \ (paused \cup {source}) :
        /\ latest[s] # None /\ tick - latestTick[s] < CadenceBudget
        /\ latest[s].eligible /\ latest[s].live /\ ~EvacuationBreaching(s)
        /\ Headroom(s) >= MoveSize(source)}

RanksBefore(a, b) ==
    \/ latest[a].riskAdj > latest[b].riskAdj
    \/ /\ latest[a].riskAdj = latest[b].riskAdj
       /\ Headroom(a) > Headroom(b) \/ (Headroom(a) = Headroom(b) /\ a < b)

IsBest(dest, source) ==
    /\ dest \in Candidates(source)
    /\ \A other \in Candidates(source) \ {dest} : RanksBefore(dest, other)

\* What the best peer would add; Unmeasured when either return is unknown.
Improves(source, by) ==
    \E dest \in Candidates(source) :
        /\ IsBest(dest, source)
        /\ Unmeasured \notin {latest[dest].riskAdj, observed[source].riskAdj}
        /\ by <= latest[dest].riskAdj - observed[source].riskAdj

\* readMetric
Breaching(rule) ==
    CASE rule.metric = "floor" -> observed[rule.slot].zone = "breaching"
      [] rule.metric = "gate_flip" -> ~observed[rule.slot].eligible
      [] rule.metric = "better_elsewhere" -> Improves(rule.slot, Threshold)

SafeSide(rule) ==
    CASE rule.metric = "floor" -> observed[rule.slot].zone = "safe"
      [] rule.metric = "gate_flip" -> observed[rule.slot].eligible
      [] rule.metric = "better_elsewhere" -> ~Improves(rule.slot, RearmLevel + 1)

\* advanceRuleState, while not armed: sustainPins consecutive safe pins arm it again.
Rearmed(rule, state) ==
    IF ~SafeSide(rule) THEN [state EXCEPT !.rearmStreak = 0]
    ELSE IF state.rearmStreak + 1 < rule.sustainPins
    THEN [state EXCEPT !.rearmStreak = @ + 1]
    ELSE [state EXCEPT !.armed = TRUE, !.rearmStreak = 0, !.streak = 0]

CooldownClear(rule, state) == state.firedAt = Never \/ tick - state.firedAt >= rule.cooldown

Fires(rule, state) ==
    /\ observed[rule.slot].ref = "new"
    /\ state.armed /\ Breaching(rule)
    /\ state.streak + 1 >= rule.sustainPins
    /\ CooldownClear(rule, state)

Fired(state) == [streak |-> 0, armed |-> FALSE, firedAt |-> tick, rearmStreak |-> 0]

Advanced(rule, state) ==
    CASE observed[rule.slot].ref = "repin" -> initialRuleState
      [] observed[rule.slot].ref = "same" -> state
      [] ~state.armed -> Rearmed(rule, state)
      [] ~Breaching(rule) -> [state EXCEPT !.streak = 0]
      [] OTHER -> [state EXCEPT !.streak = @ + 1]

-----------------------------------------------------------------------------
(* What a firing does                                                      *)

\* paybackMs; a move that buys nothing never pays back.
Payback(source, dest) ==
    LET improvement == latest[dest].riskAdj - observed[source].riskAdj
    IN  IF improvement <= 0 THEN MaxReverseLock + 1 ELSE MoveCost \div improvement

Spent == WeightOf({c \in commits : InWindow(c, tick)})

\* Mutant of MovedWeight: only the destination's ceiling clamps.
MovedWeightUnfloored(source, dest) == Max({0, Min({MoveSize(source), MaxWeight[dest] - weights[dest]})})

\* applyMove clamps the move to the floor of its source and the ceiling of its destination.
MovedWeight(source, dest) ==
    Max({0, Min({MoveSize(source), weights[source] - MinWeight[source],
                 MaxWeight[dest] - weights[dest]})})

\* Mutant of EdgeLocked: the lock of the opposite edge is read.
EdgeLockedAhead(source, dest) == tick < locks[<<dest, source>>]

EdgeLocked(source, dest) == tick < locks[<<source, dest>>]

\* The checks of a firing, in the code's order: a firing that fails one moves nothing.
Refused(rule, source, dest) ==
    \/ Unmeasured \in {latest[dest].riskAdj, observed[source].riskAdj}
    \/ MoveSize(source) = 0
    \/ EdgeLocked(source, dest)
    \/ Spent + MoveSize(source) > Ceiling
    \/ rule.metric = "better_elsewhere" /\ Payback(source, dest) > Horizon
    \/ MovedWeight(source, dest) = 0

ReverseLock(rule, source, dest) ==
    Min({MaxReverseLock, Max({2 * rule.cooldown, Payback(source, dest)})})

\* The move of a firing: weight, reverse lock, budget commit, and the leg it waits on.
Move(rule, source, dest) ==
    LET weight == MovedWeight(source, dest)
        lock == ReverseLock(rule, source, dest)
        wait == SettleSeqs[<<source, dest>>]
    IN  /\ weights' = [weights EXCEPT ![source] = @ - weight, ![dest] = @ + weight]
        /\ locks' = [locks EXCEPT ![<<dest, source>>] = tick + lock]
        /\ commitSeq' = commitSeq + 1
        /\ commits' = commits \cup
              {[id |-> commitSeq', tick |-> tick, weight |-> weight, open |-> wait > 0]}
        /\ openLegs' = IF wait = 0 THEN openLegs ELSE openLegs \cup
              {[commit |-> commitSeq', dest |-> dest, weight |-> weight,
                openedAt |-> observations[dest], settleSeqs |-> wait]}
        /\ moves' = moves \cup
              {[id |-> commitSeq', tick |-> tick, source |-> source, dest |-> dest,
                weight |-> weight, lock |-> lock]}

-----------------------------------------------------------------------------

NextRule == turn' = IF turn = Len(Rules) THEN 0 ELSE turn + 1

AtRule(i) == turn = i /\ NextRule /\ UNCHANGED <<tick, runtimeVars>>

\* The slot published nothing: its rules neither advance nor reset.
NotObserved(i) ==
    /\ AtRule(i)
    /\ observed[Rules[i].slot] = None
    /\ UNCHANGED <<paused, rules, bookVars>>

Advances(i) ==
    /\ AtRule(i)
    /\ observed[Rules[i].slot] # None
    /\ ~Fires(Rules[i], rules[i])
    /\ rules' = [rules EXCEPT ![i] = Advanced(Rules[i], @)]
    /\ UNCHANGED <<paused, bookVars>>

FiresNow(i) ==
    /\ AtRule(i)
    /\ observed[Rules[i].slot] # None
    /\ Fires(Rules[i], rules[i])
    /\ rules' = [rules EXCEPT ![i] = Fired(@)]

\* The capital stays where it is, and the slot takes no more.
Pauses(i) ==
    /\ FiresNow(i)
    /\ Rules[i].metric = "gate_flip"
    /\ paused' = paused \cup {Rules[i].slot}
    /\ UNCHANGED bookVars

\* No legal peer, or a refusal: the firing is spent all the same.
StaysPut(i) ==
    /\ FiresNow(i)
    /\ Rules[i].metric # "gate_flip"
    /\ \A dest \in Slots : IsBest(dest, Rules[i].slot) => Refused(Rules[i], Rules[i].slot, dest)
    /\ UNCHANGED <<paused, bookVars>>

Moves(i) ==
    /\ FiresNow(i)
    /\ Rules[i].metric # "gate_flip"
    /\ \E dest \in Slots :
          /\ IsBest(dest, Rules[i].slot)
          /\ ~Refused(Rules[i], Rules[i].slot, dest)
          /\ Move(Rules[i], Rules[i].slot, dest)
    /\ UNCHANGED paused

Next ==
    \/ \E refs \in TickRefs : Absorb(refs)
    \/ \E i \in DOMAIN Rules :
          NotObserved(i) \/ Advances(i) \/ Pauses(i) \/ StaysPut(i) \/ Moves(i)

Spec == Init /\ [][Next]_vars

-----------------------------------------------------------------------------
(* Properties                                                              *)

(***************************************************************************)
(* The book is conserved and every weight stays inside its band, over any  *)
(* number of moves on one tick (R37, R23: applyMove).                      *)
(***************************************************************************)
InBand(s) == MinWeight[s] <= weights[s] /\ weights[s] <= MaxWeight[s]

WeightsInBand ==
    /\ SumFunction(weights) = Total
    /\ \A s \in Slots : InBand(s)

(***************************************************************************)
(* No BudgetWindow consecutive ticks move more than the turnover ceiling,  *)
(* whatever settles or is pruned between them.                             *)
(***************************************************************************)
TurnoverInBudget ==
    WeightOf({m \in moves : m.tick > tick - BudgetWindow}) <= Ceiling

(***************************************************************************)
(* What is in flight is what the budget still counts as in flight: a leg   *)
(* that settles closes its own commit and no other, and pruning loses none *)
(* ("getting that wrong closes the wrong leg's budget entry").             *)
(***************************************************************************)
LegsHoldBudget ==
    {[id |-> leg.commit, weight |-> leg.weight] : leg \in openLegs}
        = {[id |-> c.id, weight |-> c.weight] : c \in {x \in commits : x.open}}

(***************************************************************************)
(* Capital never enters a lane on the tick one of its own evacuation rules *)
(* fires, whichever of the two rules is evaluated first, nor a lane that   *)
(* was paused.  It takes both the destination filter (R27) and a sustain   *)
(* of at least two pins (R25).                                             *)
(***************************************************************************)
Condemned(s) ==
    \E i \in DOMAIN Rules :
        /\ Rules[i].slot = s /\ Rules[i].metric # "better_elsewhere"
        /\ rules[i].firedAt = tick

NeverIntoCondemned ==
    \A m \in moves : m.tick = tick => ~Condemned(m.dest)

(***************************************************************************)
(* A move is not reversed before its own lock has run out (twice its       *)
(* rule's cooldown, and its payback: R30, D12), unless a later move the    *)
(* same way replaced that lock by a shorter one (lockReverseEdge writes    *)
(* over what the edge had).                                                *)
(***************************************************************************)
Reverses(m, back) == back.id > m.id /\ back.source = m.dest /\ back.dest = m.source

ReversalsWait ==
    \A m, back \in moves :
        Reverses(m, back) /\ back.tick < m.tick + m.lock =>
            \E again \in moves :
                /\ again.id \in m.id + 1 .. back.id - 1
                /\ again.source = m.source /\ again.dest = m.dest
                /\ again.tick + again.lock <= back.tick

=============================================================================
