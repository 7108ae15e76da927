------------------------ MODULE Orchestrator_proofs ------------------------
(***************************************************************************)
(* Proofs about Orchestrator, for any slots, rules, bands, budgets and     *)
(* streams of observations.                                                *)
(*                                                                         *)
(* Inv is inductive: on top of the types, the bands; the commits and the   *)
(* legs that wait on them; what rules have fired, and how far the          *)
(* evacuation rules of a lane that was just moved into have come; and, for *)
(* every move, the last move the same way, which the lock of the reverse   *)
(* edge comes from.  Two sums are inductive with it: the book, which a     *)
(* move between two slots leaves whole, and the turnover, which the        *)
(* commits still counted bound.                                            *)
(***************************************************************************)
EXTENDS Orchestrator, LedgerSums

RuleState == [streak : Nat, armed : BOOLEAN, firedAt : Int, rearmStreak : Nat]

RuleRecord == [slot : Slots, metric : Metrics, sustainPins : Nat, cooldown : Nat]

Observation ==
    [ref : {"new", "same", "repin"}, zone : Zones, eligible : BOOLEAN, live : BOOLEAN,
     riskAdj : Nat \cup {Unmeasured}, halfCapacity : Nat]

Commit == [id : Nat, tick : Nat, weight : Nat, open : BOOLEAN]

Leg == [commit : Nat, dest : Slots, weight : Nat, openedAt : Nat, settleSeqs : Nat]

MoveRecord ==
    [id : Nat, tick : Nat, source : Slots, dest : Slots, weight : Nat, lock : Nat]

\* Types.
TypeInv ==
    /\ tick \in Nat /\ turn \in Nat
    /\ observed \in [Slots -> Observation \cup {None}]
    /\ latest \in [Slots -> Observation \cup {None}]
    /\ observations \in [Slots -> Nat]
    /\ weights \in [Slots -> Nat]
    /\ rules \in [DOMAIN Rules -> RuleState]
    /\ locks \in [Slots \X Slots -> Nat]
    /\ commitSeq \in Nat
    /\ commits \subseteq Commit /\ openLegs \subseteq Leg /\ moves \subseteq MoveRecord

\* The bands.
Bands == \A s \in Slots : InBand(s)

\* Commits and legs are told apart by their number, and no number is used yet to come.
Numbered ==
    /\ \A c \in commits : c.id <= commitSeq
    /\ \A c, d \in commits : c.id = d.id => c = d
    /\ \A leg \in openLegs : leg.commit <= commitSeq
    /\ \A leg, other \in openLegs : leg.commit = other.commit => leg = other

\* A rule that fired on this tick is disarmed, and is not evaluated again on it.
FiredOnce ==
    \A i \in DOMAIN Rules :
        /\ rules[i].firedAt <= tick
        /\ rules[i].firedAt = tick => ~rules[i].armed
        /\ turn # 0 /\ turn <= i => rules[i].firedAt < tick

\* No evacuation rule of the lane fired on this tick, nor can before it ends.
Calm(s) ==
    \A i \in DOMAIN Rules :
        Rules[i].slot = s /\ Rules[i].metric # "better_elsewhere" =>
            /\ rules[i].firedAt # tick
            /\ turn # 0 /\ turn <= i => rules[i].streak = 0 /\ rules[i].armed

EntersCalm == \A m \in moves : m.tick = tick => Calm(m.dest)

MovesNumbered ==
    /\ \A m \in moves : m.id <= commitSeq /\ m.tick <= tick
    /\ \A m, n \in moves : m.id = n.id => m = n

\* The reverse edge of a move is locked by the last move the same way.
LocksAreLast ==
    \A m \in moves : \E again \in moves :
        /\ again.source = m.source /\ again.dest = m.dest /\ m.id <= again.id
        /\ again.tick + again.lock = locks[<<m.dest, m.source>>]

Inv ==
    /\ TypeInv /\ Bands
    /\ Numbered /\ LegsHoldBudget
    /\ FiredOnce /\ EntersCalm
    /\ MovesNumbered /\ LocksAreLast /\ ReversalsWait

-----------------------------------------------------------------------------
(* Facts about the operators                                               *)

\* The least of two integers.
LEMMA MinOfTwo ==
    ASSUME NEW a \in Int, NEW b \in Int
    PROVE  Min({a, b}) \in {a, b} /\ Min({a, b}) <= a /\ Min({a, b}) <= b
<1>1. \E x \in {a, b} : \A y \in {a, b} : x <= y
    OBVIOUS
<1>2. Min({a, b}) \in {a, b} /\ \A y \in {a, b} : Min({a, b}) <= y
    BY <1>1, Zenon DEF Min
<1> QED BY <1>2

\* The least of three integers.
LEMMA MinOfThree ==
    ASSUME NEW a \in Int, NEW b \in Int, NEW c \in Int
    PROVE  /\ Min({a, b, c}) \in {a, b, c}
           /\ Min({a, b, c}) <= a /\ Min({a, b, c}) <= b /\ Min({a, b, c}) <= c
<1>1. \E x \in {a, b, c} : \A y \in {a, b, c} : x <= y
    <2>1. CASE a <= b /\ a <= c BY <2>1
    <2>2. CASE b <= a /\ b <= c BY <2>2
    <2>3. CASE c <= a /\ c <= b BY <2>3
    <2> QED BY <2>1, <2>2, <2>3
<1>2. Min({a, b, c}) \in {a, b, c} /\ \A y \in {a, b, c} : Min({a, b, c}) <= y
    BY <1>1, Zenon DEF Min
<1> QED BY <1>2

\* The greatest of two integers.
LEMMA MaxOfTwo ==
    ASSUME NEW a \in Int, NEW b \in Int
    PROVE  Max({a, b}) \in {a, b} /\ Max({a, b}) >= a /\ Max({a, b}) >= b
<1>1. \E x \in {a, b} : \A y \in {a, b} : x >= y
    OBVIOUS
<1>2. Max({a, b}) \in {a, b} /\ \A y \in {a, b} : Max({a, b}) >= y
    BY <1>1, Zenon DEF Max
<1> QED BY <1>2

\* A quotient of naturals is a natural.
LEMMA QuotientType ==
    ASSUME NEW n \in Nat, NEW k \in Nat, k > 0
    PROVE  n \div k \in Nat
OBVIOUS

\* The numbers of the configuration.
LEMMA ConstantTypes ==
    /\ Slots \subseteq Nat /\ MoveWeight \in Nat /\ Total \in Nat \ {0}
    /\ TargetWeight \in [Slots -> Nat] /\ MinWeight \in [Slots -> Nat]
    /\ MaxWeight \in [Slots -> Nat]
    /\ \A s \in Slots : MinWeight[s] <= TargetWeight[s] /\ TargetWeight[s] <= MaxWeight[s]
    /\ SettleSeqs \in [Slots \X Slots -> Nat]
    /\ MoveCost \in Nat /\ MaxReverseLock \in Nat
BY OrchestratorAssumption, Zenon DEF OrchestratorAssumption

\* A rule of the configuration.
LEMMA RuleType ==
    ASSUME NEW i \in DOMAIN Rules
    PROVE  /\ i \in 1 .. Len(Rules)
           /\ Rules[i].slot \in Slots /\ Rules[i].cooldown \in Nat
           /\ Rules[i].sustainPins \in Nat /\ Rules[i].sustainPins >= 2
<1>1. /\ Rules \in Seq(RuleRecord)
      /\ \A j \in DOMAIN Rules : Rules[j].sustainPins >= 2
    BY OrchestratorAssumption DEF OrchestratorAssumption, RuleRecord
<1>2. Rules[i] \in RuleRecord /\ i \in 1 .. Len(Rules)
    BY <1>1
<1> QED BY <1>1, <1>2 DEF RuleRecord

\* So is what a move may take from its source.
LEMMA PerTickCapType ==
    ASSUME TypeInv, NEW s \in Slots
    PROVE  PerTickCap(s) \in Nat
<1> DEFINE share == MoveWeight * weights[s]
<1>1. weights[s] \in Nat /\ MoveWeight \in Nat /\ Total \in Nat \ {0}
    BY ConstantTypes DEF TypeInv
<1>2. share \in Nat
    BY <1>1, SMT
<1> HIDE DEF share
<1>3. share \div Total \in Nat /\ weights[s] \div 4 \in Nat
  <2>1. Total > 0 /\ 4 > 0 /\ 4 \in Nat /\ Total \in Nat
    BY <1>1
  <2> QED BY <1>1, <1>2, <2>1, QuotientType
<1>4. PerTickCap(s) = share \div Total \/ PerTickCap(s) = weights[s] \div 4
    BY DEF PerTickCap, share
<1> QED BY <1>3, <1>4

\* The size of a move is a weight.
LEMMA MoveSizeType ==
    ASSUME TypeInv, NEW s \in Slots
    PROVE  MoveSize(s) \in Nat
<1> DEFINE cap == PerTickCap(s)
           size == Min({MoveWeight, cap})
<1>1. cap \in Nat /\ MoveWeight \in Nat
    BY PerTickCapType, ConstantTypes
<1> HIDE DEF cap
<1>2. size \in {MoveWeight, cap}
  <2>1. MoveWeight \in Int /\ cap \in Int
    BY <1>1
  <2> QED BY <2>1, MinOfTwo, Zenon
<1>3. MoveSize(s) = IF size < DustFloor THEN 0 ELSE size
    BY DEF MoveSize, cap
<1> HIDE DEF size
<1> QED BY <1>1, <1>2, <1>3

\* A move that is made stays inside the bands of both its ends.
LEMMA MovedWeightFits ==
    ASSUME TypeInv, NEW source \in Slots, NEW dest \in Slots, MovedWeight(source, dest) # 0
    PROVE  /\ MovedWeight(source, dest) \in Nat
           /\ MovedWeight(source, dest) <= weights[source] - MinWeight[source]
           /\ MovedWeight(source, dest) <= MaxWeight[dest] - weights[dest]
           /\ MovedWeight(source, dest) <= MoveSize(source) /\ MoveSize(source) \in Int
<1> DEFINE size == MoveSize(source)
           fromSource == weights[source] - MinWeight[source]
           intoDest == MaxWeight[dest] - weights[dest]
           room == Min({size, fromSource, intoDest})
<1>1. size \in Int /\ fromSource \in Int /\ intoDest \in Int
    BY MoveSizeType, ConstantTypes DEF TypeInv
<1> HIDE DEF size, fromSource, intoDest
<1>2. room \in Int /\ room <= fromSource /\ room <= intoDest /\ room <= size
    BY <1>1, MinOfThree
<1> HIDE DEF room
<1>3. Max({0, room}) \in {0, room} /\ Max({0, room}) >= 0
  <2>1. 0 \in Int /\ room \in Int
    BY <1>2
  <2> QED BY <2>1, MaxOfTwo
<1>4. MovedWeight(source, dest) = Max({0, room})
    BY DEF MovedWeight, room, size, fromSource, intoDest
<1>5. MovedWeight(source, dest) = room /\ room \in Nat
    BY <1>2, <1>3, <1>4
<1> QED BY <1>1, <1>2, <1>5 DEF fromSource, intoDest, size

-----------------------------------------------------------------------------
(* The initial state, and steps that change nothing                        *)

LEMMA InitInv ==
    ASSUME Init
    PROVE  Inv
<1>1. TypeInv
    BY ConstantTypes DEF Init, TypeInv, initialRuleState, RuleState, Never
<1>2. Bands
    BY ConstantTypes DEF Init, Bands, InBand
<1>3. Numbered /\ MovesNumbered /\ EntersCalm /\ LocksAreLast /\ ReversalsWait
    BY DEF Init, Numbered, MovesNumbered, EntersCalm, LocksAreLast, ReversalsWait
<1>4. LegsHoldBudget
    BY DEF Init, LegsHoldBudget
<1>5. FiredOnce
    BY DEF Init, FiredOnce, initialRuleState, Never
<1> QED BY <1>1, <1>2, <1>3, <1>4, <1>5 DEF Inv

\* What a step that leaves the book alone keeps.
LEMMA BookKept ==
    ASSUME Inv, UNCHANGED bookVars, tick' = tick
    PROVE  /\ Bands' /\ Numbered' /\ LegsHoldBudget'
           /\ MovesNumbered' /\ LocksAreLast' /\ ReversalsWait'
<1>1. Bands'
    BY DEF Inv, bookVars, Bands, InBand
<1>2. Numbered'
    BY DEF Inv, bookVars, Numbered
<1>3. LegsHoldBudget'
    BY DEF Inv, bookVars, LegsHoldBudget
<1>4. MovesNumbered' /\ LocksAreLast' /\ ReversalsWait'
    BY DEF Inv, bookVars, MovesNumbered, LocksAreLast, ReversalsWait
<1> QED BY <1>1, <1>2, <1>3, <1>4

LEMMA StutterInv ==
    ASSUME Inv, UNCHANGED vars
    PROVE  Inv'
<1> USE DEF vars, runtimeVars
<1>1. TypeInv'
    BY DEF Inv, bookVars, TypeInv
<1>2. FiredOnce'
    BY DEF Inv, FiredOnce
<1>3. EntersCalm'
    BY DEF Inv, bookVars, EntersCalm, Calm
<1> QED BY <1>1, <1>2, <1>3, BookKept DEF Inv

-----------------------------------------------------------------------------
(* The tick begins                                                         *)

\* A commit whose open flag is written.
LEMMA FlaggedCommit ==
    ASSUME NEW c \in Commit, NEW flag \in BOOLEAN
    PROVE  /\ [c EXCEPT !.open = flag] \in Commit
           /\ [c EXCEPT !.open = flag].id = c.id
           /\ [c EXCEPT !.open = flag].weight = c.weight
           /\ [c EXCEPT !.open = flag].open = flag
BY DEF Commit

\* What LegsHoldBudget says of one leg, and of one open commit.
LEMMA LegHasCommit ==
    ASSUME LegsHoldBudget, NEW leg \in openLegs
    PROVE  \E c \in commits : c.open /\ c.id = leg.commit /\ c.weight = leg.weight
<1> DEFINE pair == [id |-> leg.commit, weight |-> leg.weight]
<1>1. pair \in {[id |-> c.id, weight |-> c.weight] : c \in {x \in commits : x.open}}
    BY DEF LegsHoldBudget
<1>2. PICK c \in {x \in commits : x.open} : pair = [id |-> c.id, weight |-> c.weight]
    BY <1>1
<1>3. pair.id = c.id /\ pair.weight = c.weight
    BY <1>2
<1> QED BY <1>3

LEMMA CommitHasLeg ==
    ASSUME LegsHoldBudget, NEW c \in commits, c.open
    PROVE  \E leg \in openLegs : c.id = leg.commit /\ c.weight = leg.weight
<1> DEFINE pair == [id |-> c.id, weight |-> c.weight]
<1>1. pair \in {[id |-> leg.commit, weight |-> leg.weight] : leg \in openLegs}
    BY DEF LegsHoldBudget
<1>2. PICK leg \in openLegs : pair = [id |-> leg.commit, weight |-> leg.weight]
    BY <1>1
<1>3. pair.id = leg.commit /\ pair.weight = leg.weight
    BY <1>2
<1> QED BY <1>3

LEMMA AbsorbInv ==
    ASSUME Inv, NEW refs \in TickRefs, Absorb(refs)
    PROVE  Inv'
<1> USE DEF Inv
<1> DEFINE settled == Settled(observations')
           closed == {leg.commit : leg \in settled}
           Closed(c) == [c EXCEPT !.open = @ /\ c.id \notin closed]
<1>1. commits' = {d \in {Closed(c) : c \in commits} : InWindow(d, tick')}
    BY DEF Absorb
<1>2. ASSUME NEW c \in commits
      PROVE  /\ Closed(c) \in Commit
             /\ Closed(c).id = c.id /\ Closed(c).weight = c.weight
             /\ Closed(c).open <=> c.open /\ c.id \notin closed
  <2>1. c \in Commit /\ (c.open /\ c.id \notin closed) \in BOOLEAN
    BY DEF TypeInv, Commit
  <2> QED BY <2>1, FlaggedCommit
<1>3. ASSUME NEW d \in commits'
      PROVE  \E c \in commits : d = Closed(c)
    BY <1>1
<1>4. openLegs' = openLegs \ settled /\ settled \subseteq openLegs
    BY DEF Absorb, Settled
<1>5. tick \in Nat /\ tick' = tick + 1 /\ turn' = 1
    BY DEF Absorb, TypeInv
<1>6. UNCHANGED <<paused, rules, weights, locks, commitSeq, moves>>
    BY DEF Absorb
<1> HIDE DEF Closed, closed, settled
<1>7. TypeInv'
  <2>1. commits' \subseteq Commit /\ openLegs' \subseteq Leg
    BY <1>2, <1>3, <1>4 DEF TypeInv
  <2>2. \A s \in Slots : refs[s] \in Observation \cup {None}
    BY OrchestratorAssumption DEF TickRefs, OrchestratorAssumption, Observation
  <2>3. observed' \in [Slots -> Observation \cup {None}]
    BY <2>2 DEF Absorb, TickRefs
  <2>4. latest' \in [Slots -> Observation \cup {None}]
    BY <2>2 DEF Absorb, TypeInv
  <2>5. observations' \in [Slots -> Nat]
    BY DEF Absorb, TypeInv
  <2> QED BY <2>1, <2>3, <2>4, <2>5, <1>5, <1>6 DEF TypeInv
<1>8. Bands'
    BY <1>6 DEF Bands, InBand
<1>9. Numbered'
    BY <1>2, <1>3, <1>4, <1>6 DEF Numbered
<1>10. LegsHoldBudget'
  <2>1. ASSUME NEW leg \in openLegs'
        PROVE  \E d \in commits' : d.open /\ d.id = leg.commit /\ d.weight = leg.weight
    <3>1. PICK c \in commits : c.open /\ c.id = leg.commit /\ c.weight = leg.weight
        BY <1>4, LegHasCommit
    <3>2. c.id \notin closed
        BY <3>1, <1>4 DEF closed, Numbered
    <3>3. Closed(c) \in commits'
        BY <1>1, <1>2, <3>1, <3>2 DEF InWindow
    <3> QED BY <1>2, <3>1, <3>2, <3>3
  <2>2. ASSUME NEW d \in commits', d.open
        PROVE  \E leg \in openLegs' : d.id = leg.commit /\ d.weight = leg.weight
    <3>1. PICK c \in commits : d = Closed(c)
        BY <1>3
    <3>2. c.open /\ c.id \notin closed
        BY <2>2, <3>1, <1>2
    <3>3. PICK leg \in openLegs : leg.commit = c.id /\ leg.weight = c.weight
        BY <3>2, CommitHasLeg
    <3>4. leg \in openLegs'
        BY <3>2, <3>3, <1>4 DEF closed
    <3> QED BY <1>2, <3>1, <3>3, <3>4
  <2> QED BY <2>1, <2>2 DEF LegsHoldBudget
<1>11. FiredOnce'
    BY <1>5, <1>6 DEF FiredOnce, TypeInv, RuleState
<1>12. EntersCalm'
    BY <1>5, <1>6 DEF EntersCalm, MovesNumbered, TypeInv, MoveRecord
<1>13. MovesNumbered'
    BY <1>5, <1>6 DEF MovesNumbered, TypeInv, MoveRecord
<1>14. LocksAreLast'
    BY <1>6 DEF LocksAreLast
<1>15. ReversalsWait'
    BY <1>6 DEF ReversalsWait, Reverses
<1> QED BY <1>7, <1>8, <1>9, <1>10, <1>11, <1>12, <1>13, <1>14, <1>15

-----------------------------------------------------------------------------
(* The step of one rule                                                    *)

\* What any step of a rule keeps of the rules, when it fires at most once a tick.
LEMMA RuleStep ==
    ASSUME Inv, NEW i \in DOMAIN Rules, AtRule(i),
           rules' \in [DOMAIN Rules -> RuleState],
           \A j \in DOMAIN Rules \ {i} : rules'[j] = rules[j],
           rules'[i].firedAt <= tick,
           rules'[i].firedAt = tick => ~rules'[i].armed /\ Fires(Rules[i], rules[i])
    PROVE  /\ FiredOnce'
           /\ \A s \in Slots : Calm(s) => Calm(s)'
<1>1. /\ i \in 1 .. Len(Rules) /\ Len(Rules) \in Nat /\ DOMAIN Rules = 1 .. Len(Rules)
      /\ Rules[i].sustainPins \in Nat /\ Rules[i].sustainPins >= 2
    BY RuleType, OrchestratorAssumption DEF OrchestratorAssumption
<1>2. tick' = tick /\ turn = i /\ (turn' = 0 \/ turn' = i + 1)
    BY <1>1 DEF AtRule, NextRule
<1>3. FiredOnce'
    BY <1>1, <1>2 DEF Inv, FiredOnce
<1>4. ASSUME NEW s \in Slots, Calm(s)
      PROVE  Calm(s)'
  <2> SUFFICES ASSUME NEW j \in DOMAIN Rules,
                      Rules[j].slot = s, Rules[j].metric # "better_elsewhere"
               PROVE  /\ rules'[j].firedAt # tick'
                      /\ turn' # 0 /\ turn' <= j => rules'[j].streak = 0 /\ rules'[j].armed
    BY DEF Calm
  <2>1. CASE j = i
    <3>1. rules[i].streak = 0
        BY <1>1, <1>2, <1>4, <2>1 DEF Calm
    <3>2. ~Fires(Rules[i], rules[i])
        BY <1>1, <3>1 DEF Fires
    <3> QED BY <1>1, <1>2, <2>1, <3>2
  <2>2. CASE j # i
    <3>1. rules'[j] = rules[j] /\ j \in Nat
        BY <1>1, <2>2
    <3> QED BY <1>1, <1>2, <1>4, <3>1 DEF Calm
  <2> QED BY <2>1, <2>2
<1> QED BY <1>3, <1>4

\* A rule whose automaton advances without firing.
LEMMA AdvancedState ==
    ASSUME Inv, NEW i \in DOMAIN Rules, turn = i
    PROVE  /\ Advanced(Rules[i], rules[i]) \in RuleState
           /\ Advanced(Rules[i], rules[i]).firedAt < tick
<1>1. rules[i] \in RuleState /\ rules[i].firedAt < tick /\ tick \in Nat
  <2>1. i \in Nat /\ i # 0
    BY RuleType, OrchestratorAssumption DEF OrchestratorAssumption
  <2>2. rules[i] \in RuleState /\ tick \in Nat
    BY DEF Inv, TypeInv
  <2>3. turn # 0 /\ turn <= i
    BY <2>1
  <2> QED BY <2>2, <2>3 DEF Inv, FiredOnce
<1> DEFINE st == rules[i]
<1>2. initialRuleState \in RuleState /\ initialRuleState.firedAt < tick
    BY <1>1 DEF initialRuleState, Never, RuleState
<1>3. [st EXCEPT !.streak = 0] \in RuleState /\ [st EXCEPT !.streak = 0].firedAt < tick
    BY <1>1 DEF RuleState
<1>4. [st EXCEPT !.streak = @ + 1] \in RuleState /\ [st EXCEPT !.streak = @ + 1].firedAt < tick
    BY <1>1 DEF RuleState
<1>5. Rearmed(Rules[i], st) \in RuleState /\ Rearmed(Rules[i], st).firedAt < tick
  <2>1. [st EXCEPT !.rearmStreak = 0] \in RuleState /\ [st EXCEPT !.rearmStreak = 0].firedAt < tick
    BY <1>1 DEF RuleState
  <2>2. /\ [st EXCEPT !.rearmStreak = @ + 1] \in RuleState
        /\ [st EXCEPT !.rearmStreak = @ + 1].firedAt < tick
    BY <1>1 DEF RuleState
  <2>3. /\ [st EXCEPT !.armed = TRUE, !.rearmStreak = 0, !.streak = 0] \in RuleState
        /\ [st EXCEPT !.armed = TRUE, !.rearmStreak = 0, !.streak = 0].firedAt < tick
    BY <1>1 DEF RuleState
  <2> QED BY <2>1, <2>2, <2>3 DEF Rearmed
<1> QED BY <1>1, <1>2, <1>3, <1>4, <1>5 DEF Advanced

\* A rule that fires.
LEMMA FiredState ==
    ASSUME Inv
    PROVE  \A st : /\ Fired(st) \in RuleState
                   /\ Fired(st).firedAt = tick /\ ~Fired(st).armed
BY DEF Inv, TypeInv, Fired, RuleState

\* What a firing rule keeps of the rules.
LEMMA FiringStep ==
    ASSUME Inv, NEW i \in DOMAIN Rules, FiresNow(i)
    PROVE  /\ AtRule(i)
           /\ rules' \in [DOMAIN Rules -> RuleState]
           /\ FiredOnce'
           /\ \A s \in Slots : Calm(s) => Calm(s)'
<1>1. /\ AtRule(i) /\ Fires(Rules[i], rules[i])
      /\ rules' = [rules EXCEPT ![i] = Fired(@)]
    BY DEF FiresNow
<1>2. rules \in [DOMAIN Rules -> RuleState] /\ tick \in Nat
    BY DEF Inv, TypeInv
<1>3. /\ rules' \in [DOMAIN Rules -> RuleState]
      /\ \A j \in DOMAIN Rules \ {i} : rules'[j] = rules[j]
      /\ rules'[i].firedAt = tick /\ ~rules'[i].armed
    BY <1>1, <1>2, FiredState
<1> QED BY <1>1, <1>2, <1>3, RuleStep

\* The types of what a rule step that moves nothing leaves.
LEMMA RuleStepType ==
    ASSUME Inv, NEW i \in DOMAIN Rules, AtRule(i), UNCHANGED bookVars,
           rules' \in [DOMAIN Rules -> RuleState]
    PROVE  TypeInv'
<1>1. Len(Rules) \in Nat
    BY OrchestratorAssumption DEF OrchestratorAssumption
<1>2. turn' \in Nat
    BY <1>1 DEF AtRule, NextRule, Inv, TypeInv
<1> QED BY <1>2 DEF Inv, TypeInv, AtRule, runtimeVars, bookVars

\* Every step of a rule that moves nothing.
LEMMA QuietStepInv ==
    ASSUME Inv, NEW i \in DOMAIN Rules, AtRule(i), UNCHANGED bookVars,
           rules' \in [DOMAIN Rules -> RuleState], FiredOnce',
           \A s \in Slots : Calm(s) => Calm(s)'
    PROVE  Inv'
<1>1. tick' = tick /\ moves' = moves
    BY DEF AtRule, bookVars
<1>2. \A m \in moves : m.dest \in Slots
    BY DEF Inv, TypeInv, MoveRecord
<1>3. EntersCalm'
    BY <1>1, <1>2 DEF Inv, EntersCalm
<1> QED BY <1>1, <1>3, RuleStepType, BookKept DEF Inv

LEMMA NotObservedInv ==
    ASSUME Inv, NEW i \in DOMAIN Rules, NotObserved(i)
    PROVE  Inv'
<1>1. AtRule(i) /\ UNCHANGED bookVars /\ rules' = rules
    BY DEF NotObserved
<1>2. turn = i /\ tick \in Nat /\ rules \in [DOMAIN Rules -> RuleState]
    BY <1>1 DEF AtRule, Inv, TypeInv
<1>3. rules[i].firedAt < tick /\ rules[i].firedAt \in Int
  <2>1. i \in Nat /\ i # 0
    BY RuleType, OrchestratorAssumption DEF OrchestratorAssumption
  <2> QED BY <1>2, <2>1 DEF Inv, FiredOnce, RuleState
<1>4. FiredOnce' /\ \A s \in Slots : Calm(s) => Calm(s)'
    BY <1>1, <1>2, <1>3, RuleStep
<1> QED BY <1>1, <1>2, <1>4, QuietStepInv

LEMMA AdvancesInv ==
    ASSUME Inv, NEW i \in DOMAIN Rules, Advances(i)
    PROVE  Inv'
<1> DEFINE st == Advanced(Rules[i], rules[i])
<1>1. AtRule(i) /\ UNCHANGED bookVars /\ rules' = [rules EXCEPT ![i] = st]
    BY DEF Advances
<1>2. turn = i /\ tick \in Nat /\ rules \in [DOMAIN Rules -> RuleState]
    BY <1>1 DEF AtRule, Inv, TypeInv
<1>3. st \in RuleState /\ st.firedAt < tick
    BY <1>2, AdvancedState
<1> HIDE DEF st
<1>4. st.firedAt \in Int
    BY <1>3 DEF RuleState
<1>5. /\ rules' \in [DOMAIN Rules -> RuleState]
      /\ \A j \in DOMAIN Rules \ {i} : rules'[j] = rules[j]
      /\ rules'[i] = st
    BY <1>1, <1>2, <1>3
<1>6. FiredOnce' /\ \A s \in Slots : Calm(s) => Calm(s)'
    BY <1>1, <1>2, <1>3, <1>4, <1>5, RuleStep
<1> QED BY <1>1, <1>5, <1>6, QuietStepInv

LEMMA PausesInv ==
    ASSUME Inv, NEW i \in DOMAIN Rules, Pauses(i)
    PROVE  Inv'
BY FiringStep, QuietStepInv DEF Pauses

LEMMA StaysPutInv ==
    ASSUME Inv, NEW i \in DOMAIN Rules, StaysPut(i)
    PROVE  Inv'
BY FiringStep, QuietStepInv DEF StaysPut

-----------------------------------------------------------------------------
(* A move                                                                  *)

\* The destination of a move published its return, and no evacuation rule of it can fire.
LEMMA DestinationType ==
    ASSUME Inv, NEW i \in DOMAIN Rules, NEW dest \in Slots,
           observed[Rules[i].slot] # None,
           IsBest(dest, Rules[i].slot), ~Refused(Rules[i], Rules[i].slot, dest)
    PROVE  /\ dest # Rules[i].slot /\ Calm(dest)
           /\ latest[dest].riskAdj \in Nat /\ observed[Rules[i].slot].riskAdj \in Nat
<1>1. Rules[i].slot \in Slots
    BY RuleType
<1>2. dest # Rules[i].slot /\ latest[dest] # None /\ ~EvacuationBreaching(dest)
    BY DEF IsBest, Candidates
<1>3. latest[dest] \in Observation /\ observed[Rules[i].slot] \in Observation
    BY <1>1, <1>2 DEF Inv, TypeInv
<1>4. latest[dest].riskAdj # Unmeasured /\ observed[Rules[i].slot].riskAdj # Unmeasured
    BY DEF Refused
<1>5. latest[dest].riskAdj \in Nat /\ observed[Rules[i].slot].riskAdj \in Nat
    BY <1>3, <1>4 DEF Observation
<1>6. Calm(dest)
  <2> SUFFICES ASSUME NEW j \in DOMAIN Rules,
                      Rules[j].slot = dest, Rules[j].metric # "better_elsewhere"
               PROVE  rules[j].firedAt # tick /\ rules[j].streak = 0 /\ rules[j].armed
    BY DEF Calm
  <2>1. rules[j].armed /\ ~(rules[j].streak > 0)
    BY <1>2 DEF EvacuationBreaching
  <2>2. rules[j].streak \in Nat
    BY DEF Inv, TypeInv, RuleState
  <2>3. rules[j].firedAt # tick
    BY <2>1 DEF Inv, FiredOnce
  <2> QED BY <2>1, <2>2, <2>3
<1> QED BY <1>2, <1>5, <1>6

\* The lock of the reverse edge is a number of ticks.
LEMMA ReverseLockType ==
    ASSUME NEW i \in DOMAIN Rules, NEW dest \in Slots,
           latest[dest].riskAdj \in Nat, observed[Rules[i].slot].riskAdj \in Nat
    PROVE  ReverseLock(Rules[i], Rules[i].slot, dest) \in Nat
<1> DEFINE improvement == latest[dest].riskAdj - observed[Rules[i].slot].riskAdj
           payback == Payback(Rules[i].slot, dest)
           cooldowns == 2 * Rules[i].cooldown
           longest == Max({cooldowns, payback})
<1>1. MoveCost \in Nat /\ MaxReverseLock \in Nat /\ cooldowns \in Nat
    BY ConstantTypes, RuleType
<1>2. payback \in Nat
  <2>1. improvement \in Int
    OBVIOUS
  <2>2. payback = IF improvement <= 0 THEN MaxReverseLock + 1 ELSE MoveCost \div improvement
    BY DEF Payback
  <2> HIDE DEF improvement, payback
  <2>3. CASE improvement <= 0
    BY <1>1, <2>2, <2>3
  <2>4. CASE ~(improvement <= 0)
    <3>1. improvement \in Nat /\ improvement > 0
        BY <2>1, <2>4
    <3> QED BY <1>1, <2>2, <2>4, <3>1, QuotientType
  <2> QED BY <2>3, <2>4
<1> HIDE DEF payback, cooldowns
<1>3. longest \in {cooldowns, payback}
  <2>1. cooldowns \in Int /\ payback \in Int
    BY <1>1, <1>2
  <2> QED BY <2>1, MaxOfTwo, Zenon
<1>4. longest \in Nat
    BY <1>1, <1>2, <1>3
<1> HIDE DEF longest
<1>5. Min({MaxReverseLock, longest}) \in {MaxReverseLock, longest}
  <2>1. MaxReverseLock \in Int /\ longest \in Int
    BY <1>1, <1>4
  <2> QED BY <2>1, MinOfTwo, Zenon
<1>6. ReverseLock(Rules[i], Rules[i].slot, dest) = Min({MaxReverseLock, longest})
    BY DEF ReverseLock, longest, cooldowns, payback
<1> QED BY <1>1, <1>4, <1>5, <1>6

LEMMA MovesInv ==
    ASSUME Inv, NEW i \in DOMAIN Rules, Moves(i)
    PROVE  Inv'
<1> USE DEF Inv
<1> DEFINE source == Rules[i].slot
<1>1. PICK dest \in Slots :
          /\ IsBest(dest, source) /\ ~Refused(Rules[i], source, dest)
          /\ Move(Rules[i], source, dest)
    BY DEF Moves
<1>2. /\ AtRule(i) /\ rules' \in [DOMAIN Rules -> RuleState] /\ FiredOnce'
      /\ \A s \in Slots : Calm(s) => Calm(s)'
      /\ observed[source] # None
    BY FiringStep DEF Moves, FiresNow
<1>3. tick' = tick /\ UNCHANGED runtimeVars /\ turn' \in Nat
  <2>1. Len(Rules) \in Nat
    BY OrchestratorAssumption DEF OrchestratorAssumption
  <2> QED BY <1>2, <2>1 DEF AtRule, NextRule, TypeInv
<1>4. /\ dest # source /\ Calm(dest)
      /\ latest[dest].riskAdj \in Nat /\ observed[source].riskAdj \in Nat
    BY <1>1, <1>2, DestinationType
<1> DEFINE weight == MovedWeight(source, dest)
           lock == ReverseLock(Rules[i], source, dest)
           wait == SettleSeqs[<<source, dest>>]
           commit == [id |-> commitSeq', tick |-> tick, weight |-> weight, open |-> wait > 0]
           leg == [commit |-> commitSeq', dest |-> dest, weight |-> weight,
                   openedAt |-> observations[dest], settleSeqs |-> wait]
           move == [id |-> commitSeq', tick |-> tick, source |-> source, dest |-> dest,
                    weight |-> weight, lock |-> lock]
<1>5. lock \in Nat
    BY <1>4, ReverseLockType
<1>6. source \in Slots /\ wait \in Nat /\ tick \in Nat /\ commitSeq \in Nat
    BY RuleType, ConstantTypes DEF TypeInv
<1>7. /\ weight \in Nat
      /\ weight <= weights[source] - MinWeight[source]
      /\ weight <= MaxWeight[dest] - weights[dest]
  <2>1. weight # 0
    BY <1>1 DEF Refused
  <2> QED BY <1>6, <2>1, MovedWeightFits
<1>8. /\ weights' = [weights EXCEPT ![source] = @ - weight, ![dest] = @ + weight]
      /\ locks' = [locks EXCEPT ![<<dest, source>>] = tick + lock]
      /\ commitSeq' = commitSeq + 1 /\ commits' = commits \cup {commit}
      /\ openLegs' = IF wait = 0 THEN openLegs ELSE openLegs \cup {leg}
      /\ moves' = moves \cup {move}
    BY <1>1 DEF Move
<1> HIDE DEF source, weight, lock, wait
<1>9. commit \in Commit /\ leg \in Leg /\ move \in MoveRecord
  <2>1. observations[dest] \in Nat /\ commitSeq' \in Nat /\ (wait > 0) \in BOOLEAN
    BY <1>6, <1>8 DEF TypeInv
  <2> QED BY <1>5, <1>6, <1>7, <2>1 DEF Commit, Leg, MoveRecord
<1>10. /\ commit.id = commitSeq + 1 /\ commit.weight = weight /\ (commit.open <=> wait # 0)
       /\ leg.commit = commitSeq + 1 /\ leg.weight = weight
       /\ move.id = commitSeq + 1 /\ move.tick = tick /\ move.lock = lock
       /\ move.source = source /\ move.dest = dest
  <2>1. commit.id = commitSeq' /\ commit.weight = weight /\ commit.open = (wait > 0)
    OBVIOUS
  <2>2. leg.commit = commitSeq' /\ leg.weight = weight
    OBVIOUS
  <2>3. /\ move.id = commitSeq' /\ move.tick = tick /\ move.lock = lock
        /\ move.source = source /\ move.dest = dest
    OBVIOUS
  <2> HIDE DEF commit, leg, move
  <2>4. wait > 0 <=> wait # 0
    BY <1>6
  <2>5. commit.open <=> wait # 0
    BY <2>1, <2>4, Zenon
  <2>6. commitSeq' = commitSeq + 1
    BY <1>8
  <2> QED BY <2>1, <2>2, <2>3, <2>5, <2>6
<1> HIDE DEF commit, leg, move
<1>11. weights \in [Slots -> Nat] /\ MinWeight \in [Slots -> Nat] /\ MaxWeight \in [Slots -> Nat]
    BY ConstantTypes DEF TypeInv
<1>12. weights' \in [Slots -> Nat] /\ Bands'
    BY <1>4, <1>6, <1>7, <1>8, <1>11 DEF Bands, InBand
<1>13. TypeInv'
  <2>1. locks' \in [Slots \X Slots -> Nat]
    BY <1>5, <1>6, <1>8 DEF TypeInv
  <2>2. commits' \subseteq Commit /\ openLegs' \subseteq Leg /\ moves' \subseteq MoveRecord
    BY <1>8, <1>9 DEF TypeInv
  <2> QED BY <1>2, <1>3, <1>6, <1>8, <1>12, <2>1, <2>2 DEF TypeInv, runtimeVars
<1>14. /\ \A c \in commits : c.id \in Nat /\ c.id <= commitSeq
       /\ \A l \in openLegs : l.commit \in Nat /\ l.commit <= commitSeq
       /\ \A m \in moves : m.id \in Nat /\ m.tick \in Nat /\ m.lock \in Nat
                           /\ m.id <= commitSeq /\ m.tick <= tick
    BY DEF TypeInv, Numbered, MovesNumbered, Commit, Leg, MoveRecord
<1>15. Numbered'
    BY <1>6, <1>8, <1>10, <1>14 DEF Numbered
<1>16. LegsHoldBudget'
  <2>1. ASSUME NEW l \in openLegs'
        PROVE  \E c \in commits' : c.open /\ c.id = l.commit /\ c.weight = l.weight
    <3>1. CASE l \in openLegs
        BY <1>8, <3>1, LegHasCommit
    <3>2. CASE l \notin openLegs
        BY <1>8, <1>10, <2>1, <3>2
    <3> QED BY <3>1, <3>2
  <2>2. ASSUME NEW c \in commits', c.open
        PROVE  \E l \in openLegs' : c.id = l.commit /\ c.weight = l.weight
    <3>1. CASE c \in commits
      <4>1. PICK l \in openLegs : c.id = l.commit /\ c.weight = l.weight
        BY <2>2, <3>1, CommitHasLeg
      <4> QED BY <1>8, <4>1
    <3>2. CASE c \notin commits
        BY <1>8, <1>10, <2>2, <3>2
    <3> QED BY <3>1, <3>2
  <2> QED BY <2>1, <2>2 DEF LegsHoldBudget
<1>17. EntersCalm'
  <2>1. \A m \in moves : m.dest \in Slots
    BY DEF TypeInv, MoveRecord
  <2> QED BY <1>2, <1>3, <1>4, <1>8, <1>10, <2>1 DEF EntersCalm
<1>18. MovesNumbered'
    BY <1>3, <1>6, <1>8, <1>10, <1>14 DEF MovesNumbered
<1>19. LocksAreLast'
  <2> SUFFICES ASSUME NEW m \in moves'
               PROVE  \E again \in moves' :
                          /\ again.source = m.source /\ again.dest = m.dest /\ m.id <= again.id
                          /\ again.tick + again.lock = locks'[<<m.dest, m.source>>]
    BY DEF LocksAreLast
  <2>1. locks'[<<dest, source>>] = tick + lock
    BY <1>6, <1>8 DEF TypeInv
  <2>2. CASE m.source = source /\ m.dest = dest
    <3>1. m.id <= move.id
        BY <1>6, <1>8, <1>10, <1>14
    <3> QED BY <1>8, <1>10, <2>1, <2>2, <3>1
  <2>3. CASE ~(m.source = source /\ m.dest = dest)
    <3>1. m \in moves
        BY <1>8, <1>10, <2>3
    <3>2. <<m.dest, m.source>> \in Slots \X Slots
        BY <3>1 DEF TypeInv, MoveRecord
    <3>3. locks'[<<m.dest, m.source>>] = locks[<<m.dest, m.source>>]
        BY <1>8, <2>3, <3>2 DEF TypeInv
    <3> QED BY <1>8, <3>1, <3>3 DEF LocksAreLast
  <2> QED BY <2>2, <2>3
<1>20. ReversalsWait'
  <2> SUFFICES ASSUME NEW m \in moves', NEW back \in moves',
                      Reverses(m, back), back.tick < m.tick + m.lock
               PROVE  \E again \in moves' :
                          /\ again.id \in m.id + 1 .. back.id - 1
                          /\ again.source = m.source /\ again.dest = m.dest
                          /\ again.tick + again.lock <= back.tick
    BY DEF ReversalsWait, Reverses
  <2>1. m \in moves
    <3>1. back.id <= commitSeq + 1 /\ back.id \in Nat
        BY <1>6, <1>8, <1>10, <1>14
    <3> QED BY <1>6, <1>8, <1>10, <3>1 DEF Reverses
  <2>2. CASE back \in moves
    BY <1>8, <2>1, <2>2 DEF ReversalsWait, Reverses
  <2>3. CASE back \notin moves
    <3>1. back.id = commitSeq + 1 /\ back.tick = tick /\ m.dest = source /\ m.source = dest
        BY <1>8, <1>10, <2>3 DEF Reverses
    <3>2. PICK again \in moves :
              /\ again.source = m.source /\ again.dest = m.dest /\ m.id <= again.id
              /\ again.tick + again.lock = locks[<<m.dest, m.source>>]
        BY <2>1 DEF LocksAreLast
    <3>3. locks[<<source, dest>>] <= tick
      <4>1. ~EdgeLocked(source, dest)
        BY <1>1 DEF Refused, source
      <4>2. locks[<<source, dest>>] \in Nat
        BY <1>6 DEF TypeInv
      <4> QED BY <1>6, <4>1, <4>2 DEF EdgeLocked
    <3>4. again.tick + again.lock <= back.tick
        BY <3>1, <3>2, <3>3
    <3>5. again # m
        BY <1>6, <1>14, <2>1, <3>1, <3>4
    <3>6. again.id # m.id
        BY <2>1, <3>5 DEF MovesNumbered
    <3>7. again.id \in m.id + 1 .. back.id - 1
        BY <1>6, <1>14, <2>1, <3>1, <3>2, <3>6
    <3> QED BY <1>8, <3>2, <3>4, <3>7
  <2> QED BY <2>2, <2>3
<1> QED BY <1>2, <1>12, <1>13, <1>15, <1>16, <1>17, <1>18, <1>19, <1>20

-----------------------------------------------------------------------------
(* The book and the turnover                                               *)

\* The whole book.
BookIsWhole == SumFunction(weights) = Total

\* Moves of the last BudgetWindow ticks, and commits the budget counts.
RecentMoves == {m \in moves : m.tick > tick - BudgetWindow}
Spending == {c \in commits : InWindow(c, tick)}

(***************************************************************************)
(* Every recent move has its commit on the budget: a commit may settle, it *)
(* is not pruned before its window has passed.                             *)
(***************************************************************************)
MovesCommitted ==
    \A m \in RecentMoves : \E c \in commits : c.id = m.id /\ c.tick = m.tick /\ c.weight = m.weight

Turnover ==
    /\ IsFiniteSet(commits) /\ IsFiniteSet(moves)
    /\ MovesCommitted /\ TurnoverInBudget

\* Adding a record to a finite set adds its weight.
LEMMA WeightOfOneMore ==
    ASSUME NEW S, IsFiniteSet(S), NEW r, r \notin S,
           \A x \in S \cup {r} : x.weight \in Nat
    PROVE  WeightOf(S \cup {r}) = WeightOf(S) + r.weight
<1> DEFINE f == [x \in S \cup {r} |-> x.weight]
           g == [x \in S |-> x.weight]
<1>1. f \in [S \cup {r} -> Nat] /\ g \in [S -> Nat] /\ f[r] = r.weight /\ \A x \in S : g[x] = f[x]
    OBVIOUS
<1>2. WeightOf(S \cup {r}) = SumFunction(f) /\ WeightOf(S) = SumFunction(g)
    BY DEF WeightOf
<1> HIDE DEF f, g
<1> QED BY <1>1, <1>2, SumOfOneMore

\* Records that are found, one each, in another set weigh no more than it.
LEMMA WeightOfInjects ==
    ASSUME NEW A, IsFiniteSet(A), NEW B, IsFiniteSet(B),
           \A x \in A \cup B : x.weight \in Nat,
           NEW h \in [A -> B], \A x, y \in A : h[x] = h[y] => x = y,
           \A x \in A : h[x].weight = x.weight
    PROVE  WeightOf(A) <= WeightOf(B) /\ WeightOf(A) \in Nat /\ WeightOf(B) \in Nat
<1> DEFINE f == [x \in A |-> x.weight]
           g == [x \in B |-> x.weight]
<1>1. f \in [A -> Nat] /\ g \in [B -> Nat] /\ \A x \in A : f[x] = g[h[x]]
    OBVIOUS
<1>2. WeightOf(A) = SumFunction(f) /\ WeightOf(B) = SumFunction(g)
    BY DEF WeightOf
<1> HIDE DEF f, g
<1>3. SumFunction(f) <= SumFunction(g)
    BY <1>1, SumInjects
<1>4. SumFunction(f) \in Nat /\ SumFunction(g) \in Nat
    BY <1>1, SumIsTotal
<1> QED BY <1>2, <1>3, <1>4

\* A part of a finite set of records weighs no more than the whole.
LEMMA WeightOfPart ==
    ASSUME NEW B, IsFiniteSet(B), NEW A \in SUBSET B, \A x \in B : x.weight \in Nat
    PROVE  WeightOf(A) <= WeightOf(B) /\ WeightOf(A) \in Nat /\ WeightOf(B) \in Nat
<1> DEFINE h == [x \in A |-> x]
<1>1. /\ h \in [A -> B] /\ IsFiniteSet(A)
      /\ \A x, y \in A : h[x] = h[y] => x = y
      /\ \A x \in A : h[x].weight = x.weight
    BY FS_Subset
<1>2. \A x \in A \cup B : x.weight \in Nat
    OBVIOUS
<1> HIDE DEF h
<1> QED BY <1>1, <1>2, WeightOfInjects

\* What the recent moves moved is spent.
LEMMA RecentIsSpent ==
    ASSUME Inv, Turnover
    PROVE  WeightOf(RecentMoves) <= Spent /\ WeightOf(RecentMoves) \in Nat /\ Spent \in Nat
<1> DEFINE h == [m \in RecentMoves |->
                    CHOOSE c \in commits : c.id = m.id /\ c.tick = m.tick /\ c.weight = m.weight]
<1>1. ASSUME NEW m \in RecentMoves
      PROVE  h[m] \in commits /\ h[m].id = m.id /\ h[m].tick = m.tick /\ h[m].weight = m.weight
  <2>1. \E c \in commits : c.id = m.id /\ c.tick = m.tick /\ c.weight = m.weight
    BY DEF Turnover, MovesCommitted
  <2> QED BY <2>1
<1>2. h \in [RecentMoves -> Spending]
  <2>1. \A m \in RecentMoves : h[m] \in Spending
    <3> HIDE DEF h
    <3> QED BY <1>1 DEF RecentMoves, Spending, InWindow
  <2>2. h = [m \in RecentMoves |-> h[m]]
    OBVIOUS
  <2> HIDE DEF h
  <2> QED BY <2>1, <2>2
<1> HIDE DEF h
<1>3. \A m, n \in RecentMoves : h[m] = h[n] => m = n
    BY <1>1 DEF RecentMoves, Inv, MovesNumbered
<1>4. IsFiniteSet(RecentMoves) /\ IsFiniteSet(Spending)
    BY FS_Subset DEF Turnover, RecentMoves, Spending
<1>5. \A x \in RecentMoves \cup Spending : x.weight \in Nat
    BY DEF RecentMoves, Spending, Inv, TypeInv, Commit, MoveRecord
<1>6. Spent = WeightOf(Spending)
    BY DEF Spent, Spending
<1> QED BY <1>1, <1>2, <1>3, <1>4, <1>5, <1>6, WeightOfInjects

\* The new commits of a tick are the old ones, some of them settled, but those out of the window.
LEMMA AbsorbTurnover ==
    ASSUME Inv, Turnover, NEW refs \in TickRefs, Absorb(refs)
    PROVE  Turnover'
<1> DEFINE closed == {leg.commit : leg \in Settled(observations')}
           Closed(c) == [c EXCEPT !.open = @ /\ c.id \notin closed]
           now == {Closed(c) : c \in commits}
<1>1. commits' = {d \in now : InWindow(d, tick')} /\ moves' = moves /\ tick' = tick + 1
    BY DEF Absorb
<1>2. tick \in Nat /\ BudgetWindow \in Nat /\ moves \subseteq MoveRecord
    BY OrchestratorAssumption DEF Inv, TypeInv, OrchestratorAssumption
<1>3. ASSUME NEW c \in commits
      PROVE  Closed(c).id = c.id /\ Closed(c).tick = c.tick /\ Closed(c).weight = c.weight
  <2>1. c \in Commit
    BY DEF Inv, TypeInv
  <2> QED BY <2>1 DEF Commit
<1>4. IsFiniteSet(commits') /\ IsFiniteSet(moves')
  <2>1. IsFiniteSet(now)
    <3> HIDE DEF Closed
    <3>1. IsFiniteSet(commits)
      BY DEF Turnover
    <3>2. \E f : f \in [commits -> now] /\ \A y \in now : \E x \in commits : f[x] = y
      <4> WITNESS [c \in commits |-> Closed(c)]
      <4> QED OBVIOUS
    <3>3. PICK f : f \in Surjection(commits, now)
      BY <3>2 DEF Surjection
    <3> HIDE DEF now
    <3> QED BY <3>1, <3>3, FS_Surjection
  <2>2. commits' \subseteq now
    BY <1>1
  <2> HIDE DEF now
  <2> QED BY <1>1, <2>1, <2>2, FS_Subset DEF Turnover
<1>5. RecentMoves' \subseteq RecentMoves
    BY <1>1, <1>2 DEF RecentMoves, MoveRecord
<1>6. MovesCommitted'
  <2> SUFFICES ASSUME NEW m \in RecentMoves'
               PROVE  \E c \in commits' : c.id = m.id /\ c.tick = m.tick /\ c.weight = m.weight
    BY DEF MovesCommitted
  <2>1. PICK c \in commits : c.id = m.id /\ c.tick = m.tick /\ c.weight = m.weight
    BY <1>5 DEF Turnover, MovesCommitted
  <2>2. InWindow(Closed(c), tick')
    <3> HIDE DEF Closed
    <3> QED BY <1>3, <2>1 DEF InWindow, RecentMoves
  <2>3. Closed(c) \in commits'
    <3>1. Closed(c) \in now
      OBVIOUS
    <3> HIDE DEF Closed, now
    <3> QED BY <1>1, <2>2, <3>1
  <2> HIDE DEF Closed
  <2> QED BY <1>3, <2>1, <2>3
<1>7. TurnoverInBudget'
  <2>1. IsFiniteSet(RecentMoves) /\ \A m \in RecentMoves : m.weight \in Nat
    BY <1>2, FS_Subset DEF Turnover, RecentMoves, MoveRecord
  <2>2. WeightOf(RecentMoves') <= WeightOf(RecentMoves)
        /\ WeightOf(RecentMoves') \in Nat /\ WeightOf(RecentMoves) \in Nat
    BY <1>5, <2>1, WeightOfPart
  <2>3. WeightOf(RecentMoves) <= Ceiling /\ Ceiling \in Nat
    BY OrchestratorAssumption DEF Turnover, TurnoverInBudget, RecentMoves, OrchestratorAssumption
  <2>4. WeightOf(RecentMoves') <= Ceiling
    BY <2>2, <2>3
  <2> QED BY <2>4 DEF TurnoverInBudget, RecentMoves, WeightOf
<1> QED BY <1>4, <1>6, <1>7 DEF Turnover

\* A move fits into what the budget has left, and is on the budget from then on.
LEMMA MovesTurnover ==
    ASSUME Inv, Turnover, NEW i \in DOMAIN Rules, Moves(i)
    PROVE  Turnover'
<1> DEFINE source == Rules[i].slot
<1>1. PICK dest \in Slots : ~Refused(Rules[i], source, dest) /\ Move(Rules[i], source, dest)
    BY DEF Moves
<1> DEFINE weight == MovedWeight(source, dest)
           wait == SettleSeqs[<<source, dest>>]
           lock == ReverseLock(Rules[i], source, dest)
           commit == [id |-> commitSeq', tick |-> tick, weight |-> weight, open |-> wait > 0]
           move == [id |-> commitSeq', tick |-> tick, source |-> source, dest |-> dest,
                    weight |-> weight, lock |-> lock]
<1>2. /\ tick' = tick /\ commitSeq' = commitSeq + 1
      /\ commits' = commits \cup {commit} /\ moves' = moves \cup {move}
    BY <1>1 DEF Move, Moves, FiresNow, AtRule
<1>3. /\ commit.id = commitSeq' /\ commit.tick = tick /\ commit.weight = weight
      /\ move.id = commitSeq' /\ move.tick = tick /\ move.weight = weight
    OBVIOUS
<1>4. weight \in Nat /\ weight <= MoveSize(source) /\ MoveSize(source) \in Int
  <2>1. source \in Slots /\ weight # 0
    BY <1>1, RuleType DEF Refused
  <2> QED BY <2>1, MovedWeightFits DEF Inv
<1> HIDE DEF weight, commit, move
<1>5. tick \in Nat /\ commitSeq \in Nat /\ BudgetWindow \in Nat /\ BudgetWindow > 0 /\ Ceiling \in Nat
    BY OrchestratorAssumption DEF Inv, TypeInv, OrchestratorAssumption
<1>6. IsFiniteSet(commits') /\ IsFiniteSet(moves')
    BY <1>2, FS_AddElement DEF Turnover
<1>7. RecentMoves' = RecentMoves \cup {move}
    BY <1>2, <1>3, <1>5 DEF RecentMoves
<1>8. MovesCommitted'
  <2> SUFFICES ASSUME NEW m \in RecentMoves'
               PROVE  \E c \in commits' : c.id = m.id /\ c.tick = m.tick /\ c.weight = m.weight
    BY DEF MovesCommitted
  <2>1. CASE m \in RecentMoves
    BY <1>2, <2>1 DEF Turnover, MovesCommitted
  <2>2. CASE m = move
    BY <1>2, <1>3, <2>2
  <2> QED BY <1>7, <2>1, <2>2
<1>9. move \notin RecentMoves
    BY <1>2, <1>3, <1>5 DEF RecentMoves, Inv, TypeInv, MovesNumbered, MoveRecord
<1>10. WeightOf(RecentMoves') = WeightOf(RecentMoves) + weight
  <2>1. IsFiniteSet(RecentMoves)
    BY FS_Subset DEF Turnover, RecentMoves
  <2>2. \A x \in RecentMoves \cup {move} : x.weight \in Nat
    BY <1>3, <1>4 DEF RecentMoves, Inv, TypeInv, MoveRecord
  <2> QED BY <1>3, <1>7, <1>9, <2>1, <2>2, WeightOfOneMore
<1>11. Spent + MoveSize(source) <= Ceiling
  <2>1. ~(Spent + MoveSize(source) > Ceiling)
    BY <1>1 DEF Refused
  <2> QED BY <1>4, <1>5, <2>1, RecentIsSpent
<1>12. WeightOf(RecentMoves') <= Ceiling
    BY <1>4, <1>5, <1>10, <1>11, RecentIsSpent
<1>13. TurnoverInBudget'
    BY <1>12 DEF TurnoverInBudget, RecentMoves, WeightOf
<1> QED BY <1>6, <1>8, <1>13 DEF Turnover

\* Every other step leaves weights, moves and commits alone.
LEMMA QuietTurnover ==
    ASSUME Turnover, UNCHANGED <<weights, commits, moves, tick>>
    PROVE  Turnover'
BY DEF Turnover, MovesCommitted, RecentMoves, TurnoverInBudget

\* What a move takes from its source it gives to its destination.
LEMMA MovesBook ==
    ASSUME Inv, BookIsWhole, NEW i \in DOMAIN Rules, Moves(i)
    PROVE  BookIsWhole'
<1> DEFINE source == Rules[i].slot
<1>1. PICK dest \in Slots :
          /\ IsBest(dest, source) /\ ~Refused(Rules[i], source, dest)
          /\ Move(Rules[i], source, dest)
    BY DEF Moves
<1> DEFINE weight == MovedWeight(source, dest)
<1>2. source \in Slots /\ source # dest /\ weight # 0
    BY <1>1, RuleType DEF Refused, IsBest, Candidates
<1>3. /\ weights \in [Slots -> Nat] /\ IsFiniteSet(Slots) /\ MinWeight[source] \in Nat
    BY <1>2, OrchestratorAssumption, ConstantTypes DEF Inv, TypeInv, OrchestratorAssumption
<1>4. weight \in Nat /\ weight <= weights[source]
  <2>1. weight \in Nat /\ weight <= weights[source] - MinWeight[source]
    BY <1>2, MovedWeightFits DEF Inv
  <2>2. weights[source] \in Nat
    BY <1>2, <1>3
  <2> HIDE DEF weight, source
  <2> QED BY <1>3, <2>1, <2>2
<1>5. weights' = [weights EXCEPT ![source] = @ - weight, ![dest] = @ + weight]
    BY <1>1 DEF Move
<1> HIDE DEF weight, source
<1>6. IsSum(Slots, weights, Total)
    BY <1>3, SumIsTotal DEF BookIsWhole
<1>7. weights' \in [Slots -> Nat] /\ IsSum(Slots, weights', Total)
    BY <1>2, <1>3, <1>4, <1>5, <1>6, SumOfMove
<1> QED BY <1>3, <1>7, SumFunctionIsSum DEF BookIsWhole

\* The book and the turnover, step by step.
LEMMA BudgetStep ==
    ASSUME Inv, BookIsWhole, Turnover, [Next]_vars
    PROVE  BookIsWhole' /\ Turnover'
<1>1. ASSUME NEW refs \in TickRefs, Absorb(refs) PROVE BookIsWhole' /\ Turnover'
  <2>1. weights' = weights
    BY <1>1 DEF Absorb
  <2> QED BY <1>1, <2>1, AbsorbTurnover DEF BookIsWhole
<1>2. ASSUME NEW i \in DOMAIN Rules, Moves(i) PROVE BookIsWhole' /\ Turnover'
    BY <1>2, MovesBook, MovesTurnover
<1>3. ASSUME NEW i \in DOMAIN Rules, NotObserved(i) \/ Advances(i) \/ Pauses(i) \/ StaysPut(i)
      PROVE  BookIsWhole' /\ Turnover'
  <2>1. UNCHANGED <<weights, commits, moves, tick>>
    BY <1>3 DEF NotObserved, Advances, Pauses, StaysPut, FiresNow, AtRule, bookVars
  <2> QED BY <2>1, QuietTurnover DEF BookIsWhole
<1>4. CASE UNCHANGED vars
  <2>1. UNCHANGED <<weights, commits, moves, tick>>
    BY <1>4 DEF vars, bookVars
  <2> QED BY <2>1, QuietTurnover DEF BookIsWhole
<1> QED BY <1>1, <1>2, <1>3, <1>4 DEF Next

-----------------------------------------------------------------------------
(* The theorems                                                            *)

\* The inductive invariant.
THEOREM Invariance == Spec => []Inv
<1>1. Init => Inv
    BY InitInv
<1>2. Inv /\ [Next]_vars => Inv'
  <2> SUFFICES ASSUME Inv, [Next]_vars
               PROVE  Inv'
    OBVIOUS
  <2>1. ASSUME NEW refs \in TickRefs, Absorb(refs) PROVE Inv'
    BY <2>1, AbsorbInv
  <2>2. ASSUME NEW i \in DOMAIN Rules, NotObserved(i) PROVE Inv'
    BY <2>2, NotObservedInv
  <2>3. ASSUME NEW i \in DOMAIN Rules, Advances(i) PROVE Inv'
    BY <2>3, AdvancesInv
  <2>4. ASSUME NEW i \in DOMAIN Rules, Pauses(i) PROVE Inv'
    BY <2>4, PausesInv
  <2>5. ASSUME NEW i \in DOMAIN Rules, StaysPut(i) PROVE Inv'
    BY <2>5, StaysPutInv
  <2>6. ASSUME NEW i \in DOMAIN Rules, Moves(i) PROVE Inv'
    BY <2>6, MovesInv
  <2>7. CASE UNCHANGED vars
    BY <2>7, StutterInv
  <2> QED BY <2>1, <2>2, <2>3, <2>4, <2>5, <2>6, <2>7 DEF Next
<1> QED BY <1>1, <1>2, PTL DEF Spec

\* The book stays whole and the recent moves within the ceiling.
THEOREM BudgetInvariance == Spec => [](BookIsWhole /\ Turnover)
<1>1. Init => BookIsWhole /\ Turnover
  <2> SUFFICES ASSUME Init PROVE BookIsWhole /\ Turnover
    OBVIOUS
  <2>1. BookIsWhole
    BY OrchestratorAssumption DEF Init, BookIsWhole, OrchestratorAssumption
  <2>2. IsFiniteSet(commits) /\ IsFiniteSet(moves) /\ RecentMoves = {}
    BY FS_EmptySet DEF Init, RecentMoves
  <2>3. WeightOf(RecentMoves) = 0
    <3>1. IsSum({}, [x \in {} |-> 0], 0) /\ IsFiniteSet({})
      BY SumOfZero, FS_EmptySet
    <3>2. [x \in RecentMoves |-> x.weight] = [x \in {} |-> 0]
      BY <2>2
    <3>3. [x \in {} |-> 0] \in [{} -> Nat]
      OBVIOUS
    <3> QED BY <3>1, <3>2, <3>3, SumFunctionIsSum DEF WeightOf
  <2>4. TurnoverInBudget
    BY <2>3, OrchestratorAssumption DEF TurnoverInBudget, RecentMoves, OrchestratorAssumption
  <2> QED BY <2>1, <2>2, <2>4 DEF Turnover, MovesCommitted
<1>2. Inv /\ (BookIsWhole /\ Turnover) /\ [Next]_vars => (BookIsWhole /\ Turnover)'
    BY BudgetStep
<1> QED BY <1>1, <1>2, Invariance, PTL DEF Spec

(***************************************************************************)
(* The weights of the lanes always add up to the whole book, each inside   *)
(* its band: the clamp of applyMove keeps the bands on its own, and what   *)
(* one lane gives another takes.                                           *)
(***************************************************************************)
THEOREM WeightsStayInBand == Spec => []WeightsInBand
<1>1. Inv /\ BookIsWhole => WeightsInBand
    BY DEF Inv, Bands, BookIsWhole, WeightsInBand
<1> QED BY <1>1, Invariance, BudgetInvariance, PTL

(***************************************************************************)
(* However rules fire, legs settle and commits are pruned, what was moved  *)
(* in the last BudgetWindow ticks is within the ceiling: the sum the code  *)
(* compares counts every recent move, as no commit is pruned early.        *)
(***************************************************************************)
THEOREM TurnoverStaysInBudget == Spec => []TurnoverInBudget
<1>1. Turnover => TurnoverInBudget
    BY DEF Turnover
<1> QED BY <1>1, BudgetInvariance, PTL

\* The capital in flight is the capital the turnover budget holds open.
THEOREM LegsHoldBudgetHolds == Spec => []LegsHoldBudget
<1>1. Inv => LegsHoldBudget
    BY DEF Inv
<1> QED BY <1>1, Invariance, PTL

\* No capital enters a lane on the tick one of its evacuation rules fires.
THEOREM NeverIntoCondemnedHolds == Spec => []NeverIntoCondemned
<1>1. Inv => NeverIntoCondemned
    BY DEF Inv, EntersCalm, Calm, NeverIntoCondemned, Condemned
<1> QED BY <1>1, Invariance, PTL

\* No move is reversed before its own lock, or a later lock of the same edge, has run out.
THEOREM ReversalsWaitHolds == Spec => []ReversalsWait
<1>1. Inv => ReversalsWait
    BY DEF Inv
<1> QED BY <1>1, Invariance, PTL

=============================================================================
