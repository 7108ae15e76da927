------------------------------- MODULE Canvas -------------------------------
(***************************************************************************)
(* The build canvas at work: RackCanvas.tsx over the pure operations of    *)
(* LaneGraph and of graph-ops.ts.  One user edits the lanes of a portfolio *)
(* while timers of the page land: the beat of an add or an eject, the      *)
(* staggered install of a market's default modules, the debounced request  *)
(* for a lane's quote and the answers to the requests in flight.           *)
(*                                                                         *)
(* An action is one handler of the page together with the render and the   *)
(* effects it brings about.  Of a request the market is kept and whether   *)
(* the lane is levered.  The copilot, the template links, the drafts and   *)
(* the dials are left out.                                                 *)
(***************************************************************************)
EXTENDS LaneGraph

CONSTANTS
    MaxLanes,       \* bound: lanes of a portfolio
    Keys,           \* DEMO_SCOPE.liveModules, the source aside
    Shares,         \* bound: shares the user sets
    Total,          \* 10000 basis points
    UndoDepth,      \* UNDO_DEPTH
    MaxEdits        \* bound: presses

ASSUME CanvasAssumption ==
    /\ MaxLanes \in Nat \ {0} /\ Total \in Nat \ {0} /\ MaxEdits \in Nat /\ UndoDepth \in Nat \ {0}
    /\ Keys \subseteq ModuleKeys /\ Shares \subseteq 0..Total

LoopIds == 1..MaxLanes

VARIABLES
    portfolio,      \* lanes, by id; the orchestrator's flag and its shares
    undoStack,      \* portfolios to go back to
    beat,           \* the add or eject whose commit is deferred
    installs,       \* modules a pressed install has still to seat
    repriceSigs,    \* repriceSigs[l]: the terms the last quote of l was asked for
    repriceTimers,  \* repriceTimers[l]: the terms a debounced request will name
    asked,          \* requests in flight
    reprices,       \* reprices[l]: the terms the quote shown on l is about
    edits           \* presses so far

quoteVars == <<repriceSigs, repriceTimers, asked, reprices>>
vars == <<portfolio, undoStack, beat, installs, quoteVars, edits>>

NoBeat == [loopId |-> 0]

Terms(m, levered) == [market |-> m, levered |-> levered]

NoTerms == Terms(NoMarket, FALSE)

NoQuote == [terms |-> NoTerms, ok |-> FALSE]

\* A module that moves the priced number.
invalidatesQuote(key) == key \notin {"exogenous-risk", "redemption-route"}

lanes == portfolio.lanes

Ids == DOMAIN lanes

-----------------------------------------------------------------------------
(* The portfolio                                                           *)

SumOver(f, S) == SumFunction(Restrict(f, S))

(***************************************************************************)
(* Largest remainder: want[i] / den of the total each, rounded down, and   *)
(* what is left one each to the largest fractions, the first ones first.   *)
(***************************************************************************)
LargestRemainder(ids, want, den, total) ==
    LET floors == [i \in ids |-> want[i] \div den]
        frac == [i \in ids |-> want[i] % den]
        left == total - SumOver(floors, ids)
        ahead(i) == {j \in ids : frac[j] > frac[i] \/ (frac[j] = frac[i] /\ j < i)}
    IN  [i \in ids |-> floors[i] + IF Cardinality(ahead(i)) < left THEN 1 ELSE 0]

\* New lanes enter at the even share, the others keep their ratios in the rest.
normalizeAllocations(prev, ids) ==
    LET n == Cardinality(ids)
        existing == ids \cap DOMAIN prev
        prior == SumOver(prev, existing)
    IN  IF prior = 0 THEN LargestRemainder(ids, [i \in ids |-> Total], n, Total)
        ELSE LargestRemainder(ids,
                [i \in ids |-> IF i \in existing
                               THEN prev[i] * Total * Cardinality(existing)
                               ELSE prior * Total],
                prior * n, Total)

withOrchestratorRule(ls, prev) ==
    [lanes |-> ls, enabled |-> Cardinality(DOMAIN ls) >= 2,
     alloc |-> normalizeAllocations(prev, DOMAIN ls)]

newLoopId(ids) == Max({0} \cup ids) + 1

addLoop(p) ==
    LET id == newLoopId(DOMAIN p.lanes)
    IN  withOrchestratorRule([l \in DOMAIN p.lanes \cup {id} |->
                                 IF l = id THEN EmptyLane ELSE p.lanes[l]], p.alloc)

\* Mutant of removeLoop: the orchestrator is left as it was.
removeLoopOnly(p, l) == [p EXCEPT !.lanes = Restrict(@, DOMAIN @ \ {l})]

removeLoop(p, l) ==
    withOrchestratorRule(Restrict(p.lanes, DOMAIN p.lanes \ {l}),
                         Restrict(p.alloc, DOMAIN p.alloc \ {l}))

setAllocation(p, l, bps) ==
    LET others == DOMAIN p.lanes \ {l}
        prior == SumOver(p.alloc, others)
        rest == Total - bps
        shares == IF prior > 0
                  THEN LargestRemainder(others, [i \in others |-> p.alloc[i] * rest], prior, rest)
                  ELSE LargestRemainder(others, [i \in others |-> rest], Cardinality(others), rest)
    IN  [p EXCEPT !.alloc = [i \in DOMAIN p.lanes |-> IF i = l THEN bps ELSE shares[i]]]

EmptyPortfolio == [lanes |-> <<>>, enabled |-> FALSE, alloc |-> <<>>]

InitialPortfolio == addLoop(EmptyPortfolio)

Init ==
    /\ portfolio = InitialPortfolio
    /\ undoStack = <<>> /\ beat = NoBeat /\ installs = <<>>
    /\ repriceSigs = [l \in LoopIds |-> NoTerms]
    /\ repriceTimers = [l \in LoopIds |-> NoTerms]
    /\ asked = {} /\ reprices = [l \in LoopIds |-> NoQuote]
    /\ edits = 0

-----------------------------------------------------------------------------
(* Quotes                                                                  *)

(***************************************************************************)
(* The signature of a lane's request: none without a market a launchable   *)
(* venue lists.                                                            *)
(***************************************************************************)
Quoted(p, l) ==
    IF l \in DOMAIN p.lanes /\ Pinned(p.lanes[l]) /\ Row[p.lanes[l].market].launchable
    THEN Terms(p.lanes[l].market, "safety-buffer" \in p.lanes[l].keys) ELSE NoTerms

\* Mutant of SigOf: the signature outlives the quote it was for.
SigOfKept(l, dropped) == repriceSigs[l]

\* invalidateQuote, on each of the lanes dropped.
SigOf(l, dropped) == IF l \in dropped THEN NoTerms ELSE repriceSigs[l]

Drops(l, key) == IF invalidatesQuote(key) THEN {l} ELSE {}

TimerOf(l, dropped) == IF l \in dropped THEN NoTerms ELSE repriceTimers[l]

ShownOf(l, dropped) == IF l \in dropped THEN NoQuote ELSE reprices[l]

\* The handler drops quotes and the portfolio stays the same object.
DropsQuotes(dropped) ==
    /\ repriceSigs' = [l \in LoopIds |-> SigOf(l, dropped)]
    /\ repriceTimers' = [l \in LoopIds |-> TimerOf(l, dropped)]
    /\ reprices' = [l \in LoopIds |-> ShownOf(l, dropped)]
    /\ UNCHANGED <<portfolio, asked>>

(***************************************************************************)
(* The handler drops quotes and commits portfolio p; the effect on the     *)
(* portfolio asks for the quotes that are missing.                         *)
(***************************************************************************)
Commits(p, dropped) ==
    /\ portfolio' = p
    /\ repriceSigs' = [l \in LoopIds |-> Quoted(p, l)]
    /\ repriceTimers' = [l \in LoopIds |->
          CASE Quoted(p, l) \notin {NoTerms, SigOf(l, dropped)} -> Quoted(p, l)
            [] l \notin DOMAIN p.lanes /\ SigOf(l, dropped) # NoTerms -> NoTerms
            [] OTHER -> TimerOf(l, dropped)]
    /\ reprices' = [l \in LoopIds |->
          IF Quoted(p, l) = NoTerms /\ SigOf(l, dropped) # NoTerms
          THEN NoQuote ELSE ShownOf(l, dropped)]
    /\ UNCHANGED asked

TimerFires(l) ==
    /\ repriceTimers[l] # NoTerms
    /\ asked' = asked \cup {[loopId |-> l, terms |-> repriceTimers[l]]}
    /\ repriceTimers' = [repriceTimers EXCEPT ![l] = NoTerms]
    /\ UNCHANGED <<portfolio, undoStack, beat, installs, repriceSigs, reprices, edits>>

\* In any order; of whatever lane is there by then.
Answered(l, terms) ==
    /\ [loopId |-> l, terms |-> terms] \in asked
    /\ asked' = asked \ {[loopId |-> l, terms |-> terms]}
    /\ \E ok \in BOOLEAN : reprices' = [reprices EXCEPT ![l] = [terms |-> terms, ok |-> ok]]
    /\ UNCHANGED <<portfolio, undoStack, beat, installs, repriceSigs, repriceTimers, edits>>

AllTerms == {Terms(m, levered) : m \in {m \in Rows : Row[m].launchable}, levered \in BOOLEAN}

-----------------------------------------------------------------------------
(* Presses                                                                 *)

\* The snapshot is of what the user is looking at.
pushUndo ==
    LET stack == Append(undoStack, portfolio)
    IN  undoStack' = IF Len(stack) > UndoDepth THEN Tail(stack) ELSE stack

Press == edits < MaxEdits /\ edits' = edits + 1

LaneSet(p, l, lane) == [p EXCEPT !.lanes[l] = lane]

\* Offered once every lane is finished.
AddLane ==
    /\ Press /\ newLoopId(Ids) \in LoopIds
    /\ \A l \in Ids : LaunchShaped(lanes[l])
    /\ Commits(addLoop(portfolio), {})
    /\ UNCHANGED <<undoStack, beat, installs>>

\* The last lane has no Remove key.
RemoveLane(l) ==
    /\ Press /\ l \in Ids /\ Cardinality(Ids) > 1
    /\ pushUndo
    /\ Commits(removeLoop(portfolio, l), {})
    /\ UNCHANGED <<beat, installs>>

\* Discover lists the rows of the families the lane may still be.
onSelectMarket(l, m) ==
    /\ Press /\ l \in Ids /\ Row[m].family \in Surviving(lanes[l])
    /\ LET seated == seatMarket(lanes[l], m)
       IN  /\ IF lanes[l].keys \subseteq seated.keys THEN UNCHANGED undoStack ELSE pushUndo
           /\ Commits(LaneSet(portfolio, l, seated), {l})
    /\ UNCHANGED <<beat, installs>>

\* The dock's shelf.  A press cancels the beat of the one before.
composeAdd(l, key) ==
    /\ Press /\ l \in Ids /\ canAddModule(lanes[l], key)
    /\ beat' = [loopId |-> l, key |-> key, dir |-> "add"]
    /\ UNCHANGED <<portfolio, undoStack, installs, quoteVars>>

\* A bay of the rack, once the market is there: at once.
onAddModule(l, key) ==
    /\ Press /\ l \in Ids /\ Pinned(lanes[l]) /\ canAddModule(lanes[l], key)
    /\ Commits(LaneSet(portfolio, l, With(lanes[l], key)), Drops(l, key))
    /\ UNCHANGED <<undoStack, beat, installs>>

composeEject(l, key) ==
    /\ Press /\ l \in Ids /\ removable(lanes[l], key)
    /\ pushUndo
    /\ beat' = [loopId |-> l, key |-> key, dir |-> "eject"]
    /\ UNCHANGED <<portfolio, installs, quoteVars>>

installDefaults(l) ==
    LET rest == SelectSeq(defaultInstallChain(lanes[l].market), LAMBDA k : k \notin lanes[l].keys)
    IN  /\ Press /\ l \in Ids /\ InstallOffered(lanes[l]) /\ rest # <<>>
        /\ pushUndo
        /\ installs' = installs \o [i \in DOMAIN rest |-> [loopId |-> l, key |-> rest[i]]]
        /\ UNCHANGED <<portfolio, beat, quoteVars>>

\* The timers of an install go on.
undo ==
    /\ Press /\ undoStack # <<>>
    /\ undoStack' = Front(undoStack) /\ beat' = NoBeat
    /\ Commits(Last(undoStack), {})
    /\ UNCHANGED installs

AllocationSet(l, bps) ==
    /\ Press /\ portfolio.enabled /\ l \in Ids
    /\ Commits(setAllocation(portfolio, l, bps), {})
    /\ UNCHANGED <<undoStack, beat, installs>>

\* The tip on a quote that failed.
Requote(l) ==
    /\ Press /\ l \in Ids /\ reprices[l] # NoQuote /\ ~reprices[l].ok
    /\ DropsQuotes({l})
    /\ UNCHANGED <<undoStack, beat, installs>>

\* The New key.
composeAnother ==
    /\ Press
    /\ pushUndo
    /\ Commits(InitialPortfolio, LoopIds)
    /\ UNCHANGED <<beat, installs>>

-----------------------------------------------------------------------------
(* Deferred commits                                                        *)

(***************************************************************************)
(* A lane that is gone stays the same object, and so does one that holds   *)
(* the module already, except that an install writes the leverage anyway.  *)
(***************************************************************************)
AddLands(l, key, dropped, writes) ==
    IF l \in Ids /\ (key \notin lanes[l].keys \/ writes)
    THEN Commits(LaneSet(portfolio, l, With(lanes[l], key)), dropped)
    ELSE DropsQuotes(dropped)

BeatAdds ==
    /\ beat # NoBeat /\ beat.dir = "add"
    /\ AddLands(beat.loopId, beat.key, Drops(beat.loopId, beat.key), FALSE)
    /\ beat' = NoBeat
    /\ UNCHANGED <<undoStack, installs, edits>>

BeatEjects ==
    /\ beat # NoBeat /\ beat.dir = "eject"
    /\ IF beat.loopId \in Ids
       THEN Commits(LaneSet(portfolio, beat.loopId, Without(lanes[beat.loopId], beat.key)),
                    Drops(beat.loopId, beat.key))
       ELSE DropsQuotes(Drops(beat.loopId, beat.key))
    /\ beat' = NoBeat
    /\ UNCHANGED <<undoStack, installs, edits>>

InstallLands ==
    /\ installs # <<>>
    /\ LET due == Head(installs)
       IN  AddLands(due.loopId, due.key, {}, due.key = "safety-buffer")
    /\ installs' = Tail(installs)
    /\ UNCHANGED <<undoStack, beat, edits>>

-----------------------------------------------------------------------------

User ==
    \/ AddLane \/ undo \/ composeAnother
    \/ \E l \in LoopIds :
          \/ RemoveLane(l) \/ installDefaults(l) \/ Requote(l)
          \/ \E m \in Rows : onSelectMarket(l, m)
          \/ \E key \in Keys : composeAdd(l, key) \/ onAddModule(l, key) \/ composeEject(l, key)
          \/ \E bps \in Shares : AllocationSet(l, bps)

Timers ==
    \/ BeatAdds \/ BeatEjects \/ InstallLands
    \/ \E l \in LoopIds : TimerFires(l) \/ \E terms \in AllTerms : Answered(l, terms)

Next == User \/ Timers

Spec == Init /\ [][Next]_vars

-----------------------------------------------------------------------------
(* Properties                                                              *)

(***************************************************************************)
(* The orchestrator is in place exactly from the second lane on, and its   *)
(* shares then cover every lane and add up to the whole: through every     *)
(* lane added and removed, share set, undo and clear.                      *)
(***************************************************************************)
AllocationsCover ==
    /\ portfolio.enabled <=> Cardinality(Ids) >= 2
    /\ DOMAIN portfolio.alloc = Ids
    /\ portfolio.enabled => SumOver(portfolio.alloc, Ids) = Total

(***************************************************************************)
(* A lane that may be published and holds a market is one product, the one *)
(* its market is priced as: whatever add, eject or install lands on it     *)
(* after its market was swapped, its lane cleared or its step undone.      *)
(***************************************************************************)
PublishesOneProduct ==
    \A l \in Ids :
        LaunchShaped(lanes[l]) /\ Pinned(lanes[l]) =>
            LET row == Row[lanes[l].market]
            IN  laneStrategies(lanes[l]) = {IF row.funding THEN "funding" ELSE row.family}

(***************************************************************************)
(* A lane whose signature says a quote was asked for shows a quote or has  *)
(* one coming, on those terms: the debounce, the quotes dropped on a swap  *)
(* or an eject, the undo and the lanes that come and go under one id never *)
(* leave a lane waiting for a request nobody will send.                    *)
(***************************************************************************)
QuoteIsComing ==
    \A l \in LoopIds :
        repriceSigs[l] # NoTerms =>
            \/ repriceTimers[l] = repriceSigs[l]
            \/ [loopId |-> l, terms |-> repriceSigs[l]] \in asked
            \/ reprices[l] # NoQuote

=============================================================================
