----------------------------- MODULE LaneGraph -----------------------------
(***************************************************************************)
(* What a lane of the build canvas may hold and what it is: the pure graph *)
(* operations of apps/replay-ui/lib/canvas.  A lane is the set of modules  *)
(* placed on it and the market its source is pinned to; its wires are      *)
(* always derived again from the modules, so they are left out, and so are *)
(* the dials of the modules.                                               *)
(***************************************************************************)
EXTENDS Naturals, Sequences, FiniteSets, SequencesExt, FiniteSetsExt

CONSTANTS
    Rows,       \* markets of the catalog
    Row         \* Row[m]: its family, and what it is, see RowType

NoMarket == "none"

Chain ==    \* FAMILY_CHAINS
    [loop     |-> {"liquidity-source", "safety-buffer", "hedge", "auto-compound"},
     dnlp     |-> {"liquidity-source", "auto-center", "hedge", "auto-compound"},
     collar   |-> {"liquidity-source", "covered-call", "protective-put", "auto-compound"},
     treasury |-> {"liquidity-source", "redemption-route", "auto-compound"}]

Families == DOMAIN Chain

\* Of each group a finished lane of the family holds a member.
RequiredGroups ==
    [loop     |-> {{"liquidity-source"}, {"safety-buffer", "hedge"}},
     dnlp     |-> {{"liquidity-source"}, {"auto-center"}, {"hedge"}},
     collar   |-> {{"liquidity-source"}, {"covered-call"}, {"protective-put"}},
     treasury |-> {{"liquidity-source"}, {"redemption-route"}}]

DisplayOrder ==
    <<"liquidity-source", "safety-buffer", "auto-center", "covered-call", "protective-put",
      "hedge", "redemption-route", "auto-compound", "exogenous-risk">>

ModuleKeys == ToSet(DisplayOrder)

\* Modules on no family's chain: they say nothing about the family.
OverlayKeys == ModuleKeys \ UNION {Chain[f] : f \in Families}

\* What earns on a lane.
CarryModules == UNION {Chain[f] : f \in Families} \ {"liquidity-source", "auto-compound"}

RowType ==
    [family : Families, funding : BOOLEAN, cls : {"A", "N1"}, levers : BOOLEAN,
     launchable : BOOLEAN]

ASSUME LaneGraphAssumption ==
    /\ NoMarket \notin Rows
    /\ \A m \in Rows : Row[m] \in RowType /\ (Row[m].funding => Row[m].family = "loop")

EmptyLane == [keys |-> {}, market |-> NoMarket]

Lane == [keys : SUBSET ModuleKeys, market : Rows \cup {NoMarket}]

Pinned(lane) == lane.market # NoMarket

With(lane, key) == [lane EXCEPT !.keys = @ \cup {key}]

Without(lane, key) == [lane EXCEPT !.keys = @ \ {key}]

-----------------------------------------------------------------------------
(* Families and strategies                                                 *)

laneFamily(keys) ==
    IF keys \cap {"covered-call", "protective-put"} # {} THEN "collar"
    ELSE IF "auto-center" \in keys THEN "dnlp"
    ELSE IF "redemption-route" \in keys THEN "treasury"
    ELSE "loop"

\* The families every module placed belongs to.
laneFamilies(keys) == {f \in Families : keys \ OverlayKeys \subseteq Chain[f]}

\* With the market as evidence as well, unless it contradicts the modules.
committedFamilies(lane) ==
    LET byModules == laneFamilies(lane.keys)
        both == {f \in byModules : Pinned(lane) => Row[lane.market].family = f}
    IN  IF both # {} THEN both ELSE byModules

\* The families a lane is held to: never none.
Surviving(lane) ==
    IF committedFamilies(lane) # {} THEN committedFamilies(lane) ELSE {laneFamily(lane.keys)}

Bound(lane) == Cardinality(Surviving(lane)) = 1

BoundToLoop(lane) == Surviving(lane) = {"loop"}

laneStrategies(lane) ==
    LET ruledOut(strategy) ==
            \/ strategy = "loop" /\ Pinned(lane) /\ Row[lane.market].funding
            \/ strategy = "funding" /\
                  \/ "safety-buffer" \in lane.keys
                  \/ Pinned(lane) /\ ~Row[lane.market].funding
        of(f) == IF f = "loop" THEN {"loop", "funding"} ELSE {f}
    IN  {s \in UNION {of(f) : f \in committedFamilies(lane)} : ~ruledOut(s)}

-----------------------------------------------------------------------------
(* validateGraph                                                           *)

Code(code, raised) == IF raised THEN {<<code>>} ELSE {}

\* Mutant of Issues: a market of another family is not an issue.
IssuesOfModules(lane) ==
    LET keys == lane.keys
        strangers == IF Bound(lane) THEN keys \ (OverlayKeys \cup UNION {Chain[f] : f \in Surviving(lane)})
                     ELSE {}
    IN  {<<"family-mismatch", k>> : k \in strangers}
        \cup Code("compound-requires-carry",
                  /\ "auto-compound" \in keys
                  /\ "liquidity-source" \notin keys \/ keys \cap CarryModules = {})
        \cup Code("missing-source", "exogenous-risk" \in keys /\ ~Pinned(lane))
        \cup Code("unhedged-class-forbids-hedge",
                  "hedge" \in keys /\ Pinned(lane) /\ Row[lane.market].cls = "N1")

Issues(lane) ==
    IssuesOfModules(lane)
    \cup Code("market-family-mismatch",
              /\ Pinned(lane) /\ laneFamilies(lane.keys) # {}
              /\ Row[lane.market].family \notin laneFamilies(lane.keys))

Unsatisfied(f, keys) == {group \in RequiredGroups[f] : group \cap keys = {}}

\* Nothing is wrong and nothing is missing, whichever family it turns out to be.
LaunchShaped(lane) ==
    Issues(lane) = {} /\ \A f \in Surviving(lane) : Unsatisfied(f, lane.keys) = {}

-----------------------------------------------------------------------------
(* What the surfaces offer                                                 *)

\* The family the modules alone bind the lane to: the gate of addableModules.
Gates(keys) ==
    LET fams == laneFamilies(keys)
    IN  IF fams = {} THEN {laneFamily(keys)} ELSE IF Cardinality(fams) = 1 THEN fams ELSE {}

canAddModule(lane, key) ==
    /\ key \notin lane.keys
    /\ \A f \in Gates(lane.keys) : key \in OverlayKeys \cup Chain[f]
    /\ LET of(issues, code) == Cardinality({i \in issues : i[1] = code})
           after == Issues(With(lane, key))
       IN  \A i \in after : of(after, i[1]) <= of(Issues(lane), i[1])

\* Taking the module off would leave a group of a surviving family without a member.
requiredInstalled(lane, key) ==
    \E f \in Surviving(lane) : \E group \in RequiredGroups[f] :
        key \in group /\ group \cap lane.keys \subseteq {key}

(***************************************************************************)
(* The rack and the dock's list lock what is required; the dock's module   *)
(* panel ejects anything but the source and the leverage.                  *)
(***************************************************************************)
removable(lane, key) ==
    /\ key \in lane.keys /\ key # "liquidity-source"
    /\ key = "safety-buffer" => ~requiredInstalled(lane, key)

defaultInstallChain(m) ==
    LET row == Row[m]
        legs == (IF row.levers THEN <<"safety-buffer">> ELSE <<>>)
                \o (IF row.cls = "A" THEN <<"hedge">> ELSE <<>>)
    IN  IF row.family # "loop" \/ legs = <<>> THEN <<>> ELSE Append(legs, "auto-compound")

\* The dock lights Install defaults.
InstallOffered(lane) ==
    /\ Pinned(lane) /\ BoundToLoop(lane)
    /\ \E k \in ModuleKeys :
          /\ canAddModule(lane, k)
          /\ k = "safety-buffer" => Row[lane.market].levers
          /\ \E group \in Unsatisfied("loop", lane.keys) : k \in group

-----------------------------------------------------------------------------
(* seatMarket                                                              *)

\* The first module whose removal leaves a strategy, where none is left.
modulesRuledOutByMarket(lane) ==
    LET cures(k) == k \in lane.keys \ {"liquidity-source"} /\ laneStrategies(Without(lane, k)) # {}
        found == SelectSeq(DisplayOrder, cures)
    IN  IF laneStrategies(lane) # {} \/ found = <<>> THEN {} ELSE {Head(found)}

seatMarket(lane, m) ==
    LET seated == [keys |-> lane.keys \cup {"liquidity-source"}, market |-> m]
    IN  [seated EXCEPT !.keys = @ \ modulesRuledOutByMarket(seated)]

=============================================================================
