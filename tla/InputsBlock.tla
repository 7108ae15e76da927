---------------------------- MODULE InputsBlock ----------------------------
(***************************************************************************)
(* How an operator pins the block it values the vault at: fetch_state of   *)
(* components/vault-nav/src/adapters.rs and the search of blocks.rs.       *)
(* Operators that are handed the same trigger time wait for a head that    *)
(* reaches it, and search the chain from there, each from the head its own *)
(* node shows, for the last block at or before that time.  A quorum needs  *)
(* them to find the same block.                                            *)
(*                                                                         *)
(* Each probe of a header is one action: the chain grows, and the other    *)
(* operators go on, in between.  Blocks may share a timestamp.             *)
(***************************************************************************)
EXTENDS Integers

CONSTANTS
    Operators,      \* operators of the quorum
    MaxBlock,       \* bound: the height the chain reaches
    Times,          \* timestamps a block may have
    TriggerTime,    \* trigger_time_secs
    Lag,            \* lag, the reorg depth
    MaxAttempts     \* readings of the head before the search (30 in fetch_state)

ASSUME InputsBlockAssumption ==
    MaxBlock \in Nat /\ Times \subseteq Nat /\ TriggerTime \in Nat /\ Lag \in Nat
    /\ MaxAttempts \in Nat \ {0}

VARIABLES
    timestamp,  \* header timestamps, of the blocks to come as well
    height,     \* head of the chain
    search      \* the search of each operator

vars == <<timestamp, height, search>>

-----------------------------------------------------------------------------

Blocks == 0 .. MaxBlock

NotStarted == [pc |-> "idle", attempt |-> 0, head |-> 0, lo |-> 0, stride |-> 1, a |-> 0, b |-> 0, best |-> 0,
               probes |-> 0, inputsBlock |-> 0]

NonDecreasing(f) == \A m, n \in Blocks : m <= n => f[m] <= f[n]

Init ==
    /\ timestamp \in {f \in [Blocks -> Times] : NonDecreasing(f)}
    /\ height \in Blocks
    /\ search = [o \in Operators |-> NotStarted]

At(o, pc) == search[o].pc = pc

Fails(o) == search' = [search EXCEPT ![o].pc = "failed"]

\* Mutant of NotAfter: a block of the very trigger time is too late.
Before(n) == timestamp[n] < TriggerTime

\* Is block n at or before the trigger time?
NotAfter(n) == timestamp[n] <= TriggerTime

-----------------------------------------------------------------------------
(* fetch_state: the wait for the chain to reach the trigger time           *)

\* The node of o shows its head: the chain's, as of now.
ReadHead(o) ==
    /\ At(o, "idle")
    /\ search' = [search EXCEPT ![o].pc = "wait", ![o].head = height, ![o].attempt = @ + 1]
    /\ UNCHANGED <<timestamp, height>>

WaitsOn(o) == timestamp[search[o].head] < TriggerTime /\ search[o].attempt < MaxAttempts

SleepAndReadAgain(o) ==
    /\ At(o, "wait") /\ WaitsOn(o)
    /\ search' = [search EXCEPT ![o].pc = "idle"]
    /\ UNCHANGED <<timestamp, height>>

\* The head has reached the trigger time, or the attempts are spent.
StopWaiting(o) ==
    /\ At(o, "wait") /\ ~WaitsOn(o)
    /\ search' = [search EXCEPT ![o].pc = "head"]
    /\ UNCHANGED <<timestamp, height>>

-----------------------------------------------------------------------------
(* block_at_or_before                                                      *)

\* A later block of the same timestamp may still come: no answer from this head.
HeadNotPast(o) ==
    /\ At(o, "head") /\ NotAfter(search[o].head)
    /\ search' = [search EXCEPT ![o].pc = "behind"]
    /\ UNCHANGED <<timestamp, height>>

\* Mutant of HeadPast: a head at the trigger time is good enough.
HeadReached(o) ==
    /\ At(o, "head") /\ timestamp[search[o].head] >= TriggerTime
    /\ search' = [search EXCEPT ![o].pc = "walk", ![o].lo = search[o].head, ![o].probes = 1]
    /\ UNCHANGED <<timestamp, height>>

HeadPast(o) ==
    /\ At(o, "head") /\ ~NotAfter(search[o].head)
    /\ search' = [search EXCEPT ![o].pc = "walk", ![o].lo = search[o].head, ![o].probes = 1]
    /\ UNCHANGED <<timestamp, height>>

GenesisTooLate(o) ==
    /\ At(o, "walk") /\ search[o].lo = 0
    /\ Fails(o)
    /\ UNCHANGED <<timestamp, height>>

\* Mutant of WalkedTo: back by one block at a time.
WalkedOne(s) == s.lo - 1

\* A stride further back, or genesis.
WalkedTo(s) == IF s.stride <= s.lo THEN s.lo - s.stride ELSE 0

WalkBack(o) ==
    /\ At(o, "walk") /\ search[o].lo # 0
    /\ LET s  == search[o]
           lo == WalkedTo(s)
           t  == [s EXCEPT !.lo = lo, !.stride = 2 * @, !.probes = @ + 1]
       IN  search' = [search EXCEPT ![o] =
                        IF NotAfter(lo)
                        THEN [t EXCEPT !.pc = "bisect", !.best = lo, !.a = lo + 1, !.b = s.head - 1]
                        ELSE t]
    /\ UNCHANGED <<timestamp, height>>

Bisect(o) ==
    /\ At(o, "bisect") /\ search[o].a <= search[o].b
    /\ LET s   == search[o]
           mid == s.a + (s.b - s.a) \div 2
       IN  search' = [search EXCEPT ![o] =
                        IF NotAfter(mid)
                        THEN [s EXCEPT !.best = mid, !.a = mid + 1, !.probes = @ + 1]
                        ELSE [s EXCEPT !.b = mid - 1, !.probes = @ + 1]]
    /\ UNCHANGED <<timestamp, height>>

-----------------------------------------------------------------------------
(* resolve_inputs_block                                                    *)

LagTooDeep(o) ==
    /\ At(o, "bisect") /\ search[o].a > search[o].b /\ search[o].best < Lag
    /\ Fails(o)
    /\ UNCHANGED <<timestamp, height>>

Resolve(o) ==
    /\ At(o, "bisect") /\ search[o].a > search[o].b /\ search[o].best >= Lag
    /\ search' = [search EXCEPT ![o].pc = "done", ![o].inputsBlock = search[o].best - Lag]
    /\ UNCHANGED <<timestamp, height>>

\* A header cannot be read: the cycle fails.
LookupFails(o) ==
    /\ search[o].pc \in {"idle", "wait", "head", "walk"} \/ (At(o, "bisect") /\ search[o].a <= search[o].b)
    /\ Fails(o)
    /\ UNCHANGED <<timestamp, height>>

NewBlock ==
    /\ height < MaxBlock
    /\ height' = height + 1
    /\ UNCHANGED <<timestamp, search>>

Probe(o) ==
    \/ ReadHead(o) \/ SleepAndReadAgain(o) \/ StopWaiting(o)
    \/ HeadNotPast(o) \/ HeadPast(o)
    \/ GenesisTooLate(o) \/ WalkBack(o) \/ Bisect(o)
    \/ LagTooDeep(o) \/ Resolve(o)

Next == NewBlock \/ \E o \in Operators : Probe(o) \/ LookupFails(o)

Spec == Init /\ [][Next]_vars

-----------------------------------------------------------------------------
(* Properties                                                              *)

Done(o) == At(o, "done")

(***************************************************************************)
(* Types.  Every bound of the search stays on the chain: the subtractions  *)
(* on u64 heights neither wrap nor panic.                                  *)
(***************************************************************************)
TypeOK ==
    /\ timestamp \in [Blocks -> Nat] /\ NonDecreasing(timestamp)
    /\ height \in Blocks
    /\ search \in [Operators ->
          [pc : {"idle", "wait", "head", "walk", "bisect", "done", "behind", "failed"},
           attempt : 0 .. MaxAttempts, head : Blocks, lo : Blocks, stride : Nat \ {0}, a : Nat, b : Blocks, best : Blocks,
           probes : Nat, inputsBlock : Blocks]]

(***************************************************************************)
(* The block found is the last one at or before the trigger time, less the *)
(* lag, and remains so whatever blocks come later.                         *)
(***************************************************************************)
LastAtOrBefore ==
    \A o \in Operators : Done(o) =>
        \A n \in 0 .. height : timestamp[n] <= TriggerTime <=> n <= search[o].inputsBlock + Lag

(***************************************************************************)
(* Operators that resolve a block resolve the same one, whatever heads     *)
(* their nodes showed and however many blocks share the trigger time.      *)
(***************************************************************************)
SameBlock ==
    \A o, p \in Operators : Done(o) /\ Done(p) => search[o].inputsBlock = search[p].inputsBlock

(***************************************************************************)
(* The search costs O(log(head - block)) probes, as blocks.rs says: not a  *)
(* number that grows with the height of the chain.                         *)
(***************************************************************************)
ProbesAreFew ==
    \A o \in Operators : Done(o) =>
        \E j \in 1 .. MaxBlock :
            /\ 2 ^ (j - 1) <= search[o].head - search[o].best
            /\ search[o].probes <= 2 * j + 1

=============================================================================
