------------------------- MODULE InputsBlock_proofs -------------------------
(***************************************************************************)
(* Proofs about InputsBlock for every chain, any number of operators, any  *)
(* trigger time and lag.                                                   *)
(*                                                                         *)
(* The inductive invariant says what brackets the answer at each stage of  *)
(* a search: the head is too late; a block on the walk back is too late as *)
(* well; in the bisection, the best block so far is not too late and the   *)
(* one after the interval is.  What a search found then depends on the     *)
(* chain alone, which is why two operators agree.                          *)
(***************************************************************************)
EXTENDS InputsBlock, FiniteSetTheorems, FunctionTheorems, TLAPS

Searches ==
    [pc : {"idle", "wait", "head", "walk", "bisect", "done", "behind", "failed"},
     attempt : 0 .. MaxAttempts, head : Blocks, lo : Blocks, stride : Nat \ {0}, a : Nat, b : Blocks, best : Blocks,
     probes : Nat, inputsBlock : Blocks]

\* What brackets the answer of search s.
Bracket(s) ==
    /\ s.head <= height
    /\ s.pc = "idle" => s.attempt < MaxAttempts
    /\ s.pc = "walk" => s.lo <= s.head /\ ~NotAfter(s.head)
    /\ s.pc = "bisect" =>
          /\ s.best + 1 = s.a /\ s.a <= s.b + 1 /\ s.b + 1 <= s.head
          /\ NotAfter(s.best) /\ ~NotAfter(s.b + 1)
    /\ s.pc = "done" =>
          /\ s.inputsBlock + Lag = s.best /\ s.best + 1 <= s.head
          /\ NotAfter(s.best) /\ ~NotAfter(s.best + 1)

Brackets == \A o \in Operators : Bracket(search[o])

Inv == TypeOK /\ Brackets

-----------------------------------------------------------------------------

\* No search has started: the invariant holds.
LEMMA InitInv == Init => Inv
<1> SUFFICES ASSUME Init PROVE Inv
    OBVIOUS
<1> USE InputsBlockAssumption
<1>1. timestamp \in [Blocks -> Nat] /\ NonDecreasing(timestamp)
    BY DEF Init, NonDecreasing
<1>2. NotStarted \in Searches
    BY DEF NotStarted, Searches, Blocks
<1>3. TypeOK
    BY <1>1, <1>2 DEF Init, TypeOK, Searches
<1>4. Brackets
    <2>1. 0 <= height
        BY DEF Init, Blocks
    <2>2. ASSUME NEW o \in Operators PROVE Bracket(NotStarted)
        BY <2>1 DEF Bracket, NotStarted
    <2> QED BY <2>2 DEF Init, Brackets
<1> QED BY <1>3, <1>4 DEF Inv

\* A step of one search that keeps its type and its bracket keeps the invariant.
LEMMA OneSearch ==
    ASSUME Inv, NEW o \in Operators, NEW s \in Searches,
           search' = [search EXCEPT ![o] = s], UNCHANGED <<timestamp, height>>, Bracket(s)
    PROVE  Inv'
<1>1. TypeOK'
    BY DEF Inv, TypeOK, Searches, Blocks, NonDecreasing
<1>2. Brackets'
    <2> SUFFICES ASSUME NEW p \in Operators PROVE Bracket(search[p])'
        BY DEF Brackets
    <2>1. CASE p = o
        BY <2>1 DEF Inv, TypeOK, Searches, Bracket, NotAfter
    <2>2. CASE p # o
        <3>1. search'[p] = search[p] /\ Bracket(search[p])
            BY <2>2 DEF Inv, Brackets, TypeOK
        <3> QED BY <3>1 DEF Bracket, NotAfter
    <2> QED BY <2>1, <2>2
<1> QED BY <1>1, <1>2 DEF Inv

\* A search that fails brackets nothing.
LEMMA FailsInv ==
    ASSUME Inv, NEW o \in Operators, Fails(o), UNCHANGED <<timestamp, height>>
    PROVE  Inv'
<1> DEFINE s == [search[o] EXCEPT !.pc = "failed"]
<1>1. search[o] \in Searches /\ Bracket(search[o])
    BY DEF Inv, TypeOK, Searches, Brackets
<1>2. s \in Searches /\ Bracket(s)
    BY <1>1 DEF Searches, Bracket, At
<1>3. search' = [search EXCEPT ![o] = s]
    BY DEF Fails
<1> HIDE DEF s
<1> QED BY <1>2, <1>3, OneSearch

\* The walk back either stays too late or brackets the answer.
LEMMA WalkBackInv ==
    ASSUME Inv, NEW o \in Operators, WalkBack(o) PROVE Inv'
<1> USE InputsBlockAssumption
<1> DEFINE s  == search[o]
           lo == WalkedTo(s)
           t  == [s EXCEPT !.lo = lo, !.stride = 2 * @, !.probes = @ + 1]
           u  == IF NotAfter(lo)
                 THEN [t EXCEPT !.pc = "bisect", !.best = lo, !.a = lo + 1, !.b = s.head - 1]
                 ELSE t
<1>1. s \in Searches /\ Bracket(s) /\ s.pc = "walk" /\ s.lo # 0
    BY DEF Inv, TypeOK, Searches, Brackets, WalkBack, At
<1>2. lo \in Blocks /\ lo < s.lo
    BY <1>1 DEF WalkedTo, Searches, Blocks
<1>3. s.lo <= s.head /\ s.head <= height /\ ~NotAfter(s.head) /\ s.head \in Blocks /\ s.lo \in Blocks
    BY <1>1 DEF Bracket, Searches
<1>4. search' = [search EXCEPT ![o] = u] /\ UNCHANGED <<timestamp, height>>
    BY DEF WalkBack
<1>5. t \in Searches /\ t.pc = "walk" /\ t.head = s.head /\ t.lo = lo
    <2>1. s.stride \in Nat \ {0} /\ s.probes \in Nat
        BY <1>1 DEF Searches
    <2>2. 2 * s.stride \in Nat \ {0} /\ s.probes + 1 \in Nat
        <3> HIDE DEF s
        <3> QED BY <2>1
    <2> HIDE DEF lo, s
    <2> QED BY <1>1, <1>2, <2>2 DEF Searches
<1>6. u \in Searches /\ Bracket(u)
    <2>1. CASE NotAfter(lo)
        <3> DEFINE v == [t EXCEPT !.pc = "bisect", !.best = lo, !.a = lo + 1, !.b = s.head - 1]
        <3>1. s.head - 1 \in Blocks /\ lo + 1 \in Nat /\ lo + 1 <= s.head
            BY <1>2, <1>3 DEF Blocks
        <3>2. v \in Searches
            <4> HIDE DEF t, lo, s
            <4> QED BY <1>2, <1>5, <3>1 DEF Searches
        <3>3. /\ v.pc = "bisect" /\ v.best = lo /\ v.a = lo + 1 /\ v.b = s.head - 1
              /\ v.head = s.head
            <4> HIDE DEF lo, s
            <4> QED BY <1>5 DEF Searches
        <3>4. v.b + 1 = s.head
            BY <3>3, <1>3 DEF Blocks
        <3>5. Bracket(v)
            <4> HIDE DEF v, lo, s
            <4> QED BY <1>2, <1>3, <2>1, <3>1, <3>3, <3>4 DEF Bracket, Blocks
        <3> QED BY <2>1, <3>2, <3>5
    <2>2. CASE ~NotAfter(lo)
        <3>1. Bracket(t)
            <4> HIDE DEF t, lo, s
            <4> QED BY <1>2, <1>3, <1>5 DEF Bracket, Blocks
        <3> QED BY <2>2, <3>1, <1>5
    <2> QED BY <2>1, <2>2
<1> HIDE DEF u
<1> QED BY <1>4, <1>6, OneSearch

\* A probe of the bisection narrows the interval and keeps the bracket.
LEMMA BisectInv ==
    ASSUME Inv, NEW o \in Operators, Bisect(o) PROVE Inv'
<1> DEFINE s   == search[o]
           mid == s.a + (s.b - s.a) \div 2
           u   == IF NotAfter(mid)
                  THEN [s EXCEPT !.best = mid, !.a = mid + 1, !.probes = @ + 1]
                  ELSE [s EXCEPT !.b = mid - 1, !.probes = @ + 1]
<1>1. s \in Searches /\ Bracket(s) /\ s.pc = "bisect" /\ s.a <= s.b
    BY DEF Inv, TypeOK, Searches, Brackets, Bisect, At
<1>2. /\ s.best + 1 = s.a /\ s.b + 1 <= s.head /\ s.head <= height
      /\ NotAfter(s.best) /\ ~NotAfter(s.b + 1)
      /\ s.head \in Blocks /\ s.best \in Blocks /\ s.b \in Blocks /\ s.a \in Nat
    BY <1>1 DEF Bracket, Searches
<1>3. mid \in Blocks /\ s.a <= mid /\ mid <= s.b /\ mid - 1 \in Blocks
    BY <1>1, <1>2, InputsBlockAssumption, SMT DEF Blocks
<1>4. search' = [search EXCEPT ![o] = u] /\ UNCHANGED <<timestamp, height>>
    BY DEF Bisect
<1>5. u \in Searches /\ Bracket(u)
    <2>0. s.probes + 1 \in Nat /\ mid + 1 \in Nat /\ (mid - 1) + 1 = mid
        <3>1. s.probes \in Nat
            BY <1>1 DEF Searches
        <3> HIDE DEF s, mid
        <3> QED BY <1>3, <3>1 DEF Blocks
    <2> HIDE DEF mid, s
    <2>1. CASE NotAfter(mid)
        <3> DEFINE v == [s EXCEPT !.best = mid, !.a = mid + 1, !.probes = @ + 1]
        <3>1. /\ v \in Searches
              /\ v.pc = "bisect" /\ v.best = mid /\ v.a = mid + 1 /\ v.b = s.b /\ v.head = s.head
            BY <1>1, <1>3, <2>0 DEF Searches
        <3>2. Bracket(v)
            <4> HIDE DEF v
            <4> QED BY <1>2, <1>3, <2>1, <3>1 DEF Bracket, Blocks
        <3> QED BY <2>1, <3>1, <3>2
    <2>2. CASE ~NotAfter(mid)
        <3> DEFINE v == [s EXCEPT !.b = mid - 1, !.probes = @ + 1]
        <3>1. /\ v \in Searches /\ v.pc = "bisect" /\ v.best = s.best /\ v.a = s.a
              /\ v.b + 1 = mid /\ v.b = mid - 1 /\ v.head = s.head
            BY <1>1, <1>3, <2>0 DEF Searches
        <3>2. Bracket(v)
            <4> HIDE DEF v
            <4> QED BY <1>2, <1>3, <2>2, <3>1 DEF Bracket, Blocks
        <3> QED BY <2>2, <3>1, <3>2
    <2> QED BY <2>1, <2>2
<1> HIDE DEF u
<1> QED BY <1>4, <1>5, OneSearch

\* The block less the lag is on the chain, and the bracket has closed on it.
LEMMA ResolveInv ==
    ASSUME Inv, NEW o \in Operators, Resolve(o) PROVE Inv'
<1> USE InputsBlockAssumption
<1> DEFINE s == search[o]
           u == [s EXCEPT !.pc = "done", !.inputsBlock = s.best - Lag]
<1>1. s \in Searches /\ Bracket(s) /\ s.pc = "bisect" /\ s.a > s.b /\ s.best >= Lag
    BY DEF Inv, TypeOK, Searches, Brackets, Resolve, At
<1>2. s.best \in Blocks /\ s.b \in Blocks /\ s.a \in Nat /\ s.head \in Blocks
    BY <1>1 DEF Searches
<1>3. s.best - Lag \in Blocks /\ (s.best - Lag) + Lag = s.best /\ s.b = s.best
    BY <1>1, <1>2 DEF Blocks, Bracket
<1>4. u \in Searches /\ Bracket(u)
    BY <1>1, <1>2, <1>3 DEF Searches, Bracket
<1>5. search' = [search EXCEPT ![o] = u] /\ UNCHANGED <<timestamp, height>>
    BY DEF Resolve
<1> HIDE DEF u
<1> QED BY <1>4, <1>5, OneSearch

\* The head is read, waited for, and past the trigger time.
LEMMA HeadInv ==
    ASSUME Inv, NEW o \in Operators,
           ReadHead(o) \/ SleepAndReadAgain(o) \/ StopWaiting(o) \/ HeadNotPast(o) \/ HeadPast(o)
    PROVE  Inv'
<1> USE InputsBlockAssumption
<1>1. search[o] \in Searches /\ Bracket(search[o]) /\ height \in Blocks
    BY DEF Inv, TypeOK, Searches, Brackets
<1>2. CASE ReadHead(o)
    <2> DEFINE u == [search[o] EXCEPT !.pc = "wait", !.head = height, !.attempt = @ + 1]
    <2>0. search[o].pc = "idle" /\ search[o].attempt \in 0 .. MaxAttempts
          /\ search[o].attempt < MaxAttempts
        BY <1>1, <1>2 DEF ReadHead, At, Bracket, Searches
    <2>4. search[o].attempt + 1 \in 0 .. MaxAttempts
        BY <2>0
    <2>1. u \in Searches /\ u.pc = "wait" /\ u.head = height
        BY <1>1, <2>4 DEF Searches
    <2>3. Bracket(u)
        <3> HIDE DEF u
        <3> QED BY <1>1, <2>1 DEF Bracket, Blocks
    <2>2. search' = [search EXCEPT ![o] = u] /\ UNCHANGED <<timestamp, height>>
        BY <1>2 DEF ReadHead
    <2> HIDE DEF u
    <2> QED BY <2>1, <2>2, <2>3, OneSearch
<1>4. CASE SleepAndReadAgain(o)
    <2> DEFINE u == [search[o] EXCEPT !.pc = "idle"]
    <2>1. u \in Searches /\ Bracket(u)
        BY <1>1, <1>4 DEF Searches, Bracket, SleepAndReadAgain, WaitsOn, At
    <2>2. search' = [search EXCEPT ![o] = u] /\ UNCHANGED <<timestamp, height>>
        BY <1>4 DEF SleepAndReadAgain
    <2> HIDE DEF u
    <2> QED BY <2>1, <2>2, OneSearch
<1>5. CASE StopWaiting(o)
    <2> DEFINE u == [search[o] EXCEPT !.pc = "head"]
    <2>1. u \in Searches /\ Bracket(u)
        BY <1>1 DEF Searches, Bracket
    <2>2. search' = [search EXCEPT ![o] = u] /\ UNCHANGED <<timestamp, height>>
        BY <1>5 DEF StopWaiting
    <2> HIDE DEF u
    <2> QED BY <2>1, <2>2, OneSearch
<1>6. CASE HeadNotPast(o)
    <2> DEFINE u == [search[o] EXCEPT !.pc = "behind"]
    <2>1. u \in Searches /\ Bracket(u)
        BY <1>1 DEF Searches, Bracket
    <2>2. search' = [search EXCEPT ![o] = u] /\ UNCHANGED <<timestamp, height>>
        BY <1>6 DEF HeadNotPast
    <2> HIDE DEF u
    <2> QED BY <2>1, <2>2, OneSearch
<1>3. CASE HeadPast(o)
    <2> DEFINE u == [search[o] EXCEPT !.pc = "walk", !.lo = search[o].head, !.probes = 1]
    <2>1. search[o].pc = "head" /\ ~NotAfter(search[o].head)
        BY <1>3 DEF HeadPast, At
    <2>2. u \in Searches /\ u.pc = "walk" /\ u.lo = search[o].head /\ u.head = search[o].head
        BY <1>1, <2>1 DEF Searches
    <2>4. Bracket(u)
        <3>1. u.head <= height /\ u.head \in Blocks
            BY <1>1, <2>1, <2>2 DEF Bracket, Searches
        <3> HIDE DEF u
        <3> QED BY <2>1, <2>2, <3>1 DEF Bracket, Blocks
    <2>3. search' = [search EXCEPT ![o] = u] /\ UNCHANGED <<timestamp, height>>
        BY <1>3 DEF HeadPast
    <2> HIDE DEF u
    <2> QED BY <2>2, <2>3, <2>4, OneSearch
<1> QED BY <1>2, <1>3, <1>4, <1>5, <1>6

\* A new block leaves every bracket where it is.
LEMMA NewBlockInv == ASSUME Inv, NewBlock PROVE Inv'
<1>1. height' \in Blocks /\ height < height' /\ height \in Blocks
    BY InputsBlockAssumption DEF NewBlock, Inv, TypeOK, Blocks
<1>2. TypeOK'
    BY <1>1 DEF NewBlock, Inv, TypeOK, NonDecreasing, Blocks
<1>3. \A o \in Operators : search[o] \in Searches /\ Bracket(search[o])
    BY DEF Inv, TypeOK, Searches, Brackets
<1>4. Brackets'
    <2> SUFFICES ASSUME NEW o \in Operators PROVE Bracket(search[o])'
        BY DEF Brackets
    <2>1. search[o].head \in Blocks
        BY <1>3 DEF Searches
    <2> QED BY <1>1, <1>3, <2>1 DEF NewBlock, Bracket, NotAfter, Blocks
<1> QED BY <1>2, <1>4 DEF Inv

(***************************************************************************)
(* Whatever operators and chain do, the brackets of block_at_or_before     *)
(* hold.                                                                   *)
(***************************************************************************)
THEOREM Bracketed == Spec => []Inv
<1>1. Init => Inv
    BY InitInv
<1>2. Inv /\ [Next]_vars => Inv'
    <2> SUFFICES ASSUME Inv, [Next]_vars PROVE Inv'
        OBVIOUS
    <2>1. CASE NewBlock
        BY <2>1, NewBlockInv
    <2>2. CASE \E o \in Operators : Probe(o) \/ LookupFails(o)
        <3> PICK o \in Operators : Probe(o) \/ LookupFails(o)
            BY <2>2
        <3>1. CASE GenesisTooLate(o) \/ LagTooDeep(o) \/ LookupFails(o)
            BY <3>1, FailsInv DEF GenesisTooLate, LagTooDeep, LookupFails
        <3>2. CASE ReadHead(o) \/ SleepAndReadAgain(o) \/ StopWaiting(o)
                  \/ HeadNotPast(o) \/ HeadPast(o)
            BY <3>2, HeadInv
        <3>3. CASE WalkBack(o)
            BY <3>3, WalkBackInv
        <3>4. CASE Bisect(o)
            BY <3>4, BisectInv
        <3>5. CASE Resolve(o)
            BY <3>5, ResolveInv
        <3> QED BY <3>1, <3>2, <3>3, <3>4, <3>5 DEF Probe
    <2>3. CASE UNCHANGED vars
        BY <2>3 DEF vars, Inv, TypeOK, NonDecreasing, Brackets, Bracket, NotAfter
    <2> QED BY <2>1, <2>2, <2>3 DEF Next
<1> QED BY <1>1, <1>2, PTL DEF Spec

\* A block before the bracket is at or before the trigger time, one after it is not.
LEMMA BracketIsLast ==
    ASSUME Inv, NEW o \in Operators, Done(o), NEW n \in Blocks
    PROVE  NotAfter(n) <=> n <= search[o].best
<1>1. search[o] \in Searches /\ Bracket(search[o]) /\ search[o].pc = "done"
    BY DEF Inv, TypeOK, Searches, Brackets, Done, At
<1>2. /\ search[o].best \in Blocks /\ search[o].best + 1 \in Blocks
      /\ NotAfter(search[o].best) /\ ~NotAfter(search[o].best + 1)
    <2>1. /\ search[o].best \in Blocks /\ search[o].head \in Blocks
          /\ search[o].best + 1 <= search[o].head
          /\ NotAfter(search[o].best) /\ ~NotAfter(search[o].best + 1)
        BY <1>1 DEF Bracket, Searches
    <2> QED BY <2>1, InputsBlockAssumption DEF Blocks
<1>3. /\ n <= search[o].best => timestamp[n] <= timestamp[search[o].best]
      /\ search[o].best + 1 <= n => timestamp[search[o].best + 1] <= timestamp[n]
    BY <1>2 DEF Inv, TypeOK, NonDecreasing
<1>4. /\ timestamp[n] \in Nat /\ timestamp[search[o].best] \in Nat
      /\ timestamp[search[o].best + 1] \in Nat
    BY <1>2 DEF Inv, TypeOK
<1> QED BY <1>2, <1>3, <1>4, InputsBlockAssumption DEF NotAfter, Blocks

(***************************************************************************)
(* No search leaves the chain: TypeOK.                                     *)
(***************************************************************************)
THEOREM SearchTypes == Spec => []TypeOK
BY Bracketed, PTL DEF Inv

(***************************************************************************)
(* A search that resolves found the last block at or before the trigger    *)
(* time.                                                                   *)
(***************************************************************************)
THEOREM FindsLast == Spec => []LastAtOrBefore
<1>1. Inv => LastAtOrBefore
    <2> SUFFICES ASSUME Inv, NEW o \in Operators, Done(o), NEW n \in 0 .. height
                 PROVE  timestamp[n] <= TriggerTime <=> n <= search[o].inputsBlock + Lag
        BY DEF LastAtOrBefore
    <2>1. search[o].inputsBlock + Lag = search[o].best
        BY DEF Inv, Brackets, Bracket, Done, At
    <2>2. n \in Blocks
        BY InputsBlockAssumption DEF Inv, TypeOK, Blocks
    <2> QED BY <2>1, <2>2, BracketIsLast DEF NotAfter
<1> QED BY <1>1, Bracketed, PTL

(***************************************************************************)
(* All operators that resolve a block resolve the same one: the agreement  *)
(* the quorum of blocks.rs rests on.                                       *)
(***************************************************************************)
THEOREM OperatorsAgree == Spec => []SameBlock
<1>1. Inv => SameBlock
    <2> SUFFICES ASSUME Inv, NEW o \in Operators, NEW p \in Operators, Done(o), Done(p)
                 PROVE  search[o].inputsBlock = search[p].inputsBlock
        BY DEF SameBlock
    <2>1. \A q \in {o, p} : /\ search[q].inputsBlock + Lag = search[q].best
                            /\ search[q].best \in Blocks /\ search[q].inputsBlock \in Blocks
                            /\ NotAfter(search[q].best)
        BY DEF Inv, TypeOK, Brackets, Bracket, Done, At
    <2>2. search[o].best <= search[p].best /\ search[p].best <= search[o].best
        BY <2>1, BracketIsLast
    <2> QED BY <2>1, <2>2, InputsBlockAssumption DEF Blocks
<1> QED BY <1>1, Bracketed, PTL

-----------------------------------------------------------------------------
(* Powers of two, counted as the parts of a set                            *)

\* A power of two is the number of parts of 1..n.
LEMMA PowerIsParts ==
    ASSUME NEW n \in Nat
    PROVE  /\ IsFiniteSet(1..n) /\ Cardinality(1..n) = n
           /\ IsFiniteSet(SUBSET (1..n)) /\ Cardinality(SUBSET (1..n)) = 2^n /\ 2^n \in Nat
<1>1. IsFiniteSet(1..n) /\ Cardinality(1..n) = n
  <2>1. 1 \in Int /\ n \in Int /\ (1 > n <=> n = 0)
    OBVIOUS
  <2>2. IsFiniteSet(1..n) /\ Cardinality(1..n) = IF 1 > n THEN 0 ELSE n - 1 + 1
    BY <2>1, FS_Interval
  <2> QED BY <2>1, <2>2
<1> DEFINE S == 1..n
<1>2. IsFiniteSet(SUBSET S) /\ Cardinality(SUBSET S) = 2^Cardinality(S)
  <2>1. IsFiniteSet(S)
    BY <1>1
  <2> HIDE DEF S
  <2> QED BY <2>1, FS_SUBSET
<1>3. Cardinality(SUBSET S) \in Nat
  <2> HIDE DEF S
  <2> QED BY <1>2, FS_CardinalityType
<1> QED BY <1>1, <1>2, <1>3

\* One more element doubles the parts: with it and without it.
LEMMA PowerDoubles ==
    ASSUME NEW n \in Nat PROVE 2^(n + 1) = 2 * 2^n
<1> DEFINE S == 1..n
           x == n + 1
           U == {T \cup {x} : T \in SUBSET S}
           add == [T \in SUBSET S |-> T \cup {x}]
<1>1. 1..(n + 1) = S \cup {x} /\ x \notin S /\ n + 1 \in Nat
  OBVIOUS
<1>2. /\ IsFiniteSet(SUBSET S) /\ Cardinality(SUBSET S) = 2^n /\ 2^n \in Nat
      /\ Cardinality(SUBSET (1..(n + 1))) = 2^(n + 1)
  BY <1>1, PowerIsParts
<1> HIDE DEF S, x
<1>3. SUBSET (S \cup {x}) = (SUBSET S) \cup U
  <2>1. ASSUME NEW T \in SUBSET (S \cup {x}) PROVE T \in (SUBSET S) \cup U
    <3>1. CASE x \in T
      <4>1. T \ {x} \in SUBSET S /\ T = (T \ {x}) \cup {x}
        BY <3>1
      <4> QED BY <4>1
    <3>2. CASE x \notin T
      BY <3>2
    <3> QED BY <3>1, <3>2
  <2>2. ASSUME NEW T \in (SUBSET S) \cup U PROVE T \in SUBSET (S \cup {x})
    OBVIOUS
  <2> QED BY <2>1, <2>2
<1>4. (SUBSET S) \cap U = {}
  BY <1>1
<1>5. IsFiniteSet(U) /\ Cardinality(U) = 2^n
  <2>1. add \in [SUBSET S -> U] /\ \A u \in U : \E T \in SUBSET S : add[T] = u
    OBVIOUS
  <2>2. \A T, V \in SUBSET S : add[T] = add[V] => T = V
    <3>1. SUFFICES ASSUME NEW T \in SUBSET S, NEW V \in SUBSET S, T \cup {x} = V \cup {x} PROVE T = V
      OBVIOUS
    <3> QED BY <1>1, <3>1
  <2> HIDE DEF add, U
  <2> DEFINE P == SUBSET S
  <2>3. /\ add \in [P -> U] /\ (\A u \in U : \E T \in P : add[T] = u)
        /\ (\A T, V \in P : add[T] = add[V] => T = V)
        /\ IsFiniteSet(P) /\ Cardinality(P) = 2^n
    BY <1>2, <2>1, <2>2
  <2> HIDE DEF P
  <2>4. add \in Injection(P, U) /\ add \in Surjection(P, U)
    BY <2>3, Fun_IsInj, Fun_IsSurj
  <2>5. ExistsBijection(P, U)
    BY <2>4 DEF Bijection, ExistsBijection
  <2> QED BY <2>3, <2>5, FS_Bijection
<1>6. Cardinality((SUBSET S) \cup U) = Cardinality(SUBSET S) + Cardinality(U) - Cardinality((SUBSET S) \cap U)
  <2> DEFINE P == SUBSET S
  <2>1. IsFiniteSet(P) /\ IsFiniteSet(U)
    BY <1>2, <1>5
  <2> HIDE DEF P, U
  <2>2. Cardinality(P \cup U) = Cardinality(P) + Cardinality(U) - Cardinality(P \cap U)
    BY <2>1, FS_Union
  <2> QED BY <2>2 DEF P
<1>7. Cardinality({}) = 0
  BY FS_EmptySet
<1> HIDE DEF U
<1>8. 2^(n + 1) = 2^n + 2^n - 0
  BY <1>1, <1>2, <1>3, <1>4, <1>5, <1>6, <1>7
<1> QED BY <1>2, <1>8

\* A number is less than its power of two: each of 1..n is a part of it, and so is none.
LEMMA PowerExceeds ==
    ASSUME NEW n \in Nat PROVE n < 2^n
<1> DEFINE P == SUBSET (1..n)
           part == [i \in 0..n |-> IF i = 0 THEN {} ELSE {i}]
<1>1. IsFiniteSet(P) /\ Cardinality(P) = 2^n /\ 2^n \in Nat
  BY PowerIsParts
<1>2. part \in [0..n -> P] /\ \A i, j \in 0..n : part[i] = part[j] => i = j
  OBVIOUS
<1>3. Cardinality(0..n) = n + 1
  <2>1. 0 \in Int /\ n \in Int /\ ~(0 > n)
    OBVIOUS
  <2>2. Cardinality(0..n) = IF 0 > n THEN 0 ELSE n - 0 + 1
    BY <2>1, FS_Interval
  <2> QED BY <2>1, <2>2
<1> DEFINE N == 0..n
<1>4. part \in [N -> P] /\ (\A i, j \in N : part[i] = part[j] => i = j) /\ Cardinality(N) = n + 1
  BY <1>2, <1>3
<1> HIDE DEF P, part, N
<1>5. part \in Injection(N, P)
  BY <1>4, Fun_IsInj
<1>6. Cardinality(N) <= Cardinality(P)
  BY <1>1, <1>5, FS_Injection
<1> QED BY <1>1, <1>4, <1>6

-----------------------------------------------------------------------------
(* What a search costs                                                     *)

Few(s) ==
    \E j \in 1 .. MaxBlock : 2 ^ (j - 1) <= s.head - s.best /\ s.probes <= 2 * j + 1

(***************************************************************************)
(* After k strides the walk is 2^k - 1 below the head, or at genesis, too  *)
(* late there, and has probed k + 1 headers.  The bisection starts below   *)
(* the last of them that was too late, 2^k - 1 below the head, and has     *)
(* fewer than 2^m blocks left where it may probe m more.                   *)
(***************************************************************************)
Walked(s, k) ==
    /\ s.probes = k + 1 /\ s.stride = 2^k /\ ~NotAfter(s.lo)
    /\ s.lo # 0 => s.lo + 2^k = s.head + 1

Bisected(s, k, late, m) ==
    /\ ~NotAfter(late) /\ late + 2^k = s.head + 1
    /\ s.b + 1 - s.a < 2^m /\ s.probes + m <= 2 * (k + 1) + 1

Cost(s) ==
    /\ s.pc \in {"idle", "wait", "head"} => s.stride = 1
    /\ s.pc = "walk" => \E k \in Nat : Walked(s, k)
    /\ s.pc = "bisect" => \E k, m \in Nat : \E late \in Blocks : Bisected(s, k, late, m)
    /\ s.pc = "done" => Few(s)

Costs == \A o \in Operators : Cost(search[o])

\* Only the search that moves has its cost to show.
LEMMA OneCost ==
    ASSUME Inv, Costs, NEW o \in Operators, NEW s, Cost(s),
           search' = [search EXCEPT ![o] = s], UNCHANGED <<timestamp, height>>
    PROVE  Costs'
<1>1. search \in [Operators -> Searches]
  BY DEF Inv, TypeOK, Searches
<1>2. ASSUME NEW p \in Operators PROVE Cost(search'[p])
  BY <1>1 DEF Costs
<1>3. ASSUME NEW p \in Operators PROVE Cost(search[p])'
  BY <1>2 DEF Cost, Walked, Bisected, Few, NotAfter
<1> QED BY <1>3 DEF Costs

\* A stride back: one probe, and twice the distance.
LEMMA WalkBackCost ==
    ASSUME Inv, Costs, NEW o \in Operators, WalkBack(o) PROVE Costs'
<1> DEFINE s  == search[o]
           lo == WalkedTo(s)
           t  == [s EXCEPT !.lo = lo, !.stride = 2 * @, !.probes = @ + 1]
           v  == [t EXCEPT !.pc = "bisect", !.best = lo, !.a = lo + 1, !.b = s.head - 1]
           u  == IF NotAfter(lo) THEN v ELSE t
<1>1. s \in Searches /\ s.pc = "walk" /\ s.lo # 0
  BY DEF Inv, TypeOK, Searches, WalkBack, At
<1>2. PICK k \in Nat : Walked(s, k)
  BY <1>1 DEF Costs, Cost
<1>3. s.head \in Nat /\ s.lo \in Blocks /\ s.lo \in Nat
  BY <1>1 DEF Searches, Blocks
<1>4. /\ s.probes = k + 1 /\ s.stride = 2^k /\ ~NotAfter(s.lo) /\ s.lo + 2^k = s.head + 1
      /\ 2^k \in Nat /\ 2^(k + 1) = 2 * 2^k
  BY <1>1, <1>2, PowerIsParts, PowerDoubles DEF Walked
<1>5. /\ lo \in Nat
      /\ lo # 0 => lo + 2^(k + 1) = s.head + 1
      /\ s.head + 1 <= lo + 2^(k + 1)
  <2>1. lo = IF s.stride <= s.lo THEN s.lo - s.stride ELSE 0
    BY DEF WalkedTo
  <2> HIDE DEF lo, s
  <2> QED BY <1>3, <1>4, <2>1
<1>6. search' = [search EXCEPT ![o] = u] /\ UNCHANGED <<timestamp, height>>
  BY DEF WalkBack
<1>7. /\ t.pc = "walk" /\ t.lo = lo /\ t.head = s.head
      /\ t.stride = 2^(k + 1) /\ t.probes = (k + 1) + 1
  <2>1. t.stride = 2 * s.stride /\ t.probes = s.probes + 1
    BY <1>1 DEF Searches
  <2> HIDE DEF lo
  <2> QED BY <1>1, <1>4, <2>1 DEF Searches
<1>8. CASE NotAfter(lo)
  <2>1. /\ v.pc = "bisect" /\ v.a = lo + 1 /\ v.b = s.head - 1 /\ v.head = s.head
        /\ v.probes = k + 2
    <3>1. v.probes = t.probes
      BY <1>1 DEF Searches
    <3>2. /\ v.pc = "bisect" /\ v.a = lo + 1 /\ v.b = s.head - 1 /\ v.head = s.head
      BY <1>1 DEF Searches
    <3> HIDE DEF v, t
    <3> QED BY <1>7, <3>1, <3>2
  <2> HIDE DEF v, lo, s, t
  <2>2. v.b + 1 - v.a < 2^(k + 1)
    BY <1>3, <1>4, <1>5, <2>1
  <2>3. v.probes + (k + 1) <= 2 * (k + 1) + 1
    BY <2>1
  <2>4. Bisected(v, k, s.lo, k + 1)
    BY <1>4, <2>1, <2>2, <2>3 DEF Bisected
  <2>5. Cost(v)
    BY <1>3, <2>1, <2>4 DEF Cost
  <2> QED BY <1>6, <1>8, <2>5, OneCost
<1>9. CASE ~NotAfter(lo)
  <2> HIDE DEF lo, s, t
  <2>1. Walked(t, k + 1)
    BY <1>5, <1>7, <1>9 DEF Walked
  <2>2. Cost(t)
    BY <1>7, <2>1 DEF Cost
  <2> QED BY <1>6, <1>9, <2>2, OneCost
<1> QED BY <1>8, <1>9

\* A probe of the bisection halves what is left.
LEMMA BisectCost ==
    ASSUME Inv, Costs, NEW o \in Operators, Bisect(o) PROVE Costs'
<1> DEFINE s   == search[o]
           mid == s.a + (s.b - s.a) \div 2
           up  == [s EXCEPT !.best = mid, !.a = mid + 1, !.probes = @ + 1]
           down == [s EXCEPT !.b = mid - 1, !.probes = @ + 1]
           u   == IF NotAfter(mid) THEN up ELSE down
<1>1. s \in Searches /\ s.pc = "bisect" /\ s.a <= s.b
  BY DEF Inv, TypeOK, Searches, Bisect, At
<1>2. PICK k \in Nat, m \in Nat, late \in Blocks : Bisected(s, k, late, m)
  BY <1>1 DEF Costs, Cost
<1>3. s.a \in Nat /\ s.b \in Nat /\ s.probes \in Nat
  BY <1>1 DEF Searches, Blocks
<1>4. /\ ~NotAfter(late) /\ late + 2^k = s.head + 1
      /\ s.b + 1 - s.a < 2^m /\ s.probes + m <= 2 * (k + 1) + 1
  BY <1>2 DEF Bisected
<1>5. m # 0
  <2>1. ASSUME m = 0 PROVE FALSE
    <3>1. 2^m = 1
      BY <2>1
    <3> HIDE DEF s
    <3> QED BY <1>1, <1>3, <1>4, <3>1
  <2> QED BY <2>1
<1> DEFINE n == m - 1
<1>6. n \in Nat /\ n + 1 = m /\ 2^n \in Nat /\ 2^m = 2 * 2^n
  <2>1. n \in Nat /\ n + 1 = m
    BY <1>5
  <2> HIDE DEF n
  <2> QED BY <2>1, PowerIsParts, PowerDoubles
<1>7. mid \in Nat /\ s.b + 1 - (mid + 1) < 2^n /\ (mid - 1) + 1 - s.a < 2^n
  <2> DEFINE d == s.b - s.a
             h == d \div 2
  <2>1. d \in Nat
    BY <1>1, <1>3
  <2>2. h \in Nat /\ 2 * h <= d /\ d <= 2 * h + 1
    <3> HIDE DEF d
    <3> QED BY <2>1
  <2>3. d + 1 < 2 * 2^n
    <3> HIDE DEF s
    <3> QED BY <1>1, <1>3, <1>4, <1>6
  <2> HIDE DEF h
  <2>4. mid = s.a + h /\ s.b = s.a + d
    BY <1>1, <1>3 DEF h
  <2> HIDE DEF s, d, mid, n
  <2> QED BY <1>3, <1>6, <2>1, <2>2, <2>3, <2>4
<1>8. (s.probes + 1) + n <= 2 * (k + 1) + 1
  <2> HIDE DEF s
  <2> QED BY <1>3, <1>4, <1>6
<1>9. search' = [search EXCEPT ![o] = u] /\ UNCHANGED <<timestamp, height>>
  BY DEF Bisect
<1> HIDE DEF mid, n
<1>10. CASE NotAfter(mid)
  <2>1. /\ up.pc = "bisect" /\ up.a = mid + 1 /\ up.b = s.b /\ up.head = s.head
        /\ up.probes = s.probes + 1
    BY <1>1 DEF Searches
  <2> HIDE DEF up, s
  <2>2. Bisected(up, k, late, n)
    BY <1>4, <1>7, <1>8, <2>1 DEF Bisected
  <2>3. Cost(up)
    BY <1>6, <2>1, <2>2 DEF Cost
  <2> QED BY <1>9, <1>10, <2>3, OneCost
<1>11. CASE ~NotAfter(mid)
  <2>1. /\ down.pc = "bisect" /\ down.a = s.a /\ down.b = mid - 1 /\ down.head = s.head
        /\ down.probes = s.probes + 1
    BY <1>1 DEF Searches
  <2> HIDE DEF down, s
  <2>2. Bisected(down, k, late, n)
    BY <1>4, <1>7, <1>8, <2>1 DEF Bisected
  <2>3. Cost(down)
    BY <1>6, <2>1, <2>2 DEF Cost
  <2> QED BY <1>9, <1>11, <2>3, OneCost
<1> QED BY <1>10, <1>11

\* A search that closes has paid for its distance.
LEMMA ResolveCost ==
    ASSUME Inv, Costs, NEW o \in Operators, Resolve(o) PROVE Costs'
<1> DEFINE s == search[o]
           u == [s EXCEPT !.pc = "done", !.inputsBlock = s.best - Lag]
<1>1. s \in Searches /\ Bracket(s) /\ s.pc = "bisect"
  BY DEF Inv, TypeOK, Searches, Brackets, Resolve, At
<1>2. PICK k \in Nat, m \in Nat, late \in Blocks : Bisected(s, k, late, m)
  BY <1>1 DEF Costs, Cost
<1>3. /\ s.head \in Blocks /\ s.best \in Blocks /\ s.probes \in Nat /\ NotAfter(s.best)
  BY <1>1 DEF Searches, Bracket
<1>4. /\ ~NotAfter(late) /\ late + 2^k = s.head + 1 /\ s.probes + m <= 2 * (k + 1) + 1
      /\ 2^k \in Nat /\ k < 2^k
  BY <1>2, PowerIsParts, PowerExceeds DEF Bisected
<1>5. s.best < late
  <2>1. ASSUME late <= s.best PROVE FALSE
    <3>1. timestamp[late] <= timestamp[s.best]
      BY <1>3, <2>1 DEF Inv, TypeOK, NonDecreasing
    <3>2. timestamp[late] \in Nat /\ timestamp[s.best] \in Nat /\ TriggerTime \in Nat
      BY <1>3, InputsBlockAssumption DEF Inv, TypeOK
    <3> HIDE DEF s
    <3> QED BY <1>3, <1>4, <3>1, <3>2 DEF NotAfter
  <2> HIDE DEF s
  <2> QED BY <1>3, <2>1 DEF Blocks
<1>6. 2^k <= s.head - s.best /\ k + 1 <= MaxBlock /\ s.probes <= 2 * (k + 1) + 1
  <2> HIDE DEF s
  <2> QED BY <1>3, <1>4, <1>5, InputsBlockAssumption DEF Blocks
<1>7. u.pc = "done" /\ u.head = s.head /\ u.best = s.best /\ u.probes = s.probes
  BY <1>1 DEF Searches
<1>8. search' = [search EXCEPT ![o] = u] /\ UNCHANGED <<timestamp, height>>
  BY DEF Resolve
<1> HIDE DEF u, s
<1>9. Few(u)
  <2>1. k + 1 \in 1 .. MaxBlock /\ (k + 1) - 1 = k
    BY <1>6, InputsBlockAssumption
  <2>2. 2^((k + 1) - 1) <= u.head - u.best /\ u.probes <= 2 * (k + 1) + 1
    BY <1>6, <1>7, <2>1
  <2> QED BY <2>1, <2>2 DEF Few
<1>10. Cost(u)
  BY <1>7, <1>9 DEF Cost
<1> QED BY <1>8, <1>10, OneCost

\* The steps before the walk, and those that end a search without an answer.
LEMMA OtherCost ==
    ASSUME Inv, Costs, NEW o \in Operators,
           \/ ReadHead(o) \/ SleepAndReadAgain(o) \/ StopWaiting(o) \/ HeadNotPast(o) \/ HeadPast(o)
           \/ GenesisTooLate(o) \/ LagTooDeep(o) \/ LookupFails(o)
    PROVE  Costs'
<1> DEFINE s == search[o]
<1>1. s \in Searches /\ Cost(s)
  BY DEF Inv, TypeOK, Searches, Costs
<1>2. CASE ReadHead(o)
  <2> DEFINE u == [s EXCEPT !.pc = "wait", !.head = height, !.attempt = @ + 1]
  <2>1. u.pc = "wait" /\ u.stride = s.stride /\ s.pc = "idle"
    BY <1>1, <1>2 DEF Searches, ReadHead, At
  <2>2. search' = [search EXCEPT ![o] = u] /\ UNCHANGED <<timestamp, height>>
    BY <1>2 DEF ReadHead
  <2> HIDE DEF u
  <2>3. Cost(u)
    BY <1>1, <2>1 DEF Cost
  <2> QED BY <2>2, <2>3, OneCost
<1>3. ASSUME NEW pc \in {"idle", "head", "behind", "failed"},
             search' = [search EXCEPT ![o].pc = pc], UNCHANGED <<timestamp, height>>,
             pc \in {"idle", "head"} => s.pc = "wait"
      PROVE  Costs'
  <2> DEFINE u == [s EXCEPT !.pc = pc]
  <2>1. u.pc = pc /\ u.stride = s.stride
    BY <1>1 DEF Searches
  <2>2. search' = [search EXCEPT ![o] = u]
    BY <1>3
  <2> HIDE DEF u
  <2>3. Cost(u)
    BY <1>1, <1>3, <2>1 DEF Cost
  <2> QED BY <1>3, <2>2, <2>3, OneCost
<1>4. CASE SleepAndReadAgain(o)
  BY <1>3, <1>4 DEF SleepAndReadAgain, At
<1>5. CASE StopWaiting(o)
  BY <1>3, <1>5 DEF StopWaiting, At
<1>6. CASE HeadNotPast(o)
  BY <1>3, <1>6 DEF HeadNotPast
<1>7. CASE GenesisTooLate(o) \/ LagTooDeep(o) \/ LookupFails(o)
  BY <1>3, <1>7 DEF GenesisTooLate, LagTooDeep, LookupFails, Fails
<1>8. CASE HeadPast(o)
  <2> DEFINE u == [s EXCEPT !.pc = "walk", !.lo = s.head, !.probes = 1]
  <2>1. s.pc = "head" /\ ~NotAfter(s.head)
    BY <1>8 DEF HeadPast, At
  <2>2. /\ u.pc = "walk" /\ u.lo = s.head /\ u.head = s.head /\ u.stride = s.stride /\ u.probes = 1
        /\ s.head \in Nat
    BY <1>1 DEF Searches, Blocks
  <2>3. search' = [search EXCEPT ![o] = u] /\ UNCHANGED <<timestamp, height>>
    BY <1>8 DEF HeadPast
  <2> HIDE DEF u, s
  <2>4. 2^0 = 1 /\ s.stride = 1
    BY <1>1, <2>1 DEF Cost
  <2>5. Walked(u, 0)
    BY <2>1, <2>2, <2>4 DEF Walked
  <2>6. Cost(u)
    BY <2>2, <2>5 DEF Cost
  <2> QED BY <2>3, <2>6, OneCost
<1> QED BY <1>2, <1>4, <1>5, <1>6, <1>7, <1>8

(***************************************************************************)
(* A search costs a number of probes logarithmic in the distance from the  *)
(* head to the block it finds, and not in the height of the chain: what    *)
(* the comment on block_at_or_before (blocks.rs) promises.                 *)
(***************************************************************************)
THEOREM SearchIsCheap == Spec => []ProbesAreFew
<1>1. Init => Costs
  <2>1. NotStarted.pc = "idle" /\ NotStarted.stride = 1
    BY DEF NotStarted
  <2>2. Cost(NotStarted)
    BY <2>1 DEF Cost
  <2>3. Init => \A o \in Operators : search[o] = NotStarted
    BY DEF Init
  <2> QED BY <2>2, <2>3 DEF Costs
<1>2. ASSUME Inv, Costs, [Next]_vars PROVE Costs'
  <2>1. CASE NewBlock \/ UNCHANGED vars
    BY <1>2, <2>1 DEF NewBlock, vars, Costs, Cost, Walked, Bisected, Few, NotAfter
  <2>2. ASSUME NEW o \in Operators, Probe(o) \/ LookupFails(o) PROVE Costs'
    BY <1>2, <2>2, WalkBackCost, BisectCost, ResolveCost, OtherCost DEF Probe
  <2> QED BY <1>2, <2>1, <2>2 DEF Next
<1>3. Costs => ProbesAreFew
  BY DEF Costs, Cost, ProbesAreFew, Few, Done, At
<1> QED BY <1>1, <1>2, <1>3, Bracketed, PTL DEF Spec

=============================================================================
