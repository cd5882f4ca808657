--------------------------- MODULE Mediator_proofs ---------------------------
(***************************************************************************)
(* Proofs about Mediator: for any looks and numbers of layers and any      *)
(* inputs of the overlay engine, what the displays are shown is what       *)
(* SurfaceFlinger asked for, whether it was validated or skipped.          *)
(*                                                                         *)
(* The operators that change one display are first reduced to what they do *)
(* to each field (OpeningIs, HrtRunIs, ValidatedIs, PresentedIs).  A       *)
(* display whose layers are divided between inputs and client target       *)
(* (Divided, Fits) stays so when HRT runs on it again (HrtAgain), which is *)
(* why validation can be skipped; one that has been validated and run is   *)
(* ready to be presented (HrtFirst).  The invariant says of each display   *)
(* what Local says, and of the two together which call comes next.         *)
(***************************************************************************)
EXTENDS Mediator, Layering_proofs

-----------------------------------------------------------------------------
(* The order of the layers.                                                *)

\* The layers of a display by number.
LEMMA StackedLayers ==
  ASSUME NEW n \in Nat, NEW S \in SUBSET (1 .. n)
  PROVE  /\ Stacked(S) \in Seq(S) /\ Len(Stacked(S)) \in 0 .. n
         /\ \A i, k \in 1 .. Len(Stacked(S)) : i < k => Stacked(S)[i] < Stacked(S)[k]
         /\ \A l \in S : \E i \in 1 .. Len(Stacked(S)) : Stacked(S)[i] = l
<1> DEFINE UpTo(l) == {m \in S : m <= l}
           rank == [l \in S |-> Cardinality(UpTo(l))]
           num == Cardinality(S)
           s == Stacked(S)
<1>1. IsFiniteSet(1 .. n)
  BY FS_Interval
<1>2. IsFiniteSet(S) /\ num \in Nat
  BY <1>1, FS_Subset, FS_CardinalityType
<1>3. num <= n
  <2>1. Cardinality(1 .. n) = n
    BY FS_Interval
  <2>2. Cardinality(S) <= Cardinality(1 .. n)
    BY <1>1, FS_Subset
  <2> QED BY <2>1, <2>2
<1>4. \A l \in S : l \in Int
  OBVIOUS
<1>5. \A l \in S : l \in UpTo(l) /\ UpTo(l) \in SUBSET S
  BY <1>4
<1>6. \A l, m \in S : l < m => UpTo(l) \in SUBSET UpTo(m) /\ m \notin UpTo(l)
  <2> TAKE l \in S, m \in S
  <2> HAVE l < m
  <2>1. \A k \in UpTo(l) : k \in UpTo(m)
    BY <1>4
  <2>2. m \notin UpTo(l)
    BY <1>4
  <2> QED BY <2>1, <2>2
<1> HIDE DEF UpTo
<1>7. \A l \in S : /\ IsFiniteSet(UpTo(l)) /\ Cardinality(UpTo(l)) \in Nat
                   /\ Cardinality(UpTo(l)) <= num
  BY <1>2, <1>5, FS_Subset, FS_CardinalityType
<1>8. \A l \in S : Cardinality(UpTo(l)) # 0
  BY <1>5, <1>7, FS_EmptySet
<1>9. \A l \in S : Cardinality(UpTo(l)) \in 1 .. num
  BY <1>2, <1>7, <1>8
<1>10. ASSUME NEW l \in S, NEW m \in S, l < m
      PROVE  Cardinality(UpTo(l)) < Cardinality(UpTo(m))
  <2>1. UpTo(l) \in SUBSET UpTo(m) /\ UpTo(l) # UpTo(m)
    BY <1>5, <1>6, <1>10
  <2>2. IsFiniteSet(UpTo(m))
    BY <1>7
  <2>3. /\ Cardinality(UpTo(l)) <= Cardinality(UpTo(m))
        /\ Cardinality(UpTo(l)) # Cardinality(UpTo(m))
    BY <2>1, <2>2, FS_Subset
  <2> QED BY <1>7, <2>3
<1>11. \A l, m \in S : Cardinality(UpTo(l)) = Cardinality(UpTo(m)) => l = m
  <2> TAKE l \in S, m \in S
  <2>1. CASE l < m
    BY <1>7, <1>10, <2>1
  <2>2. CASE m < l
    BY <1>7, <1>10, <2>2
  <2> QED BY <1>4, <2>1, <2>2
<1>12. IsFiniteSet(1 .. num) /\ Cardinality(1 .. num) = num
  BY <1>2, FS_Interval
<1>13. rank \in Injection(S, 1 .. num)
  BY <1>9, <1>11 DEF Injection, IsInjective
<1>14. rank \in Surjection(S, 1 .. num)
  BY <1>12, <1>13, FS_Injection
<1>15. \A k \in 1 .. num : \E l \in S : Cardinality(UpTo(l)) = k
  BY <1>14 DEF Surjection
<1>16. s = [k \in 1 .. num |-> CHOOSE l \in S : Cardinality(UpTo(l)) = k]
  BY DEF Stacked, UpTo
<1>17. \A k \in 1 .. num : s[k] \in S /\ Cardinality(UpTo(s[k])) = k
  BY <1>15, <1>16
<1>18. s \in [1 .. num -> S]
  BY <1>16, <1>17
<1>19. s \in Seq(S) /\ Len(s) = num
  BY <1>2, <1>18
<1>20. ASSUME NEW i \in 1 .. num, NEW k \in 1 .. num, i < k
       PROVE  s[i] < s[k]
  <2>1. s[i] \in Int /\ s[k] \in Int /\ s[i] \in S /\ s[k] \in S
    BY <1>4, <1>17
  <2>2. s[i] # s[k]
    BY <1>17, <1>20
  <2>3. CASE s[k] < s[i]
    BY <1>10, <1>17, <1>20, <2>1, <2>3
  <2> QED BY <2>1, <2>2, <2>3
<1>21. \A l \in S : s[Cardinality(UpTo(l))] = l
  BY <1>9, <1>11, <1>17
<1> HIDE DEF s, num
<1> QED BY <1>2, <1>3, <1>9, <1>19, <1>20, <1>21 DEF s

-----------------------------------------------------------------------------
(* Types.                                                                  *)

Answers == {"none", "client", "device"}
States == {"PRESENT_DONE", "CHECK_SKIP", "VALIDATE", "VALIDATE_DONE"}
Steps == {"idle", "try", "validate", "present"}
Rows(d) == [Layers(d) -> Looks \union {Absent}]

LayerRec == [type : LayerTypes, sf : Answers, changed : BOOLEAN,
             cap : BOOLEAN, clear : BOOLEAN]
RangeRec == [head : Int, tail : Int]
JobRec == [num : Nat, ovl : Seq(Nat)]
DisplayRec(d) ==
    [connected : BOOLEAN, on : BOOLEAN, gpu : BOOLEAN, config : BOOLEAN,
     state : States, count : Nat, prevAvail : Nat, visible : Seq(Layers(d)),
     listChanged : BOOLEAN, range : RangeRec, clearNum : Nat,
     prevTypes : Seq(Answers), layer : [Layers(d) -> LayerRec], job : JobRec]

UpOf(row) == {l \in DOMAIN row : row[l] # Absent}
JobNum(n) == IF n = 0 THEN 1 ELSE n

Opening(r, row, n, state) == [Prepared(Built(r, row), n) EXCEPT !.state = state]

\* The layers are numbered from the lowest to the highest.
LEMMA LayerNumbers ==
  ASSUME NEW d \in Displays
  PROVE  /\ LooksOf[d] \in Seq(SUBSET Looks) /\ Len(LooksOf[d]) \in Nat
         /\ Layers(d) = 1 .. Len(LooksOf[d])
<1>1. LooksOf[d] \in Seq(SUBSET Looks)
  BY MediatorAssumption
<1> QED BY <1>1 DEF Layers

\* What is built of a display's looks is a sequence of its layers.
LEMMA StackedUp ==
  ASSUME NEW d \in Displays, NEW row \in Rows(d)
  PROVE  /\ Stacked(UpOf(row)) \in Seq(Layers(d))
         /\ Len(Stacked(UpOf(row))) \in 0 .. Len(LooksOf[d])
         /\ \A i \in 1 .. Len(Stacked(UpOf(row))) : Stacked(UpOf(row))[i] \in UpOf(row)
         /\ \A i, k \in 1 .. Len(Stacked(UpOf(row))) :
               i < k => Stacked(UpOf(row))[i] < Stacked(UpOf(row))[k]
         /\ \A l \in UpOf(row) :
               \E i \in 1 .. Len(Stacked(UpOf(row))) : Stacked(UpOf(row))[i] = l
<1>1. UpOf(row) \in SUBSET Layers(d)
  BY DEF UpOf, Rows
<1>2. Layers(d) = 1 .. Len(LooksOf[d]) /\ Len(LooksOf[d]) \in Nat
  BY LayerNumbers
<1> DEFINE S == UpOf(row)
<1> HIDE DEF S
<1>3. /\ Stacked(S) \in Seq(S) /\ Len(Stacked(S)) \in 0 .. Len(LooksOf[d])
      /\ \A i, k \in 1 .. Len(Stacked(S)) : i < k => Stacked(S)[i] < Stacked(S)[k]
      /\ \A l \in S : \E i \in 1 .. Len(Stacked(S)) : Stacked(S)[i] = l
  BY <1>1, <1>2, StackedLayers DEF S
<1>4. \A i \in 1 .. Len(Stacked(S)) : Stacked(S)[i] \in S
  BY <1>3
<1>5. Stacked(S) \in Seq(Layers(d))
  BY <1>1, <1>3 DEF S
<1> QED BY <1>3, <1>4, <1>5 DEF S

\* What SurfaceFlinger takes a layer's type for.
LEMMA AnswerType ==
  ASSUME NEW type \in LayerTypes
  PROVE  /\ getCompositionType(type) \in Answers
         /\ getCompositionType(type) = "none" <=> type = "NONE"
         /\ getCompositionType(type) = "client" <=> type = "INVALID"
         /\ getCompositionType(type) = "device" <=> type \in {"UI", "MM"}
  BY DEF getCompositionType, LayerTypes, Answers

\* What is prepared of a display, field by field.
LEMMA OpeningIs ==
  ASSUME NEW d \in Displays, NEW r \in DisplayRec(d), NEW row \in Rows(d),
         NEW n \in Nat, NEW state \in States, NEW q, q = Opening(r, row, n, state)
  PROVE  /\ q \in DisplayRec(d)
         /\ q.state = state /\ q.count = r.count + 1
         /\ q.visible = Stacked(UpOf(row)) /\ q.listChanged = (q.visible # r.visible)
         /\ q.job = [num |-> JobNum(n), ovl |-> <<>>]
         /\ q.prevTypes = [i \in Indices(q) |->
                getCompositionType(q.layer[q.visible[i]].type)]
         /\ q.connected = r.connected /\ q.on = r.on /\ q.gpu = r.gpu
         /\ q.config = r.config /\ q.prevAvail = r.prevAvail /\ q.range = r.range
         /\ q.clearNum = r.clearNum /\ q.layer = r.layer
<1> DEFINE b == Built(r, row)
           vis == Stacked(UpOf(row))
           new == vis # r.visible
           more == r.count + 1
<1>1. vis \in Seq(Layers(d)) /\ new \in BOOLEAN /\ more \in Nat
  BY StackedUp DEF DisplayRec
<1>2. b = [r EXCEPT !.visible = vis, !.listChanged = new, !.count = more]
  BY DEF Built, UpOf
<1> HIDE DEF vis, new, more, b
<1>3. /\ b \in DisplayRec(d)
      /\ b.visible = vis /\ b.listChanged = new /\ b.count = more
      /\ b.connected = r.connected /\ b.on = r.on /\ b.gpu = r.gpu /\ b.state = r.state
      /\ b.config = r.config /\ b.prevAvail = r.prevAvail /\ b.range = r.range
      /\ b.clearNum = r.clearNum /\ b.layer = r.layer
  BY <1>1, <1>2 DEF DisplayRec
<1> DEFINE types == [i \in Indices(b) |-> getCompositionType(Types(b)[i])]
           job == [num |-> JobNum(n), ovl |-> <<>>]
<1>4. types = [i \in Indices(b) |-> getCompositionType(b.layer[b.visible[i]].type)]
  BY DEF Types
<1>5. types \in Seq(Answers)
  <2>1. b.visible \in Seq(Layers(d)) /\ b.layer \in [Layers(d) -> LayerRec]
    BY <1>3 DEF DisplayRec
  <2>2. \A i \in Indices(b) : b.layer[b.visible[i]].type \in LayerTypes
    BY <2>1 DEF Indices, LayerRec
  <2>3. \A i \in Indices(b) : getCompositionType(b.layer[b.visible[i]].type) \in Answers
    BY <2>2, AnswerType
  <2>4. types \in [Indices(b) -> Answers]
    BY <1>4, <2>3
  <2> QED BY <2>1, <2>4 DEF Indices
<1>6. job \in JobRec
  BY DEF JobRec, JobNum
<1>7. q = [b EXCEPT !.job = job, !.prevTypes = types, !.state = state]
  BY DEF Opening, Prepared, b, JobNum
<1> HIDE DEF types, job
<1>8. /\ q \in DisplayRec(d)
      /\ q.state = state /\ q.count = b.count /\ q.visible = b.visible
      /\ q.listChanged = b.listChanged /\ q.job = job /\ q.prevTypes = types
      /\ q.connected = b.connected /\ q.on = b.on /\ q.gpu = b.gpu
      /\ q.config = b.config /\ q.prevAvail = b.prevAvail /\ q.range = b.range
      /\ q.clearNum = b.clearNum /\ q.layer = b.layer
  BY <1>3, <1>5, <1>6, <1>7 DEF DisplayRec
<1>9. types = [i \in Indices(q) |-> getCompositionType(q.layer[q.visible[i]].type)]
  BY <1>4, <1>8 DEF Indices
<1> QED BY <1>3, <1>8, <1>9 DEF job, vis, new, more

-----------------------------------------------------------------------------
(* The layers of a display and their types.                                *)

Ascending(visible) ==
    \A i, k \in 1 .. Len(visible) : i < k => visible[i] < visible[k]

\* The fields of a display that its layers' validation leaves alone.
SameState(q, r) ==
    /\ q.connected = r.connected /\ q.on = r.on /\ q.gpu = r.gpu
    /\ q.config = r.config /\ q.count = r.count /\ q.prevAvail = r.prevAvail
    /\ q.visible = r.visible /\ q.listChanged = r.listChanged
    /\ q.prevTypes = r.prevTypes /\ q.job.num = r.job.num

\* The fields of a layer that its display's validation leaves alone.
SameLayer(y, x) == y.sf = x.sf /\ y.changed = x.changed

\* The visible layers are layers of the display.
LEMMA VisibleTypes ==
  ASSUME NEW d \in Displays, NEW r \in DisplayRec(d)
  PROVE  /\ Len(r.visible) \in Nat /\ Indices(r) = 1 .. Len(r.visible)
         /\ r.visible \in [Indices(r) -> Layers(d)]
         /\ \A i \in Indices(r) : r.visible[i] \in Layers(d) /\ r.visible[i] \in Int
         /\ \A l \in Layers(d) : r.layer[l] \in LayerRec
         /\ r.layer \in [Layers(d) -> LayerRec]
         /\ \A l : l \in Range(r.visible) <=> \E i \in Indices(r) : r.visible[i] = l
<1>1. /\ r.visible \in Seq(Layers(d)) /\ r.layer \in [Layers(d) -> LayerRec]
  BY DEF DisplayRec
<1>2. \A l \in Layers(d) : l \in Int
  BY LayerNumbers
<1>3. Len(r.visible) \in Nat /\ DOMAIN r.visible = Indices(r) /\ Indices(r) = 1 .. Len(r.visible)
  BY <1>1 DEF Indices
<1>4. \A l : l \in Range(r.visible) <=> \E i \in Indices(r) : r.visible[i] = l
  BY <1>3 DEF Range
<1>5. \A i \in Indices(r) : r.visible[i] \in Layers(d)
  BY <1>1, <1>3
<1> QED BY <1>1, <1>2, <1>3, <1>4, <1>5

\* No layer is visible twice.
LEMMA VisibleOnce ==
  ASSUME NEW d \in Displays, NEW r \in DisplayRec(d), Ascending(r.visible)
  PROVE  \A i, k \in Indices(r) : r.visible[i] = r.visible[k] => i = k
<1>1. /\ Len(r.visible) \in Nat /\ Indices(r) = 1 .. Len(r.visible)
      /\ \A i \in Indices(r) : r.visible[i] \in Int
  BY VisibleTypes
<1>2. \A i, k \in Indices(r) : i < k => r.visible[i] < r.visible[k]
  BY <1>1 DEF Ascending
<1>3. \A i, k \in Indices(r) : i < k \/ k < i \/ i = k
  BY <1>1
<1> HIDE DEF Indices
<1> QED BY <1>1, <1>2, <1>3

\* The visible layers get their types and keep all the rest.
LEMMA WithTypesIs ==
  ASSUME NEW d \in Displays, NEW r \in DisplayRec(d), Ascending(r.visible),
         NEW types \in [Indices(r) -> LayerTypes], NEW w, w = WithTypes(r, types)
  PROVE  /\ w \in DisplayRec(d) /\ SameState(w, r)
         /\ w.state = r.state /\ w.range = r.range /\ w.clearNum = r.clearNum
         /\ w.job = r.job
         /\ \A l \in Layers(d) : /\ SameLayer(w.layer[l], r.layer[l])
                                 /\ w.layer[l].cap = r.layer[l].cap
                                 /\ w.layer[l].clear = r.layer[l].clear
         /\ \A i \in Indices(r) : w.layer[r.visible[i]].type = types[i]
         /\ \A l \in Layers(d) \ Range(r.visible) : w.layer[l].type = r.layer[l].type
<1> DEFINE at(l) == CHOOSE i \in Indices(r) : r.visible[i] = l
           new(l) == IF l \in Range(r.visible)
                     THEN [r.layer[l] EXCEPT !.type = types[at(l)]] ELSE r.layer[l]
           layer == [l \in Layers(d) |-> new(l)]
<1>1. /\ r.layer \in [Layers(d) -> LayerRec]
      /\ \A i \in Indices(r) : r.visible[i] \in Layers(d)
      /\ \A l : l \in Range(r.visible) <=> \E i \in Indices(r) : r.visible[i] = l
  BY VisibleTypes
<1>2. DOMAIN r.layer = Layers(d)
  BY <1>1
<1>3. w = [r EXCEPT !.layer = layer]
  BY <1>2 DEF WithTypes
<1>4. \A i \in Indices(r) : at(r.visible[i]) = i
  BY VisibleOnce
<1>5. \A l \in Range(r.visible) : at(l) \in Indices(r) /\ r.visible[at(l)] = l
  BY <1>1
<1> HIDE DEF at
<1>6. ASSUME NEW l \in Layers(d)
      PROVE  /\ new(l) \in LayerRec /\ SameLayer(new(l), r.layer[l])
             /\ new(l).cap = r.layer[l].cap /\ new(l).clear = r.layer[l].clear
             /\ new(l).type = IF l \in Range(r.visible) THEN types[at(l)] ELSE r.layer[l].type
  <2>1. r.layer[l] \in LayerRec
    BY <1>1
  <2>2. l \in Range(r.visible) => types[at(l)] \in LayerTypes
    BY <1>5
  <2> QED BY <2>1, <2>2 DEF LayerRec, SameLayer
<1> HIDE DEF new
<1>7. layer \in [Layers(d) -> LayerRec]
  BY <1>6
<1>8. \A l \in Layers(d) : layer[l] = new(l)
  OBVIOUS
<1> HIDE DEF layer
<1>9. /\ w \in DisplayRec(d) /\ SameState(w, r)
      /\ w.state = r.state /\ w.range = r.range /\ w.clearNum = r.clearNum
      /\ w.job = r.job /\ w.layer = layer
  BY <1>3, <1>7 DEF DisplayRec, SameState
<1>10. \A i \in Indices(r) : w.layer[r.visible[i]].type = types[i]
  BY <1>1, <1>4, <1>6, <1>8, <1>9
<1> QED BY <1>6, <1>8, <1>9, <1>10

\* The types of the layers that are shown, and which of them are clear.
LEMMA TypesIs ==
  ASSUME NEW d \in Displays, NEW r \in DisplayRec(d)
  PROVE  /\ Types(r) \in [Indices(r) -> LayerTypes]
         /\ \A i \in Indices(r) : Types(r)[i] = r.layer[r.visible[i]].type
         /\ ClearOf(r) \in SUBSET Indices(r)
<1>1. /\ \A i \in Indices(r) : r.visible[i] \in Layers(d)
      /\ \A l \in Layers(d) : r.layer[l] \in LayerRec
  BY VisibleTypes
<1>2. \A i \in Indices(r) : r.layer[r.visible[i]].type \in LayerTypes
  BY <1>1 DEF LayerRec
<1> QED BY <1>2 DEF Types, ClearOf

\* Every layer gets one of the inputs.
LEMMA SlotsType ==
  ASSUME NEW n \in Nat, NEW range, NEW clear \in SUBSET (1 .. n), NEW num \in Nat
  PROVE  SlotsOf(n, range, clear, num) \in Seq(Nat)
<1> DEFINE s == SlotsOf(n, range, clear, num)
<1>1. IsFiniteSet(1 .. n)
  BY FS_Interval
<1>2. ASSUME NEW S \in SUBSET (1 .. n) PROVE Cardinality(S) \in Nat
  BY <1>1, FS_Subset, FS_CardinalityType
<1>3. ASSUME NEW i \in 1 .. n PROVE s[i] \in Nat
  <2> DEFINE A == {j \in clear : j < i}
             B == {j \in 1 .. n : j < i /\ (j < range.head \/ j >= range.tail)}
  <2>1. A \in SUBSET (1 .. n) /\ B \in SUBSET (1 .. n)
    OBVIOUS
  <2>2. s[i] = IF num > 0 THEN IF i \in clear THEN Cardinality(A) ELSE num
               ELSE Cardinality(B)
    BY DEF SlotsOf
  <2> HIDE DEF A, B, s
  <2>3. Cardinality(A) \in Nat /\ Cardinality(B) \in Nat
    BY <1>2, <2>1
  <2> QED BY <2>2, <2>3
<1>4. DOMAIN s = 1 .. n /\ s = [i \in 1 .. n |-> s[i]]
  BY DEF SlotsOf
<1> HIDE DEF s
<1>5. s \in [1 .. n -> Nat]
  BY <1>3, <1>4
<1> QED BY <1>5 DEF s

-----------------------------------------------------------------------------
(* The layering rule on one display.                                       *)

\* What HrtCommon::run finds and decides for a display.
FoundOf(r) == findGlesRange(Types(r))
Caps(r) == {i \in Indices(r) : r.layer[r.visible[i]].cap}
RuleOf(r) ==
    IF isValid(r)
    THEN simpleLayeringRule(Len(r.visible), FoundOf(r), Caps(r), r.job.num)
    ELSE [range |-> FoundOf(r), clear |-> {}]
ClearAll(r) == ClearOf(r) \union RuleOf(r).clear
NumOf(r) ==
    IF RuleOf(r).range = NoRange THEN r.clearNum
    ELSE Cardinality({i \in ClearAll(r) : InRange(i, RuleOf(r).range)})
HrtTypes(r) == updateGlesRangeHwType(Types(r), RuleOf(r).range, ClearAll(r))
Marked(r) == {r.visible[i] : i \in ClearAll(r)}

\* A display whose layers may be counted.
Countable(d, r) ==
    r \in DisplayRec(d) /\ Ascending(r.visible) /\ (isValid(r) => r.job.num # 0)

\* The rule as HrtCommon::run uses it.
LEMMA RuleIs ==
  ASSUME NEW d \in Displays, NEW r, Countable(d, r)
  PROVE  /\ Divides(Len(r.visible), RuleOf(r).range, RuleOf(r).clear)
         /\ RuleOf(r).clear \subseteq Caps(r)
         /\ \A i \in Indices(r) : Types(r)[i] = "INVALID" => InRange(i, RuleOf(r).range)
         /\ isValid(r) => CommittedCount(Len(r.visible), RuleOf(r).range) <= r.job.num
         /\ (Len(r.visible) <= 2 \/ r.job.num >= 2) /\ RuleOf(r).clear # {} =>
               Cardinality(RuleOf(r).clear) < r.job.num
<1> DEFINE n == Len(r.visible)
<1>1. r \in DisplayRec(d)
  BY DEF Countable
<1>2. /\ n \in Nat /\ Indices(r) = 1 .. n /\ r.job.num \in Nat
      /\ Types(r) \in [1 .. n -> LayerTypes] /\ DOMAIN Types(r) = 1 .. n
  BY <1>1, VisibleTypes, TypesIs DEF DisplayRec, JobRec
<1> HIDE DEF n
<1>3. /\ FoundOf(r) \in Ranges(n)
      /\ \A i \in 1 .. n : Types(r)[i] = "INVALID" => InRange(i, FoundOf(r))
  BY <1>2, FoundRange DEF FoundOf
<1>4. CASE isValid(r)
  <2>1. r.job.num \in Nat \ {0}
    BY <1>2, <1>4 DEF Countable
  <2>2. Caps(r) \in SUBSET (1 .. n)
    BY <1>2 DEF Caps
  <2>3. RuleOf(r) = simpleLayeringRule(n, FoundOf(r), Caps(r), r.job.num)
    BY <1>4 DEF RuleOf, n
  <2>4. /\ Divides(n, RuleOf(r).range, RuleOf(r).clear) /\ RuleOf(r).clear \subseteq Caps(r)
        /\ CommittedCount(n, RuleOf(r).range) <= r.job.num
        /\ \A i \in 1 .. n : InRange(i, FoundOf(r)) => InRange(i, RuleOf(r).range)
        /\ (n <= 2 \/ r.job.num >= 2) /\ RuleOf(r).clear # {} =>
             Cardinality(RuleOf(r).clear) < r.job.num
    BY <1>2, <1>3, <2>1, <2>2, <2>3, RuleFits
  <2> QED BY <1>2, <1>3, <2>4 DEF n
<1>5. CASE ~isValid(r)
  <2>1. RuleOf(r).range = FoundOf(r) /\ RuleOf(r).clear = {}
    BY <1>5 DEF RuleOf
  <2> QED BY <1>2, <1>3, <1>5, <2>1 DEF n, Divides
<1> QED BY <1>4, <1>5

\* What HrtCommon::run makes of a display, field by field.
LEMMA HrtRunIs ==
  ASSUME NEW d \in Displays, NEW r, Countable(d, r), r.connected, NEW h, h = HrtRun(r)
  PROVE  /\ h \in DisplayRec(d) /\ SameState(h, r) /\ h.state = r.state
         /\ h.range = RuleOf(r).range /\ h.clearNum = NumOf(r)
         /\ Types(h) = HrtTypes(r) /\ ClearOf(h) = ClearAll(r)
         /\ \A l \in Layers(d) : /\ SameLayer(h.layer[l], r.layer[l])
                                 /\ h.layer[l].cap = r.layer[l].cap
                                 /\ h.layer[l].clear = (r.layer[l].clear \/ l \in Marked(r))
         /\ \A l \in Layers(d) \ Range(r.visible) : h.layer[l].type = r.layer[l].type
         /\ \A i \in Indices(r) : h.layer[r.visible[i]].type = HrtTypes(r)[i]
         /\ h.job = IF isValid(r)
                    THEN [r.job EXCEPT !.ovl = SlotsOf(Len(r.visible), h.range, ClearOf(h),
                                                       h.clearNum)]
                    ELSE r.job
<1> DEFINE n == Len(r.visible)
           w == WithTypes(r, HrtTypes(r))
           new(l) == IF l \in Marked(r) THEN [w.layer[l] EXCEPT !.clear = TRUE]
                                        ELSE w.layer[l]
           layer == [l \in Layers(d) |-> new(l)]
           slots == SlotsOf(n, RuleOf(r).range, ClearAll(r), NumOf(r))
           ovl == IF isValid(r) THEN slots ELSE r.job.ovl
           range == RuleOf(r).range
           num == NumOf(r)
<1>1. r \in DisplayRec(d) /\ Ascending(r.visible)
  BY DEF Countable
<1>2. /\ n \in Nat /\ Indices(r) = 1 .. n /\ DOMAIN r.layer = Layers(d)
      /\ \A i \in Indices(r) : r.visible[i] \in Layers(d)
      /\ \A l : l \in Range(r.visible) <=> \E i \in Indices(r) : r.visible[i] = l
  BY <1>1, VisibleTypes
<1>3. /\ Types(r) \in [Indices(r) -> LayerTypes]
      /\ ClearOf(r) \in SUBSET Indices(r)
  BY <1>1, TypesIs
<1>4. range \in Ranges(n) /\ RuleOf(r).clear \in SUBSET (1 .. n)
  BY RuleIs DEF Divides
<1>5. range \in RangeRec
  BY <1>2, <1>4 DEF Ranges, NoRange, RangeRec
<1>6. ClearAll(r) \in SUBSET (1 .. n)
  BY <1>2, <1>3, <1>4 DEF ClearAll
<1>7. num \in Nat
  <2> DEFINE S == {i \in ClearAll(r) : InRange(i, range)}
  <2>1. S \in SUBSET (1 .. n) /\ IsFiniteSet(1 .. n)
    BY <1>2, <1>6, FS_Interval
  <2>2. Cardinality(S) \in Nat
    BY <2>1, FS_Subset, FS_CardinalityType
  <2>3. r.clearNum \in Nat
    BY <1>1 DEF DisplayRec
  <2> QED BY <2>2, <2>3 DEF NumOf
<1>8. slots \in Seq(Nat)
  BY <1>2, <1>6, <1>7, SlotsType
<1>9. HrtTypes(r) \in [Indices(r) -> LayerTypes]
  BY <1>3 DEF HrtTypes, updateGlesRangeHwType, LayerTypes
<1>10. h = [w EXCEPT !.range = range, !.clearNum = num, !.job.ovl = ovl, !.layer = layer]
  <2>1. w.job.ovl = r.job.ovl
    BY <1>1, <1>9, WithTypesIs
  <2> QED BY <1>2, <2>1 DEF HrtRun, RuleOf, FoundOf, Caps, ClearAll, NumOf, HrtTypes, Marked
<1> HIDE DEF w
<1>11. /\ w \in DisplayRec(d) /\ SameState(w, r)
       /\ w.state = r.state /\ w.range = r.range /\ w.clearNum = r.clearNum
       /\ w.job = r.job
       /\ \A l \in Layers(d) : /\ SameLayer(w.layer[l], r.layer[l])
                               /\ w.layer[l].cap = r.layer[l].cap
                               /\ w.layer[l].clear = r.layer[l].clear
       /\ \A i \in Indices(r) : w.layer[r.visible[i]].type = HrtTypes(r)[i]
       /\ \A l \in Layers(d) \ Range(r.visible) : w.layer[l].type = r.layer[l].type
  BY <1>1, <1>9, WithTypesIs DEF w
<1>12. ASSUME NEW l \in Layers(d)
       PROVE  /\ new(l) \in LayerRec /\ SameLayer(new(l), w.layer[l])
              /\ new(l).cap = w.layer[l].cap /\ new(l).type = w.layer[l].type
              /\ new(l).clear = (w.layer[l].clear \/ l \in Marked(r))
  <2>1. w.layer[l] \in LayerRec
    BY <1>11, VisibleTypes
  <2>2. CASE l \in Marked(r)
    <3>1. new(l) = [w.layer[l] EXCEPT !.clear = TRUE]
      BY <2>2
    <3> HIDE DEF new
    <3>2. /\ new(l) \in LayerRec /\ SameLayer(new(l), w.layer[l])
          /\ new(l).cap = w.layer[l].cap /\ new(l).type = w.layer[l].type
          /\ new(l).clear = TRUE
      BY <2>1, <3>1 DEF LayerRec, SameLayer
    <3> QED BY <2>2, <3>2
  <2>3. CASE l \notin Marked(r)
    <3>1. new(l) = w.layer[l]
      BY <2>3
    <3> HIDE DEF new
    <3>2. w.layer[l].clear \in BOOLEAN
      BY <2>1 DEF LayerRec
    <3>3. w.layer[l].clear = (w.layer[l].clear \/ l \in Marked(r))
      BY <2>3, <3>2
    <3> QED BY <2>1, <3>1, <3>3 DEF SameLayer
  <2> QED BY <2>2, <2>3
<1> HIDE DEF new
<1>13. layer \in [Layers(d) -> LayerRec] /\ \A l \in Layers(d) : layer[l] = new(l)
  BY <1>12
<1> HIDE DEF layer, slots, range, num
<1>14. ovl \in Seq(Nat) /\ r.job \in JobRec
  BY <1>1, <1>8 DEF DisplayRec, JobRec
<1> HIDE DEF ovl
<1> DEFINE job == [r.job EXCEPT !.ovl = ovl]
<1>15. job \in JobRec /\ job.num = r.job.num
  BY <1>14 DEF JobRec
<1>16. h = [w EXCEPT !.range = range, !.clearNum = num, !.job = job, !.layer = layer]
  BY <1>10, <1>11 DEF DisplayRec
<1> HIDE DEF job
<1>17. /\ h \in DisplayRec(d) /\ SameState(h, w) /\ h.state = w.state
       /\ h.range = range /\ h.clearNum = num /\ h.layer = layer /\ h.job = job
  <2>1. /\ w \in DisplayRec(d) /\ range \in RangeRec /\ num \in Nat
        /\ layer \in [Layers(d) -> LayerRec] /\ job \in JobRec
    BY <1>5, <1>7, <1>11, <1>13, <1>15 DEF range, num
  <2>2. h \in DisplayRec(d)
    BY <1>16, <2>1 DEF DisplayRec
  <2>3. /\ h.range = range /\ h.clearNum = num /\ h.layer = layer /\ h.job = job
        /\ h.state = w.state /\ h.connected = w.connected /\ h.on = w.on
        /\ h.gpu = w.gpu /\ h.config = w.config /\ h.count = w.count
        /\ h.prevAvail = w.prevAvail /\ h.visible = w.visible
        /\ h.listChanged = w.listChanged /\ h.prevTypes = w.prevTypes
    BY <1>16, <2>1 DEF DisplayRec
  <2>4. h.job.num = w.job.num
    BY <1>11, <1>15, <2>3
  <2> QED BY <2>2, <2>3, <2>4 DEF SameState
<1>18. SameState(h, r)
  BY <1>11, <1>17 DEF SameState
<1>19. \A l \in Layers(d) : /\ SameLayer(h.layer[l], r.layer[l])
                            /\ h.layer[l].cap = r.layer[l].cap
                            /\ h.layer[l].clear = (r.layer[l].clear \/ l \in Marked(r))
                            /\ h.layer[l].type = w.layer[l].type
  BY <1>11, <1>12, <1>13, <1>17 DEF SameLayer
<1>20. \A i \in Indices(r) : h.layer[r.visible[i]].type = HrtTypes(r)[i]
  BY <1>2, <1>11, <1>19
<1>21. Indices(h) = Indices(r) /\ h.visible = r.visible
  BY <1>18 DEF SameState, Indices
<1>22. Types(h) = HrtTypes(r)
  BY <1>9, <1>20, <1>21 DEF Types
<1>23. ClearOf(h) = ClearAll(r)
  <2>1. ASSUME NEW i \in Indices(r)
        PROVE  h.layer[r.visible[i]].clear <=> i \in ClearAll(r)
    <3>1. r.visible[i] \in Marked(r) <=> i \in ClearAll(r)
      <4>1. ClearAll(r) \subseteq Indices(r)
        BY <1>2, <1>6
      <4> QED BY <1>1, <4>1, VisibleOnce DEF Marked
    <3>2. r.layer[r.visible[i]].clear => i \in ClearAll(r)
      BY DEF ClearAll, ClearOf
    <3> QED BY <1>2, <1>19, <3>1, <3>2
  <2>2. ClearAll(r) \subseteq Indices(r)
    BY <1>2, <1>6
  <2> QED BY <1>21, <2>1, <2>2 DEF ClearOf
<1>24. h.job = IF isValid(r)
               THEN [r.job EXCEPT !.ovl = SlotsOf(n, h.range, ClearOf(h), h.clearNum)]
               ELSE r.job
  <2>1. CASE isValid(r)
    BY <1>17, <1>23, <2>1 DEF job, ovl, slots, range, num
  <2>2. CASE ~isValid(r)
    <3>1. job = [r.job EXCEPT !.ovl = r.job.ovl]
      BY <2>2 DEF job, ovl
    <3> QED BY <1>14, <1>17, <2>2, <3>1 DEF JobRec
  <2> QED BY <2>1, <2>2
<1>25. \A l \in Layers(d) \ Range(r.visible) : h.layer[l].type = r.layer[l].type
  BY <1>11, <1>19
<1> QED
  BY <1>17, <1>18, <1>19, <1>20, <1>22, <1>23, <1>24, <1>25, <1>11 DEF range, num

-----------------------------------------------------------------------------
(* What a division of the layers is.                                       *)

Matches(type, look) ==
    \/ type = "INVALID"
    \/ type = "UI" /\ look \in {"opaque", "alpha"}
    \/ type = "MM" /\ look = "video"

\* The layers are divided between the inputs and the client target.
OneMM(types) == \A i, k \in DOMAIN types : types[i] = "MM" /\ types[k] = "MM" => i = k

Divided(r) ==
    /\ Divides(Len(r.visible), r.range, ClearOf(r))
    /\ \A i \in Indices(r) :
         Types(r)[i] = "INVALID" <=> InRange(i, r.range) /\ i \notin ClearOf(r)
    /\ r.clearNum = Cardinality(ClearOf(r))
    /\ OneMM(Types(r))

\* Where there are enough inputs, clear layers leave one for the client target.
EnoughInputs == \A d \in Displays :
    Len(LooksOf[d]) <= 2 \/ \A n \in Inputs[d] : n >= 2

Fits(r, num) ==
    /\ CommittedCount(Len(r.visible), r.range) <= num
    /\ EnoughInputs /\ ClearOf(r) # {} => r.clearNum < num

Ready(r) ==
    /\ Divided(r) /\ Fits(r, r.job.num)
    /\ r.job.ovl = SlotsOf(Len(r.visible), r.range, ClearOf(r), r.clearNum)
    /\ r.gpu => \A i \in Indices(r) : Types(r)[i] = "INVALID"

\* Only the input numbers are decided again for a display that is divided.
LEMMA HrtAgain ==
  ASSUME NEW d \in Displays, NEW r, Countable(d, r), r.connected, Divided(r),
         isValid(r) => CommittedCount(Len(r.visible), r.range) <= r.job.num,
         NEW h, h = HrtRun(r)
  PROVE  /\ h \in DisplayRec(d) /\ SameState(h, r) /\ h.state = r.state
         /\ h.range = r.range /\ h.clearNum = r.clearNum /\ h.layer = r.layer
         /\ h.job = IF isValid(r)
                    THEN [r.job EXCEPT !.ovl = SlotsOf(Len(r.visible), r.range, ClearOf(r),
                                                       r.clearNum)]
                    ELSE r.job
<1> DEFINE n == Len(r.visible)
           C == ClearOf(r)
<1>1. r \in DisplayRec(d) /\ Ascending(r.visible)
  BY DEF Countable
<1>2. /\ n \in Nat /\ Indices(r) = 1 .. n /\ r.job.num \in Nat
      /\ Types(r) \in [1 .. n -> LayerTypes] /\ DOMAIN Types(r) = 1 .. n
      /\ C \in SUBSET (1 .. n)
      /\ \A i \in Indices(r) : Types(r)[i] = r.layer[r.visible[i]].type
  BY <1>1, VisibleTypes, TypesIs DEF DisplayRec, JobRec
<1>3. /\ Divides(n, r.range, C)
      /\ \A i \in 1 .. n : Types(r)[i] = "INVALID" <=> InRange(i, r.range) /\ i \notin C
      /\ r.clearNum = Cardinality(C)
  BY <1>2 DEF Divided
<1> HIDE DEF n, C
<1>4. FoundOf(r) = r.range
  BY <1>2, <1>3, RangeFoundAgain DEF FoundOf
<1>5. RuleOf(r) = [range |-> r.range, clear |-> {}]
  <2>1. CASE isValid(r)
    <3>1. CommittedCount(n, r.range) \in Int
      BY <1>2, <1>3 DEF Divides, Ranges, CommittedCount, GlesCount, NoRange
    <3>2. CommittedCount(n, r.range) - r.job.num <= 0
      BY <1>2, <2>1, <3>1 DEF n
    <3>3. RuleOf(r) = simpleLayeringRule(n, r.range, Caps(r), r.job.num)
      BY <1>4, <2>1 DEF RuleOf, n
    <3> QED BY <3>2, <3>3 DEF simpleLayeringRule
  <2>2. CASE ~isValid(r)
    BY <1>4, <2>2 DEF RuleOf
  <2> QED BY <2>1, <2>2
<1>6. ClearAll(r) = C /\ RuleOf(r).range = r.range
  BY <1>5 DEF ClearAll, C
<1>7. NumOf(r) = r.clearNum
  <2>1. CASE r.range = NoRange
    BY <1>6, <2>1 DEF NumOf
  <2>2. CASE r.range # NoRange
    <3>1. \A i \in C : i \in 1 .. n
      BY <1>2
    <3>2. C # {} => r.range.head = 1 /\ r.range.tail = n
      BY <1>3 DEF Divides
    <3>3. \A i \in C : InRange(i, r.range)
      BY <1>2, <2>2, <3>1, <3>2 DEF InRange
    <3>4. {i \in C : InRange(i, r.range)} = C
      BY <3>3
    <3> QED BY <1>3, <1>6, <2>2, <3>4 DEF NumOf
  <2> QED BY <2>1, <2>2
<1>8. HrtTypes(r) = Types(r)
  <2>1. \A i \in 1 .. n : IF InRange(i, r.range) /\ i \notin C
                          THEN Types(r)[i] = "INVALID" ELSE TRUE
    BY <1>3
  <2> QED BY <1>2, <1>6, <2>1 DEF HrtTypes, updateGlesRangeHwType
<1>9. /\ h \in DisplayRec(d) /\ SameState(h, r) /\ h.state = r.state
      /\ h.range = r.range /\ h.clearNum = r.clearNum
      /\ ClearOf(h) = C
      /\ \A l \in Layers(d) : /\ SameLayer(h.layer[l], r.layer[l])
                              /\ h.layer[l].cap = r.layer[l].cap
                              /\ h.layer[l].clear = (r.layer[l].clear \/ l \in Marked(r))
      /\ \A l \in Layers(d) \ Range(r.visible) : h.layer[l].type = r.layer[l].type
      /\ \A i \in Indices(r) : h.layer[r.visible[i]].type = Types(r)[i]
      /\ h.job = IF isValid(r)
                 THEN [r.job EXCEPT !.ovl = SlotsOf(n, h.range, C, h.clearNum)]
                 ELSE r.job
  <2>1. /\ h \in DisplayRec(d) /\ SameState(h, r) /\ h.state = r.state
        /\ h.range = RuleOf(r).range /\ h.clearNum = NumOf(r) /\ ClearOf(h) = ClearAll(r)
        /\ \A l \in Layers(d) : /\ SameLayer(h.layer[l], r.layer[l])
                                /\ h.layer[l].cap = r.layer[l].cap
                                /\ h.layer[l].clear = (r.layer[l].clear \/ l \in Marked(r))
        /\ \A l \in Layers(d) \ Range(r.visible) : h.layer[l].type = r.layer[l].type
        /\ \A i \in Indices(r) : h.layer[r.visible[i]].type = HrtTypes(r)[i]
        /\ h.job = IF isValid(r)
                   THEN [r.job EXCEPT !.ovl = SlotsOf(Len(r.visible), h.range, ClearOf(h),
                                                      h.clearNum)]
                   ELSE r.job
    BY HrtRunIs
  <2>2. /\ RuleOf(r).range = r.range /\ NumOf(r) = r.clearNum /\ ClearAll(r) = C
        /\ HrtTypes(r) = Types(r)
    BY <1>6, <1>7, <1>8
  <2> QED BY <2>1, <2>2 DEF n
<1>10. ASSUME NEW l \in Layers(d) PROVE h.layer[l] = r.layer[l]
  <2>1. h.layer[l] \in LayerRec /\ r.layer[l] \in LayerRec
    BY <1>1, <1>9, VisibleTypes
  <2>2. h.layer[l].type = r.layer[l].type
    <3>1. CASE l \in Range(r.visible)
      <4>1. PICK i \in Indices(r) : r.visible[i] = l
        BY <1>1, <3>1, VisibleTypes
      <4> QED BY <1>2, <1>9, <4>1
    <3> QED BY <1>9, <3>1
  <2>3. l \in Marked(r) => r.layer[l].clear
    BY <1>6 DEF Marked, ClearOf, C
  <2>4. r.layer[l].clear \in BOOLEAN
    BY <2>1 DEF LayerRec
  <2>5. h.layer[l].clear = r.layer[l].clear
    BY <1>9, <2>3, <2>4
  <2> QED BY <1>9, <2>1, <2>2, <2>5 DEF LayerRec, SameLayer
<1>11. h.layer = r.layer
  <2>1. h.layer \in [Layers(d) -> LayerRec] /\ r.layer \in [Layers(d) -> LayerRec]
    BY <1>1, <1>9, VisibleTypes
  <2> QED BY <1>10, <2>1
<1> QED BY <1>9, <1>11 DEF n, C

\* At most one layer is left to the media data path, and no layer gets more
\* than it had.
LEMMA OffloadIs ==
  ASSUME NEW n \in Nat, NEW types \in [1 .. n -> LayerTypes],
         NEW off, off = offloadMMtoClient(types)
  PROVE  /\ off \in [1 .. n -> LayerTypes] /\ OneMM(off)
         /\ \A i \in 1 .. n : off[i] = "INVALID" \/ off[i] = types[i]
<1> DEFINE mm == {i \in DOMAIN types : types[i] = "MM"}
           kept == IF Cardinality(mm) >= 3 /\ Len(types) >= 4 THEN {}
                   ELSE IF mm = {} THEN {} ELSE {Min(mm)}
<1>1. off = [i \in 1 .. n |-> IF i \in mm \ kept THEN "INVALID" ELSE types[i]]
  BY DEF offloadMMtoClient
<1>2. \A i, k \in kept : i = k
  OBVIOUS
<1> HIDE DEF kept
<1>3. off \in [1 .. n -> LayerTypes]
  BY <1>1 DEF LayerTypes
<1>4. \A i \in 1 .. n : off[i] = "INVALID" \/ off[i] = types[i]
  BY <1>1
<1>5. \A i \in 1 .. n : off[i] = "MM" => i \in kept
  BY <1>1
<1> QED BY <1>2, <1>3, <1>4, <1>5 DEF OneMM

\* What HWCDisplay::validate makes of a display, field by field.
LEMMA ValidatedIs ==
  ASSUME NEW d \in Displays, NEW r \in DisplayRec(d), Ascending(r.visible),
         NEW row \in Rows(d), \A i \in Indices(r) : row[r.visible[i]] # Absent,
         NEW v, v = Validated(r, row)
  PROVE  /\ v \in DisplayRec(d) /\ SameState(v, r)
         /\ v.state = "VALIDATE" /\ v.clearNum = 0 /\ v.job = r.job
         /\ \A l \in Layers(d) : SameLayer(v.layer[l], r.layer[l])
         /\ \A l \in Layers(d) \ Range(r.visible) : v.layer[l].type = r.layer[l].type
         /\ \A i \in Indices(r) :
              /\ ~v.layer[r.visible[i]].clear
              /\ v.layer[r.visible[i]].cap => v.layer[r.visible[i]].type # "INVALID"
              /\ Matches(v.layer[r.visible[i]].type, row[r.visible[i]])
              /\ r.gpu \/ r.layer[r.visible[i]].sf = "client" =>
                   v.layer[r.visible[i]].type = "INVALID"
         /\ OneMM(Types(v))
<1> DEFINE own == [i \in Indices(r) |->
                    IF isForceGpuCompose(r) THEN "INVALID"
                    ELSE validateLayer(r.layer[r.visible[i]], row[r.visible[i]])]
           types == IF isForceGpuCompose(r) THEN own ELSE offloadMMtoClient(own)
           w == WithTypes(r, types)
           new(l) == IF l \in Range(r.visible)
                     THEN [w.layer[l] EXCEPT !.clear = FALSE,
                             !.cap = w.layer[l].type # "INVALID" /\ row[l] # "alpha"]
                     ELSE w.layer[l]
           layer == [l \in Layers(d) |-> new(l)]
<1>1. /\ Len(r.visible) \in Nat /\ Indices(r) = 1 .. Len(r.visible)
      /\ DOMAIN r.layer = Layers(d)
      /\ \A i \in Indices(r) : r.visible[i] \in Layers(d)
      /\ \A l : l \in Range(r.visible) <=> \E i \in Indices(r) : r.visible[i] = l
  BY VisibleTypes
<1>2. \A i \in Indices(r) : row[r.visible[i]] \in Looks
  BY <1>1 DEF Rows
<1>3. ASSUME NEW i \in Indices(r)
      PROVE  /\ own[i] \in LayerTypes /\ Matches(own[i], row[r.visible[i]])
             /\ r.gpu \/ r.layer[r.visible[i]].sf = "client" => own[i] = "INVALID"
  BY <1>2 DEF validateLayer, Matches, LayerTypes, Looks, isForceGpuCompose
<1>4. own \in [1 .. Len(r.visible) -> LayerTypes]
  BY <1>1, <1>3
<1>5. /\ types \in [1 .. Len(r.visible) -> LayerTypes] /\ OneMM(types)
      /\ \A i \in Indices(r) : types[i] = "INVALID" \/ types[i] = own[i]
  <2>1. CASE isForceGpuCompose(r)
    <3>1. types = own /\ \A i \in Indices(r) : own[i] = "INVALID"
      BY <2>1
    <3> HIDE DEF own, types
    <3> QED BY <1>1, <1>4, <3>1 DEF OneMM
  <2>2. CASE ~isForceGpuCompose(r)
    <3>1. types = offloadMMtoClient(own)
      BY <2>2
    <3> HIDE DEF own, types
    <3> QED BY <1>1, <1>4, <3>1, OffloadIs
  <2> QED BY <2>1, <2>2
<1> HIDE DEF own
<1>6. ASSUME NEW i \in Indices(r)
      PROVE  /\ Matches(types[i], row[r.visible[i]])
             /\ r.gpu \/ r.layer[r.visible[i]].sf = "client" => types[i] = "INVALID"
  BY <1>3, <1>5 DEF Matches
<1>7. v = [w EXCEPT !.state = "VALIDATE", !.clearNum = 0, !.layer = layer]
  BY <1>1 DEF Validated, own
<1> HIDE DEF types, w
<1>8. /\ w \in DisplayRec(d) /\ SameState(w, r) /\ w.job = r.job
      /\ \A l \in Layers(d) : SameLayer(w.layer[l], r.layer[l])
      /\ \A i \in Indices(r) : w.layer[r.visible[i]].type = types[i]
      /\ \A l \in Layers(d) \ Range(r.visible) : w.layer[l].type = r.layer[l].type
  BY <1>1, <1>5, WithTypesIs DEF w
<1>9. ASSUME NEW l \in Layers(d)
      PROVE  /\ new(l) \in LayerRec /\ SameLayer(new(l), w.layer[l])
             /\ new(l).type = w.layer[l].type
             /\ l \in Range(r.visible) =>
                  ~new(l).clear /\ (new(l).cap => new(l).type # "INVALID")
  <2>1. w.layer[l] \in LayerRec
    BY <1>8, VisibleTypes
  <2> DEFINE cap == w.layer[l].type # "INVALID" /\ row[l] # "alpha"
  <2>2. cap \in BOOLEAN /\ (cap => w.layer[l].type # "INVALID")
    OBVIOUS
  <2>3. CASE l \in Range(r.visible)
    <3>1. new(l) = [w.layer[l] EXCEPT !.clear = FALSE, !.cap = cap]
      BY <2>3
    <3> HIDE DEF new, cap
    <3>2. /\ new(l) \in LayerRec /\ SameLayer(new(l), w.layer[l])
          /\ new(l).type = w.layer[l].type /\ new(l).clear = FALSE /\ new(l).cap = cap
      BY <2>1, <2>2, <3>1 DEF LayerRec, SameLayer
    <3> QED BY <2>2, <3>2
  <2>4. CASE l \notin Range(r.visible)
    BY <2>1, <2>4 DEF SameLayer
  <2> QED BY <2>3, <2>4
<1> HIDE DEF new
<1>10. layer \in [Layers(d) -> LayerRec] /\ \A l \in Layers(d) : layer[l] = new(l)
  BY <1>9
<1> HIDE DEF layer
<1>11. v \in DisplayRec(d)
  <2> DEFINE state == "VALIDATE"
             none == 0
             u == [w EXCEPT !.state = state]
             x == [u EXCEPT !.clearNum = none]
  <2>1. /\ w \in DisplayRec(d) /\ layer \in [Layers(d) -> LayerRec]
        /\ state \in States /\ none \in Nat
    BY <1>8, <1>10 DEF States
  <2>2. v = [x EXCEPT !.layer = layer]
    BY <1>7, <2>1 DEF DisplayRec
  <2> HIDE DEF state, none, x
  <2>3. u \in DisplayRec(d)
    BY <2>1 DEF DisplayRec
  <2> HIDE DEF u
  <2>4. x \in DisplayRec(d)
    BY <2>1, <2>3 DEF DisplayRec, x
  <2> QED BY <2>1, <2>2, <2>4 DEF DisplayRec
<1>12. /\ v.state = "VALIDATE" /\ v.clearNum = 0 /\ v.layer = layer /\ v.job = w.job
       /\ v.connected = w.connected /\ v.on = w.on
       /\ v.gpu = w.gpu /\ v.config = w.config /\ v.count = w.count
       /\ v.prevAvail = w.prevAvail /\ v.visible = w.visible
       /\ v.listChanged = w.listChanged /\ v.prevTypes = w.prevTypes
  BY <1>7, <1>8 DEF DisplayRec
<1>13. SameState(v, r)
  BY <1>8, <1>12 DEF SameState
<1>14. \A l \in Layers(d) :
          /\ SameLayer(v.layer[l], r.layer[l]) /\ v.layer[l].type = w.layer[l].type
          /\ l \in Range(r.visible) =>
               ~v.layer[l].clear /\ (v.layer[l].cap => v.layer[l].type # "INVALID")
  BY <1>8, <1>9, <1>10, <1>12 DEF SameLayer
<1>15. \A i \in Indices(r) : v.layer[r.visible[i]].type = types[i]
  BY <1>1, <1>8, <1>14
<1>16. Types(v) = types
  <2>1. Indices(v) = Indices(r) /\ v.visible = r.visible
    BY <1>13 DEF SameState, Indices
  <2> QED BY <1>1, <1>5, <1>15, <2>1 DEF Types
<1>17. \A i \in Indices(r) : r.visible[i] \in Layers(d) /\ r.visible[i] \in Range(r.visible)
  BY <1>1
<1> QED BY <1>5, <1>6, <1>8, <1>11, <1>12, <1>13, <1>14, <1>15, <1>16, <1>17

-----------------------------------------------------------------------------
(* Validation and presentation of one display.                             *)

\* Two displays whose layers are divided alike.
Alike(q, r) ==
    /\ q.visible = r.visible /\ q.range = r.range /\ q.clearNum = r.clearNum
    /\ Types(q) = Types(r) /\ ClearOf(q) = ClearOf(r)

\* What is divided alike is divided as well.
LEMMA AlikeDivided ==
  ASSUME NEW q, NEW r, Alike(q, r)
  PROVE  /\ Divided(r) => Divided(q)
         /\ \A num : Fits(r, num) => Fits(q, num)
  BY DEF Alike, Divided, Fits, Indices

\* Displays whose visible layers have the same types are divided alike.
LEMMA AlikeLayers ==
  ASSUME NEW d \in Displays, NEW q \in DisplayRec(d), NEW r \in DisplayRec(d),
         q.visible = r.visible, q.range = r.range, q.clearNum = r.clearNum,
         \A i \in Indices(r) :
           /\ q.layer[r.visible[i]].type = r.layer[r.visible[i]].type
           /\ q.layer[r.visible[i]].clear = r.layer[r.visible[i]].clear
  PROVE  Alike(q, r)
<1>1. Indices(q) = Indices(r)
  BY DEF Indices
<1>2. Types(q) = Types(r)
  BY <1>1 DEF Types
<1>3. ClearOf(q) = ClearOf(r)
  BY <1>1 DEF ClearOf
<1> QED BY <1>2, <1>3 DEF Alike

\* A display is ready when its layers have been validated and divided.
LEMMA HrtFirst ==
  ASSUME NEW d \in Displays, NEW r \in DisplayRec(d), Ascending(r.visible),
         NEW row \in Rows(d), \A i \in Indices(r) : row[r.visible[i]] # Absent,
         isValid(r), r.job.num # 0,
         EnoughInputs => Len(r.visible) <= 2 \/ r.job.num >= 2,
         NEW h, h = HrtRun(Validated(r, row))
  PROVE  /\ h \in DisplayRec(d) /\ SameState(h, r) /\ h.state = "VALIDATE" /\ Ready(h)
         /\ \A l \in Layers(d) : SameLayer(h.layer[l], r.layer[l])
         /\ \A l \in Layers(d) \ Range(r.visible) : h.layer[l].type = r.layer[l].type
         /\ \A i \in Indices(r) :
              /\ Matches(h.layer[r.visible[i]].type, row[r.visible[i]])
              /\ r.layer[r.visible[i]].sf = "client" =>
                   h.layer[r.visible[i]].type = "INVALID"
<1> DEFINE v == Validated(r, row)
           n == Len(r.visible)
           C == RuleOf(v).clear
<1>1. /\ v \in DisplayRec(d) /\ SameState(v, r)
      /\ v.state = "VALIDATE" /\ v.clearNum = 0 /\ v.job = r.job
      /\ \A l \in Layers(d) : SameLayer(v.layer[l], r.layer[l])
      /\ \A l \in Layers(d) \ Range(r.visible) : v.layer[l].type = r.layer[l].type
      /\ \A i \in Indices(r) :
           /\ ~v.layer[r.visible[i]].clear
           /\ v.layer[r.visible[i]].cap => v.layer[r.visible[i]].type # "INVALID"
           /\ Matches(v.layer[r.visible[i]].type, row[r.visible[i]])
           /\ r.gpu \/ r.layer[r.visible[i]].sf = "client" =>
                v.layer[r.visible[i]].type = "INVALID"
      /\ OneMM(Types(v))
  BY ValidatedIs
<1>2. h = HrtRun(v)
  OBVIOUS
<1> HIDE DEF v
<1>3. /\ v.visible = r.visible /\ Indices(v) = Indices(r) /\ isValid(v) /\ v.connected
      /\ v.gpu = r.gpu
  BY <1>1 DEF SameState, Indices, isValid
<1>4. Countable(d, v)
  BY <1>1, <1>3 DEF Countable
<1>5. /\ n \in Nat /\ Indices(v) = 1 .. n
      /\ \A i \in Indices(v) : v.visible[i] \in Layers(d)
  BY <1>1, <1>3, VisibleTypes
<1>6. /\ Types(v) \in [Indices(v) -> LayerTypes]
      /\ \A i \in Indices(v) : Types(v)[i] = v.layer[v.visible[i]].type
  BY <1>1, TypesIs
<1>7. ClearOf(v) = {}
  BY <1>1, <1>3 DEF ClearOf
<1>8. /\ Divides(n, RuleOf(v).range, C) /\ C \subseteq Caps(v)
      /\ \A i \in Indices(v) : Types(v)[i] = "INVALID" => InRange(i, RuleOf(v).range)
      /\ CommittedCount(n, RuleOf(v).range) <= v.job.num
      /\ (n <= 2 \/ v.job.num >= 2) /\ C # {} => Cardinality(C) < v.job.num
  BY <1>3, <1>4, RuleIs
<1>9. /\ h \in DisplayRec(d) /\ SameState(h, v) /\ h.state = v.state
      /\ h.range = RuleOf(v).range /\ h.clearNum = NumOf(v)
      /\ Types(h) = HrtTypes(v) /\ ClearOf(h) = ClearAll(v)
      /\ \A l \in Layers(d) : SameLayer(h.layer[l], v.layer[l])
      /\ \A l \in Layers(d) \ Range(v.visible) : h.layer[l].type = v.layer[l].type
      /\ \A i \in Indices(v) : h.layer[v.visible[i]].type = HrtTypes(v)[i]
      /\ h.job = [v.job EXCEPT !.ovl = SlotsOf(Len(v.visible), h.range, ClearOf(h),
                                               h.clearNum)]
  BY <1>2, <1>3, <1>4, HrtRunIs
<1>10. ClearAll(v) = C
  BY <1>7 DEF ClearAll
<1> HIDE DEF C
<1>11. C \subseteq 1 .. n
  BY <1>8 DEF Divides
<1>12. NumOf(v) = Cardinality(C)
  <2>1. CASE RuleOf(v).range = NoRange
    <3>1. C = {}
      BY <1>5, <1>8, <2>1 DEF Divides, NoRange
    <3> QED BY <1>1, <2>1, <3>1, FS_EmptySet DEF NumOf
  <2>2. CASE RuleOf(v).range # NoRange
    <3>1. C # {} => RuleOf(v).range.head = 1 /\ RuleOf(v).range.tail = n
      BY <1>8 DEF Divides
    <3>2. \A i \in C : InRange(i, RuleOf(v).range)
      BY <1>11, <2>2, <3>1 DEF InRange
    <3>3. {i \in C : InRange(i, RuleOf(v).range)} = C
      BY <3>2
    <3> QED BY <1>10, <2>2, <3>3 DEF NumOf
  <2> QED BY <2>1, <2>2
<1>13. ASSUME NEW i \in Indices(v)
       PROVE  /\ HrtTypes(v)[i] = IF InRange(i, RuleOf(v).range) /\ i \notin C
                                  THEN "INVALID" ELSE Types(v)[i]
              /\ Types(v)[i] = "INVALID" => HrtTypes(v)[i] = "INVALID"
              /\ HrtTypes(v)[i] = "INVALID" <=> InRange(i, RuleOf(v).range) /\ i \notin C
  <2>1. HrtTypes(v)[i] = IF InRange(i, RuleOf(v).range) /\ i \notin C
                         THEN "INVALID" ELSE Types(v)[i]
    BY <1>6, <1>10 DEF HrtTypes, updateGlesRangeHwType
  <2>2. i \in C => Types(v)[i] # "INVALID"
    BY <1>1, <1>3, <1>6, <1>8 DEF Caps
  <2> QED BY <1>8, <2>1, <2>2
<1>14. h.visible = r.visible /\ Indices(h) = Indices(v) /\ h.gpu = r.gpu /\ h.job.num = r.job.num
  BY <1>1, <1>3, <1>9 DEF SameState, Indices
<1>15. \A i \in Indices(v) : HrtTypes(v)[i] = "MM" => Types(v)[i] = "MM"
  <2>1. "MM" # "INVALID"
    OBVIOUS
  <2> QED BY <1>13, <2>1
<1>16. DOMAIN HrtTypes(v) = Indices(v) /\ DOMAIN Types(v) = Indices(v)
  BY <1>6 DEF HrtTypes, updateGlesRangeHwType
<1>17. OneMM(Types(h))
  BY <1>1, <1>9, <1>15, <1>16 DEF OneMM
<1>18. Divided(h)
  BY <1>3, <1>8, <1>9, <1>10, <1>12, <1>13, <1>14, <1>17 DEF Divided
<1>19. Fits(h, h.job.num)
  BY <1>1, <1>8, <1>9, <1>10, <1>12, <1>14 DEF Fits
<1>20. h.job.ovl = SlotsOf(Len(h.visible), h.range, ClearOf(h), h.clearNum)
  <2>1. v.job \in JobRec
    BY <1>1 DEF DisplayRec
  <2> QED BY <1>3, <1>9, <1>14, <2>1 DEF JobRec
<1>21. h.gpu => \A i \in Indices(h) : Types(h)[i] = "INVALID"
  BY <1>1, <1>3, <1>6, <1>9, <1>13, <1>14
<1>22. Ready(h)
  BY <1>18, <1>19, <1>20, <1>21 DEF Ready
<1>23. SameState(h, r)
  BY <1>1, <1>9 DEF SameState
<1>24. ASSUME NEW i \in Indices(r)
       PROVE  /\ Matches(h.layer[r.visible[i]].type, row[r.visible[i]])
              /\ r.layer[r.visible[i]].sf = "client" =>
                   h.layer[r.visible[i]].type = "INVALID"
  <2>1. h.layer[r.visible[i]].type \in {"INVALID", v.layer[r.visible[i]].type}
    BY <1>3, <1>6, <1>9, <1>13
  <2>2. /\ Matches(v.layer[r.visible[i]].type, row[r.visible[i]])
        /\ r.layer[r.visible[i]].sf = "client" => v.layer[r.visible[i]].type = "INVALID"
    BY <1>1
  <2> QED BY <2>1, <2>2 DEF Matches
<1>25. \A l \in Layers(d) : SameLayer(h.layer[l], r.layer[l])
  BY <1>1, <1>9 DEF SameLayer
<1>26. \A l \in Layers(d) \ Range(r.visible) : h.layer[l].type = r.layer[l].type
  BY <1>1, <1>3, <1>9
<1> QED BY <1>1, <1>9, <1>22, <1>23, <1>24, <1>25, <1>26

\* What is left of a frame that has been presented.
LEMMA PresentedIs ==
  ASSUME NEW d \in Displays, NEW r \in DisplayRec(d), r.job.num # 0, NEW q, q = Presented(r)
  PROVE  /\ q \in DisplayRec(d) /\ q.state = "PRESENT_DONE" /\ q.prevAvail = r.job.num
         /\ q.count = (IF r.count = 0 THEN 0 ELSE r.count - 1)
         /\ q.connected = r.connected /\ q.on = r.on /\ q.gpu = r.gpu
         /\ q.config = r.config /\ q.visible = r.visible /\ q.range = r.range
         /\ q.clearNum = r.clearNum
         /\ \A l \in Layers(d) :
              /\ ~q.layer[l].changed /\ q.layer[l].type = r.layer[l].type
              /\ q.layer[l].sf = r.layer[l].sf /\ q.layer[l].clear = r.layer[l].clear
         /\ Alike(q, r)
<1> DEFINE avail1 == IF r.job = NoJob THEN r.prevAvail ELSE r.job.num
           count1 == IF r.count = 0 THEN 0 ELSE r.count - 1
           new(l) == [r.layer[l] EXCEPT !.changed = FALSE]
           layer == [l \in Layers(d) |-> new(l)]
           none == <<>>
           no == FALSE
           done == "PRESENT_DONE"
           u == [r EXCEPT !.prevAvail = avail1, !.job = NoJob, !.state = done,
                          !.prevTypes = none]
<1>1. /\ r.layer \in [Layers(d) -> LayerRec] /\ r.job \in JobRec /\ r.count \in Nat
      /\ Layers(d) = DOMAIN r.layer /\ r.prevAvail \in Nat
  BY DEF DisplayRec
<1>2. r.job # NoJob
  BY DEF NoJob
<1>3. avail1 = r.job.num /\ avail1 \in Nat /\ count1 \in Nat /\ NoJob \in JobRec
      /\ none \in Seq(Answers) /\ done \in States /\ no \in BOOLEAN
  BY <1>1, <1>2 DEF JobRec, NoJob, States
<1>4. q = [u EXCEPT !.listChanged = no, !.count = count1, !.layer = layer]
  BY <1>1 DEF Presented, DisplayRec
<1>5. ASSUME NEW l \in Layers(d)
      PROVE  /\ new(l) \in LayerRec /\ new(l).changed = FALSE
             /\ new(l).type = r.layer[l].type
             /\ new(l).sf = r.layer[l].sf /\ new(l).clear = r.layer[l].clear
  <2>1. r.layer[l] \in LayerRec
    BY <1>1
  <2> QED BY <2>1 DEF LayerRec
<1> HIDE DEF new
<1>6. layer \in [Layers(d) -> LayerRec] /\ \A l \in Layers(d) : layer[l] = new(l)
  BY <1>5
<1> HIDE DEF avail1, count1, layer, none, no, done
<1>7. /\ u \in DisplayRec(d) /\ u.state = done /\ u.prevAvail = avail1 /\ u.count = r.count
      /\ u.connected = r.connected /\ u.on = r.on /\ u.gpu = r.gpu
      /\ u.config = r.config /\ u.visible = r.visible /\ u.range = r.range
      /\ u.clearNum = r.clearNum
  BY <1>3 DEF DisplayRec
<1> HIDE DEF u
<1>8. /\ q \in DisplayRec(d) /\ q.state = u.state /\ q.prevAvail = u.prevAvail
      /\ q.count = count1 /\ q.connected = u.connected /\ q.on = u.on /\ q.gpu = u.gpu
      /\ q.config = u.config /\ q.visible = u.visible /\ q.range = u.range
      /\ q.clearNum = u.clearNum /\ q.layer = layer
  BY <1>3, <1>4, <1>6, <1>7 DEF DisplayRec
<1>9. \A l \in Layers(d) :
         /\ ~q.layer[l].changed /\ q.layer[l].type = r.layer[l].type
         /\ q.layer[l].sf = r.layer[l].sf /\ q.layer[l].clear = r.layer[l].clear
  BY <1>5, <1>6, <1>8
<1>10. \A i \in Indices(r) : r.visible[i] \in Layers(d)
  BY VisibleTypes
<1>11. Alike(q, r)
  BY <1>7, <1>8, <1>9, <1>10, AlikeLayers
<1> QED BY <1>3, <1>7, <1>8, <1>9, <1>11 DEF done, count1

-----------------------------------------------------------------------------
(* What a display is shown.                                                *)

\* The properties of what a display is shown, s.
ClientOf(row, b) == {l \in DOMAIN row : row[l] # Absent /\ b[l] = "client"}

Drawn(s, row, b) ==
    s # NotShown =>
      /\ {x[1] : x \in s.hw} = UpOf(row) \ ClientOf(row, b)
      /\ ClientOf(row, b) # {} => s.fbt # NoSlot

InOrder(s, r, row, b) ==
    /\ s.fbt < s.num
    /\ \A x \in s.hw :
         /\ x[2] \in 0 .. s.num - 1
         /\ \A y \in s.hw : x[1] < y[1] => x[2] < y[2]
         /\ \A l \in ClientOf(row, b) :
              \/ l < x[1] /\ s.fbt < x[2]
              \/ x[1] < l /\ x[2] < s.fbt
              \/ r.layer[x[1]].clear /\ x[2] < s.fbt

Fit(s, r, row) ==
    /\ \A x \in s.hw :
         /\ ~isForceGpuCompose(r)
         /\ r.layer[x[1]].type = CASE row[x[1]] \in {"opaque", "alpha"} -> "UI"
                                   [] row[x[1]] = "video" -> "MM"
                                   [] OTHER -> "NONE"
    /\ Cardinality({x \in s.hw : row[x[1]] = "video"}) <= 1

ShownWell(s, r, row, b) ==
    /\ Drawn(s, row, b) /\ Fit(s, r, row)
    /\ EnoughInputs => InOrder(s, r, row, b)

\* Where nothing is shown, nothing is shown wrongly.
LEMMA NotShownWell ==
  ASSUME NEW r, NEW row, NEW b
  PROVE  ShownWell(NotShown, r, row, b)
<1>1. {x \in NotShown.hw : row[x[1]] = "video"} = {}
  BY DEF NotShown
<1> QED BY <1>1, FS_EmptySet DEF ShownWell, Drawn, InOrder, Fit, NotShown, NoSlot

\* The layers that are shown, by the index of each.
LEMMA ShownIs ==
  ASSUME NEW r
  PROVE  /\ \A x \in Shown(r).hw : \E i \in Indices(r) :
              /\ Types(r)[i] # "INVALID" /\ x = <<r.visible[i], r.job.ovl[i]>>
              /\ x[1] = r.visible[i] /\ x[2] = r.job.ovl[i]
         /\ \A i \in Indices(r) : Types(r)[i] # "INVALID" =>
              \E x \in Shown(r).hw : x[1] = r.visible[i] /\ x[2] = r.job.ovl[i]
         /\ Shown(r).num = r.job.num
         /\ Shown(r).fbt = IF r.range = NoRange THEN NoSlot ELSE r.job.ovl[r.range.head]
<1> DEFINE pair(i) == <<r.visible[i], r.job.ovl[i]>>
           hw == {k \in Indices(r) : Types(r)[k] # "INVALID"}
<1>1. /\ Shown(r).num = r.job.num
      /\ Shown(r).hw = {pair(i) : i \in hw}
      /\ Shown(r).fbt = IF r.range = NoRange THEN NoSlot ELSE r.job.ovl[r.range.head]
  BY DEF Shown
<1>2. \A i : pair(i)[1] = r.visible[i] /\ pair(i)[2] = r.job.ovl[i]
  OBVIOUS
<1> HIDE DEF pair
<1>3. \A x \in Shown(r).hw : \E i \in hw :
         x = pair(i) /\ x[1] = r.visible[i] /\ x[2] = r.job.ovl[i]
  BY <1>1, <1>2
<1>4. \A i \in hw : \E x \in Shown(r).hw : x[1] = r.visible[i] /\ x[2] = r.job.ovl[i]
  BY <1>1, <1>2
<1>5. \A x \in Shown(r).hw : \E i \in Indices(r) :
         /\ Types(r)[i] # "INVALID" /\ x = pair(i)
         /\ x[1] = r.visible[i] /\ x[2] = r.job.ovl[i]
  BY <1>3
<1>6. \A i \in Indices(r) : Types(r)[i] # "INVALID" =>
         \E x \in Shown(r).hw : x[1] = r.visible[i] /\ x[2] = r.job.ovl[i]
  BY <1>4
<1> QED BY <1>1, <1>5, <1>6, Zenon DEF pair

\* A display that is ready shows every layer where it belongs.
LEMMA ReadyIsShownWell ==
  ASSUME NEW d \in Displays, NEW r \in DisplayRec(d), NEW row \in Rows(d),
         NEW b \in [Layers(d) -> Answers], Ready(r), r.visible = Stacked(UpOf(row)),
         \A l \in Layers(d) : getCompositionType(r.layer[l].type) = b[l],
         \A l \in UpOf(row) : Matches(r.layer[l].type, row[l])
  PROVE  ShownWell(Shown(r), r, row, b)
<1> DEFINE n == Len(r.visible)
           C == ClearOf(r)
           s == Shown(r)
           U == UpOf(row)
           B == ClientOf(row, b)
           vis == r.visible
           slot == r.job.ovl
           hw(i) == Types(r)[i] # "INVALID"
<1>1. /\ n \in Nat /\ Indices(r) = 1 .. n
      /\ \A i \in 1 .. n : vis[i] \in Layers(d) /\ vis[i] \in Int
  BY VisibleTypes
<1>2. /\ \A i \in 1 .. n : vis[i] \in U
      /\ \A i, k \in 1 .. n : i < k => vis[i] < vis[k]
      /\ \A l \in U : \E i \in 1 .. n : vis[i] = l
  BY StackedUp
<1>3. /\ \A i \in 1 .. n : Types(r)[i] = r.layer[vis[i]].type /\ Types(r)[i] \in LayerTypes
      /\ C \in SUBSET (1 .. n)
      /\ \A i \in 1 .. n : i \in C <=> r.layer[vis[i]].clear
      /\ DOMAIN Types(r) = 1 .. n
  BY <1>1, TypesIs DEF ClearOf
<1>4. /\ Divides(n, r.range, C)
      /\ \A i \in 1 .. n : ~hw(i) <=> InRange(i, r.range) /\ i \notin C
      /\ r.clearNum = Cardinality(C) /\ OneMM(Types(r))
      /\ CommittedCount(n, r.range) <= r.job.num
      /\ EnoughInputs /\ C # {} => r.clearNum < r.job.num
      /\ slot = SlotsOf(n, r.range, C, r.clearNum)
      /\ r.gpu => \A i \in 1 .. n : ~hw(i)
      /\ r.job.num \in Nat
  BY <1>1 DEF Ready, Divided, Fits, DisplayRec, JobRec
<1>5. /\ \A x \in s.hw : \E i \in 1 .. n : hw(i) /\ x[1] = vis[i] /\ x[2] = slot[i]
      /\ \A i \in 1 .. n : hw(i) => \E x \in s.hw : x[1] = vis[i] /\ x[2] = slot[i]
      /\ \A x, y \in s.hw : x[1] = y[1] => x = y
      /\ s.num = r.job.num
      /\ s.fbt = IF r.range = NoRange THEN NoSlot ELSE slot[r.range.head]
  <2>1. /\ \A x \in s.hw : \E i \in 1 .. n :
             /\ hw(i) /\ x = <<vis[i], slot[i]>>
             /\ x[1] = vis[i] /\ x[2] = slot[i]
        /\ \A i \in 1 .. n : hw(i) => \E x \in s.hw : x[1] = vis[i] /\ x[2] = slot[i]
        /\ s.num = r.job.num
        /\ s.fbt = IF r.range = NoRange THEN NoSlot ELSE slot[r.range.head]
    <3> DEFINE I == Indices(r)
    <3>1. /\ \A x \in s.hw : \E i \in I :
               /\ hw(i) /\ x = <<vis[i], slot[i]>>
               /\ x[1] = vis[i] /\ x[2] = slot[i]
          /\ \A i \in I : hw(i) => \E x \in s.hw : x[1] = vis[i] /\ x[2] = slot[i]
          /\ s.num = r.job.num
          /\ s.fbt = IF r.range = NoRange THEN NoSlot ELSE slot[r.range.head]
      BY ShownIs, Zenon
    <3>2. I = 1 .. n
      BY <1>1
    <3> HIDE DEF I, hw, s, vis, slot, n
    <3> QED BY <3>1, <3>2, Zenon
  <2>2. \A i, k \in 1 .. n : vis[i] = vis[k] => i = k
    <3>1. \A i, k \in 1 .. n : i < k \/ k < i \/ i = k
      BY <1>1
    <3> HIDE DEF n, vis
    <3> QED BY <1>1, <1>2, <3>1
  <2> HIDE DEF s, vis, slot, n
  <2>3. ASSUME NEW x \in s.hw, NEW y \in s.hw, x[1] = y[1] PROVE x = y
    <3>1. PICK i \in 1 .. n : x = <<vis[i], slot[i]>> /\ x[1] = vis[i]
      BY <2>1, Zenon
    <3>2. PICK k \in 1 .. n : y = <<vis[k], slot[k]>> /\ y[1] = vis[k]
      BY <2>1, Zenon
    <3>3. i = k
      BY <2>2, <2>3, <3>1, <3>2
    <3> QED BY <3>1, <3>2, <3>3, Zenon
  <2> HIDE DEF hw
  <2>4. \A x \in s.hw : \E i \in 1 .. n : hw(i) /\ x[1] = vis[i] /\ x[2] = slot[i]
    BY <2>1, Zenon
  <2> QED BY <2>1, <2>3, <2>4, Zenon
<1> HIDE DEF s
<1>6. /\ U \subseteq Layers(d) /\ B = {l \in U : b[l] = "client"}
  BY DEF UpOf, ClientOf, Rows
<1>7. \A i \in 1 .. n : vis[i] \in B <=> ~hw(i)
  <2> TAKE i \in 1 .. n
  <2>1. vis[i] \in U /\ vis[i] \in Layers(d) /\ r.layer[vis[i]].type \in LayerTypes
    BY <1>1, <1>2, <1>3
  <2>2. b[vis[i]] = "client" <=> r.layer[vis[i]].type = "INVALID"
    BY <2>1, AnswerType
  <2> QED BY <1>3, <1>6, <2>1, <2>2
<1>8. \A l \in B : \E i \in 1 .. n : vis[i] = l /\ ~hw(i)
  BY <1>2, <1>6, <1>7
<1> HIDE DEF U, B
<1>9. Drawn(s, row, b)
  <2>1. \A x \in s.hw : x[1] \in U \ B
    BY <1>2, <1>5, <1>7
  <2>2. \A l \in U \ B : \E x \in s.hw : x[1] = l
    BY <1>2, <1>5, <1>7
  <2>3. {x[1] : x \in s.hw} = U \ B
    BY <2>1, <2>2
  <2>4. ASSUME B # {} PROVE s.fbt # NoSlot
    <3>1. PICK i \in 1 .. n : ~hw(i)
      BY <1>8, <2>4
    <3>2. r.range # NoRange /\ r.range.head \in 1 .. n
      BY <1>4, <3>1 DEF InRange, Divides, Ranges
    <3>3. slot \in [1 .. n -> Nat]
      <4>1. slot \in Seq(Nat) /\ DOMAIN slot = 1 .. n
        BY <1>4 DEF SlotsOf, DisplayRec, JobRec
      <4> QED BY <4>1
    <3>4. slot[r.range.head] \in Nat
      BY <3>2, <3>3
    <3> QED BY <1>5, <3>2, <3>4 DEF NoSlot
  <2> QED BY <2>3, <2>4 DEF Drawn, U, B
<1>10. Fit(s, r, row)
  <2>1. ASSUME NEW x \in s.hw
        PROVE  /\ ~isForceGpuCompose(r)
               /\ r.layer[x[1]].type = CASE row[x[1]] \in {"opaque", "alpha"} -> "UI"
                                         [] row[x[1]] = "video" -> "MM"
                                         [] OTHER -> "NONE"
               /\ row[x[1]] = "video" => r.layer[x[1]].type = "MM"
    <3>1. PICK i \in 1 .. n : hw(i) /\ x[1] = vis[i]
      BY <1>5
    <3>2. Matches(r.layer[x[1]].type, row[x[1]]) /\ r.layer[x[1]].type # "INVALID"
      BY <1>2, <1>3, <3>1 DEF U
    <3> QED BY <1>4, <3>1, <3>2 DEF Matches, isForceGpuCompose
  <2>2. ASSUME NEW x \in s.hw, NEW y \in s.hw, row[x[1]] = "video", row[y[1]] = "video"
        PROVE  x = y
    <3>1. PICK i \in 1 .. n : x[1] = vis[i]
      BY <1>5
    <3>2. PICK k \in 1 .. n : y[1] = vis[k]
      BY <1>5
    <3>3. Types(r)[i] = "MM" /\ Types(r)[k] = "MM"
      BY <1>3, <2>1, <2>2, <3>1, <3>2
    <3>4. i = k
      BY <1>3, <1>4, <3>3 DEF OneMM
    <3> QED BY <1>5, <3>1, <3>2, <3>4
  <2> DEFINE V == {x \in s.hw : row[x[1]] = "video"}
  <2>3. Cardinality(V) <= 1
    <3>1. CASE V = {}
      <4>1. Cardinality({}) = 0
        BY FS_EmptySet
      <4> QED BY <3>1, <4>1
    <3>2. CASE V # {}
      <4>1. PICK x \in V : TRUE
        BY <3>2
      <4>2. V = {x}
        BY <2>2, <4>1
      <4>3. Cardinality({x}) = 1
        BY FS_Singleton
      <4> HIDE DEF V
      <4> QED BY <4>2, <4>3
    <3> QED BY <3>1, <3>2
  <2> QED BY <2>1, <2>3 DEF Fit
<1>11. ASSUME NEW x \in s.hw, NEW y \in s.hw, NEW i \in 1 .. n, NEW k \in 1 .. n,
              x[1] = vis[i], y[1] = vis[k], x[1] < y[1]
       PROVE  i < k
  <2>1. vis[i] < vis[k] /\ vis[i] \in Int /\ vis[k] \in Int
    BY <1>1, <1>11
  <2>2. CASE k < i
    BY <1>2, <2>1, <2>2
  <2>3. CASE i = k
    BY <2>1, <2>3
  <2> QED BY <1>1, <2>2, <2>3
<1>12. ASSUME C = {} PROVE InOrder(s, r, row, b)
  <2>1. slot = SlotsOf(n, r.range, {}, 0) /\ r.range \in Ranges(n)
    BY <1>4, <1>12, FS_EmptySet DEF Divides
  <2>2. /\ slot \in [1 .. n -> 0 .. CommittedCount(n, r.range) - 1]
        /\ \A i, k \in 1 .. n : i < k =>
             IF InRange(i, r.range) /\ InRange(k, r.range)
             THEN slot[i] = slot[k] ELSE slot[i] < slot[k]
    BY <1>1, <2>1, SlotsStack
  <2>3. CommittedCount(n, r.range) \in Int
    BY <1>1, <2>1 DEF Ranges, CommittedCount, GlesCount, NoRange
  <2>4. \A i \in 1 .. n : slot[i] \in 0 .. r.job.num - 1 /\ slot[i] \in Int
    <3> DEFINE need == CommittedCount(n, r.range)
    <3>1. /\ need \in Int /\ r.job.num \in Nat /\ need <= r.job.num
          /\ slot \in [1 .. n -> 0 .. need - 1]
      BY <1>4, <2>2, <2>3
    <3> HIDE DEF n, slot, need
    <3>2. \A i \in 1 .. n : slot[i] \in 0 .. need - 1
      BY <3>1
    <3> QED BY <3>1, <3>2
  <2>5. \A i \in 1 .. n : hw(i) <=> ~InRange(i, r.range)
    BY <1>4, <1>12
  <2>6. r.range # NoRange => /\ r.range.head \in 1 .. n /\ r.range.tail \in 1 .. n
                             /\ r.range.head <= r.range.tail
                             /\ InRange(r.range.head, r.range)
    BY <1>1, <2>1 DEF Ranges, InRange
  <2> HIDE DEF n, slot, vis, hw, C
  <2>7. s.fbt < s.num
    BY <1>4, <1>5, <2>4, <2>6 DEF NoSlot
  <2>8. ASSUME NEW x \in s.hw
        PROVE  /\ x[2] \in 0 .. s.num - 1
               /\ \A y \in s.hw : x[1] < y[1] => x[2] < y[2]
               /\ \A l \in B : (l < x[1] /\ s.fbt < x[2]) \/ (x[1] < l /\ x[2] < s.fbt)
    <3>1. PICK i \in 1 .. n : hw(i) /\ x[1] = vis[i] /\ x[2] = slot[i]
      BY <1>5
    <3>2. ASSUME NEW y \in s.hw, x[1] < y[1] PROVE x[2] < y[2]
      <4>1. PICK k \in 1 .. n : hw(k) /\ y[1] = vis[k] /\ y[2] = slot[k]
        BY <1>5
      <4>2. i < k
        BY <1>11, <3>1, <3>2, <4>1
      <4> QED BY <2>2, <2>5, <3>1, <4>1, <4>2
    <3>3. ASSUME NEW l \in B
          PROVE  (l < x[1] /\ s.fbt < x[2]) \/ (x[1] < l /\ x[2] < s.fbt)
      <4>1. PICK k \in 1 .. n : vis[k] = l /\ ~hw(k)
        BY <1>8
      <4>2. /\ r.range # NoRange /\ k \in Int /\ r.range.head <= k /\ k <= r.range.tail
            /\ s.fbt = slot[r.range.head]
        BY <1>5, <2>5, <2>6, <4>1 DEF InRange
      <4>3. i < r.range.head \/ i > r.range.tail
        BY <2>5, <2>6, <3>1, <4>2 DEF InRange
      <4>4. CASE i < r.range.head
        <5>1. i < k
          BY <1>1, <2>6, <4>2, <4>4
        <5>2. x[1] < l
          BY <1>2, <3>1, <4>1, <5>1
        <5>3. x[2] < s.fbt
          BY <2>2, <2>5, <2>6, <3>1, <4>2, <4>4
        <5> QED BY <5>2, <5>3
      <4>5. CASE i > r.range.tail
        <5>1. k < i /\ r.range.head < i
          BY <1>1, <2>6, <4>2, <4>5
        <5>2. l < x[1]
          BY <1>2, <3>1, <4>1, <5>1
        <5>3. s.fbt < x[2]
          BY <2>2, <2>5, <2>6, <3>1, <4>2, <5>1
        <5> QED BY <5>2, <5>3
      <4> QED BY <4>3, <4>4, <4>5
    <3>4. x[2] \in 0 .. s.num - 1
      BY <1>5, <2>4, <3>1
    <3> QED BY <3>2, <3>3, <3>4
  <2> QED BY <2>7, <2>8 DEF InOrder, B
<1>13. ASSUME C # {}, EnoughInputs PROVE InOrder(s, r, row, b)
  <2> DEFINE num == Cardinality(C)
  <2>1. slot = SlotsOf(n, r.range, C, num) /\ num < r.job.num
    BY <1>4, <1>13
  <2>2. /\ slot \in [1 .. n -> 0 .. num]
        /\ \A i \in 1 .. n : i \in C <=> slot[i] < num
        /\ \A i, k \in C : i < k => slot[i] < slot[k]
    BY <1>1, <1>4, <1>13, <2>1, ClearSlotsStack
  <2>3. /\ r.range = [head |-> 1, tail |-> n] /\ 1 \notin C
    BY <1>4, <1>13 DEF Divides
  <2>4. r.range.head = 1 /\ r.range.tail = n /\ r.range # NoRange
    <3>1. r.range.head = 1 /\ r.range.tail = n
      BY <2>3
    <3> QED BY <3>1 DEF NoRange
  <2>5. num \in Nat /\ 1 \in 1 .. n
    <3>1. IsFiniteSet(1 .. n)
      BY <1>1, FS_Interval
    <3>2. IsFiniteSet(C)
      BY <1>3, <3>1, FS_Subset
    <3>3. num \in Nat
      BY <3>2, FS_CardinalityType
    <3>4. PICK i \in C : i \in 1 .. n
      BY <1>3, <1>13
    <3> QED BY <1>1, <3>3, <3>4
  <2>6. \A i \in 1 .. n : hw(i) => i \in C
    BY <1>1, <1>4, <2>4 DEF InRange
  <2> HIDE DEF num
  <2>7. slot[1] = num
    BY <2>2, <2>3, <2>5
  <2>8. s.fbt = num
    BY <1>5, <2>4, <2>7
  <2>9. \A i \in C : i \in 1 .. n /\ r.layer[vis[i]].clear
    BY <1>3
  <2> HIDE DEF n, slot, vis, hw, C
  <2>10. ASSUME NEW x \in s.hw
         PROVE  /\ x[2] \in 0 .. s.num - 1
                /\ \A y \in s.hw : x[1] < y[1] => x[2] < y[2]
                /\ r.layer[x[1]].clear /\ x[2] < s.fbt
    <3>1. PICK i \in 1 .. n : hw(i) /\ x[1] = vis[i] /\ x[2] = slot[i]
      BY <1>5
    <3>2. i \in C /\ slot[i] < num /\ slot[i] \in 0 .. num
      BY <2>2, <2>6, <3>1
    <3>3. ASSUME NEW y \in s.hw, x[1] < y[1] PROVE x[2] < y[2]
      <4>1. PICK k \in 1 .. n : hw(k) /\ y[1] = vis[k] /\ y[2] = slot[k]
        BY <1>5
      <4>2. i < k /\ k \in C
        BY <1>11, <2>6, <3>1, <3>3, <4>1
      <4> QED BY <2>2, <3>1, <3>2, <4>1, <4>2
    <3>4. x[2] \in 0 .. s.num - 1
      BY <1>4, <1>5, <2>1, <2>5, <3>1, <3>2
    <3> QED BY <2>8, <2>9, <3>1, <3>2, <3>3, <3>4
  <2>11. s.fbt < s.num
    BY <1>5, <2>1, <2>8
  <2> QED BY <2>10, <2>11 DEF InOrder
<1> QED BY <1>9, <1>10, <1>12, <1>13 DEF ShownWell, s

-----------------------------------------------------------------------------
(* The inductive invariant.                                                *)

\* Nothing has changed of the layers that were shown last, d's display r.
Quiet(r, row) ==
    \A i \in Indices(r) : row[r.visible[i]] # Absent /\ ~r.layer[r.visible[i]].changed

\* For display d: r is what HWCDisplay keeps, row what its layers look like,
\* b what SurfaceFlinger takes them for, n the inputs offered and s what it
\* was shown.
LocalTypes(d, r, row, b, n) ==
    /\ r \in DisplayRec(d) /\ Ascending(r.visible)
    /\ row \in Rows(d) /\ \A l \in Layers(d) : row[l] \in LooksOf[d][l] \union {Absent}
    /\ b \in [Layers(d) -> Answers] /\ n \in Inputs[d] /\ n \in Nat

\* SurfaceFlinger and the display agree on each layer's type, or will when the
\* changes are accepted, and a type that is not about to be decided again is
\* one that the layer's looks allow.
Answered(d, r, row, b, n) ==
    /\ \A l \in Layers(d) : row[l] = Absent =>
         r.layer[l].type = "NONE" /\ ~r.layer[l].changed /\ b[l] = "none"
    /\ r.state # "VALIDATE" =>
         \A l \in Layers(d) : getCompositionType(r.layer[l].type) = b[l]
    /\ r.state # "PRESENT_DONE" =>
         r.visible = Stacked(UpOf(row)) /\ r.job.num = JobNum(n)
    /\ r.state \in {"CHECK_SKIP", "VALIDATE"} =>
         r.prevTypes = [i \in Indices(r) |-> b[r.visible[i]]]
    /\ \A l \in Layers(d) :
         row[l] # Absent /\ (r.layer[l].changed => r.state \in {"VALIDATE", "VALIDATE_DONE"})
           => Matches(r.layer[l].type, row[l])

\* The last division still holds where nothing has changed, and a display that
\* has been validated is ready to be presented.
Settled(r, row) ==
    /\ r.state = "PRESENT_DONE" /\ Quiet(r, row) => Divided(r) /\ Fits(r, r.prevAvail)
    /\ r.state \in {"VALIDATE", "VALIDATE_DONE"} => Ready(r)

Local(d, r, row, b, n, s) ==
    /\ LocalTypes(d, r, row, b, n) /\ Answered(d, r, row, b, n) /\ Settled(r, row)
    /\ ShownWell(s, r, row, b)

\* When a display has seen all that was written of it.
Calm(r, at, f, t) == ~isValid(r) \/ (~f /\ ~t) \/ (f /\ at = "idle")

\* The types of the variables as functions.
Shape ==
    /\ DOMAIN scene = Displays /\ DOMAIN believes = Displays /\ DOMAIN disp = Displays
    /\ DOMAIN avail = Displays /\ DOMAIN shown = Displays
    /\ scene = [d \in Displays |-> scene[d]]
    /\ believes = [d \in Displays |-> believes[d]]
    /\ disp = [d \in Displays |-> disp[d]]
    /\ shown = [d \in Displays |-> shown[d]]
    /\ avail = [d \in Displays |-> avail[d]]
    /\ step \in [Displays -> Steps]
    /\ frame \in BOOLEAN /\ touched \in BOOLEAN /\ needValidate \in BOOLEAN

Pri == disp["primary"]
Ext == disp["external"]
priStep == step["primary"]
extStep == step["external"]

\* Which call is due: a display owes a frame from the first call to its
\* presentation, the primary display decides for both, and the external one
\* follows it unless it is gone.
Calls ==
    /\ isValid(Pri)
    /\ \A d \in Displays :
         /\ disp[d].count = IF disp[d].state = "PRESENT_DONE" THEN 0 ELSE 1
         /\ ~frame => step[d] = "idle"
         /\ step[d] = "idle" \/ ~isValid(disp[d]) => disp[d].state = "PRESENT_DONE"
         /\ isValid(disp[d]) => (step[d] = "present" <=> disp[d].state = "VALIDATE_DONE")
         /\ shown[d] # NotShown => frame /\ step[d] = "idle"
    /\ priStep = "validate" => Pri.state \in {"PRESENT_DONE", "CHECK_SKIP"}
    /\ priStep = "try" => Pri.state = "PRESENT_DONE"
    /\ Pri.state = "CHECK_SKIP" => needValidate
    /\ extStep # "idle" /\ Ext.connected => Ext.on
    /\ Ext.on => Ext.connected
    /\ extStep = "present" => priStep \in {"present", "idle"}
    /\ isValid(Ext) =>
         /\ Ext.state # "PRESENT_DONE" => needValidate
         /\ frame /\ priStep \in {"try", "validate"} =>
              extStep \in {"try", "validate"} /\ Ext.state = Pri.state
         /\ frame /\ priStep \in {"present", "idle"} /\ extStep \in {"try", "validate"} =>
              Ext.state = "VALIDATE"
    /\ shown["external"] # NotShown => priStep \in {"present", "idle"}

\* What a still scene leaves behind on the primary display: nothing that
\* checkSkipValidate would take for a change.
Unchanged ==
    /\ Pri.visible = Stacked(UpOf(scene["primary"]))
    /\ Pri.prevAvail = JobNum(avail["primary"])
    /\ Pri.gpu \/ ~Pri.config

Still ==
    /\ Pri.state # "PRESENT_DONE" => Pri.gpu \/ ~Pri.config
    /\ (~frame /\ ~touched) \/ (frame /\ priStep = "idle") => Unchanged
    /\ ~touched /\ priStep = "try" =>
         /\ Unchanged
         /\ \A l \in Layers("primary") :
              scene["primary"][l] # Absent /\ Pri.layer[l].changed => Pri.range # NoRange

\* Every display is well, and has forgotten the changes it has shown.
Settlement ==
    \A d \in Displays :
      /\ Local(d, disp[d], scene[d], believes[d], avail[d], shown[d])
      /\ Calm(disp[d], step[d], frame, touched) => Quiet(disp[d], scene[d])

\* The inductive invariant.
IInv == Shape /\ Settlement /\ Calls /\ Still

-----------------------------------------------------------------------------
(* What keeps the invariant of one display: between frames.                *)

\* The types of one display, one by one.
LEMMA LocalFacts ==
  ASSUME NEW d \in Displays, NEW r, NEW row, NEW b, NEW n, LocalTypes(d, r, row, b, n)
  PROVE  /\ r \in DisplayRec(d) /\ Ascending(r.visible) /\ row \in Rows(d)
         /\ b \in [Layers(d) -> Answers] /\ n \in Inputs[d] /\ n \in Nat
         /\ JobNum(n) \in Nat \ {0}
         /\ Indices(r) = 1 .. Len(r.visible) /\ Len(r.visible) \in Nat
         /\ \A i \in Indices(r) : r.visible[i] \in Layers(d)
         /\ \A l \in Layers(d) : /\ r.layer[l] \in LayerRec
                                 /\ row[l] \in LooksOf[d][l] \union {Absent}
                                 /\ row[l] \in Looks \union {Absent}
         /\ \A l : l \in UpOf(row) <=> l \in Layers(d) /\ row[l] # Absent
<1>1. /\ r \in DisplayRec(d) /\ Ascending(r.visible) /\ row \in Rows(d)
      /\ b \in [Layers(d) -> Answers] /\ n \in Inputs[d] /\ n \in Nat
      /\ \A l \in Layers(d) : row[l] \in LooksOf[d][l] \union {Absent}
  BY DEF LocalTypes
<1>2. JobNum(n) \in Nat \ {0}
  BY <1>1 DEF JobNum
<1>3. /\ \A l \in Layers(d) : row[l] \in Looks \union {Absent}
      /\ \A l : l \in UpOf(row) <=> l \in Layers(d) /\ row[l] # Absent
  BY <1>1 DEF Rows, UpOf
<1> QED BY <1>1, <1>2, <1>3, VisibleTypes

\* A layer that looks like something is there.
LEMMA LooksPresent ==
  ASSUME NEW d \in Displays, NEW l \in Layers(d), NEW look \in LooksOf[d][l]
  PROVE  look \in Looks /\ look # Absent
<1>1. LooksOf[d][l] \in SUBSET Looks
  BY LayerNumbers DEF Layers
<1> QED BY <1>1 DEF Looks, Absent

\* A display that has just come.
LEMMA NewLocal ==
  ASSUME NEW d \in Displays, NEW on \in BOOLEAN, NEW n \in Inputs[d],
         NEW r, r = NewDisplay(d, on), NEW row, row = [l \in Layers(d) |-> Absent],
         NEW b, b = [l \in Layers(d) |-> "none"]
  PROVE  Local(d, r, row, b, n, NotShown) /\ Quiet(r, row)
<1> DEFINE none == <<>>
           layer == [l \in Layers(d) |-> NewLayer]
           zero == 0
           off == FALSE
           done == "PRESENT_DONE"
<1>1. r = [connected |-> on, on |-> on, gpu |-> off, config |-> off,
           state |-> done, count |-> zero, prevAvail |-> zero,
           visible |-> none, listChanged |-> off, range |-> NoRange, clearNum |-> zero,
           prevTypes |-> none, layer |-> layer, job |-> NoJob]
  BY DEF NewDisplay
<1>2. NewLayer \in LayerRec
  BY DEF NewLayer, LayerRec, LayerTypes, Answers
<1>3. NoRange \in RangeRec /\ NoJob \in JobRec
  BY DEF NoRange, RangeRec, NoJob, JobRec
<1>4. /\ none \in Seq(Layers(d)) /\ none \in Seq(Answers) /\ Len(none) = 0
      /\ layer \in [Layers(d) -> LayerRec] /\ zero \in Nat /\ done \in States
      /\ off \in BOOLEAN /\ \A l \in Layers(d) : layer[l] = NewLayer
  BY <1>2 DEF States
<1> HIDE DEF none, layer, zero, off, done
<1>5. r \in DisplayRec(d)
  BY <1>1, <1>3, <1>4 DEF DisplayRec
<1>6. Len(r.visible) = 0 /\ Indices(r) = {} /\ r.range = NoRange /\ r.clearNum = 0
      /\ r.state = "PRESENT_DONE" /\ r.layer = layer /\ r.prevAvail = 0
  <2>1. Len(r.visible) = 0
    BY <1>1, <1>4
  <2>2. Indices(r) = {}
    BY <2>1 DEF Indices
  <2> QED BY <1>1, <2>1, <2>2 DEF zero, done
<1>7. Inputs[d] \in SUBSET Nat
  BY MediatorAssumption
<1>8. LocalTypes(d, r, row, b, n)
  <2>1. Ascending(r.visible)
    BY <1>6 DEF Ascending
  <2>2. row \in Rows(d) /\ b \in [Layers(d) -> Answers]
    BY DEF Rows, Answers
  <2> QED BY <1>5, <1>7, <2>1, <2>2 DEF LocalTypes
<1>9. Answered(d, r, row, b, n)
  <2>1. \A l \in Layers(d) : r.layer[l].type = "NONE" /\ ~r.layer[l].changed
    BY <1>4, <1>6 DEF NewLayer
  <2>2. getCompositionType("NONE") = "none"
    BY DEF getCompositionType
  <2> QED BY <1>6, <2>1, <2>2 DEF Answered
<1>10. Divided(r) /\ Fits(r, r.prevAvail)
  <2>1. ClearOf(r) = {}
    BY <1>6 DEF ClearOf
  <2>2. DOMAIN Types(r) = {}
    BY <1>6 DEF Types
  <2>3. Cardinality({}) = 0
    BY FS_EmptySet
  <2>4. CommittedCount(0, NoRange) = 0
    BY DEF CommittedCount, GlesCount
  <2> QED BY <1>6, <2>1, <2>2, <2>3, <2>4 DEF Divided, Fits, Divides, Ranges, OneMM
<1> QED BY <1>6, <1>8, <1>9, <1>10, NotShownWell DEF Local, Settled, Quiet

\* What else may change of a display.
LEMMA LocalKept ==
  ASSUME NEW d \in Displays, NEW r, NEW row, NEW b, NEW n, NEW s, NEW q, NEW m, NEW t,
         Local(d, r, row, b, n, s), q \in DisplayRec(d), m \in Inputs[d],
         q.layer = r.layer, q.visible = r.visible, q.range = r.range,
         q.clearNum = r.clearNum, q.prevAvail = r.prevAvail, q.state = r.state,
         \/ r.state = "PRESENT_DONE"
         \/ q.job = r.job /\ q.prevTypes = r.prevTypes /\ q.gpu = r.gpu /\ m = n,
         t = NotShown \/ (t = s /\ q.gpu = r.gpu)
  PROVE  Local(d, q, row, b, m, t) /\ (Quiet(r, row) => Quiet(q, row))
<1>1. Indices(q) = Indices(r) /\ Types(q) = Types(r) /\ ClearOf(q) = ClearOf(r)
  BY DEF Indices, Types, ClearOf
<1>2. Alike(q, r)
  BY <1>1 DEF Alike
<1>3. Quiet(q, row) <=> Quiet(r, row)
  BY <1>1 DEF Quiet
<1>4. LocalTypes(d, q, row, b, m)
  <2>1. Inputs[d] \in SUBSET Nat
    BY MediatorAssumption
  <2> QED BY <2>1 DEF Local, LocalTypes
<1>5. Answered(d, q, row, b, m)
  BY <1>1 DEF Local, Answered
<1>6. Settled(q, row)
  <2>1. r.state = "PRESENT_DONE" /\ Quiet(q, row) => Divided(q) /\ Fits(q, q.prevAvail)
    BY <1>2, <1>3, AlikeDivided DEF Local, Settled
  <2>2. ASSUME r.state \in {"VALIDATE", "VALIDATE_DONE"} PROVE Ready(q)
    <3>1. Ready(r) /\ q.job = r.job /\ q.gpu = r.gpu
      BY <2>2 DEF Local, Settled
    <3> QED BY <1>1, <1>2, <3>1, AlikeDivided DEF Ready
  <2> QED BY <2>1, <2>2 DEF Settled
<1>7. ShownWell(t, q, row, b)
  <2>1. CASE t = NotShown
    BY <2>1, NotShownWell
  <2>2. CASE t = s /\ q.gpu = r.gpu
    BY <2>2 DEF Local, ShownWell, Drawn, InOrder, Fit, isForceGpuCompose
  <2> QED BY <2>1, <2>2
<1> QED BY <1>3, <1>4, <1>5, <1>6, <1>7 DEF Local

\* One layer is created, written or destroyed.
LEMMA OneLayerLocal ==
  ASSUME NEW d \in Displays, NEW r, NEW row, NEW b, NEW n, NEW s,
         Local(d, r, row, b, n, s), r.state = "PRESENT_DONE",
         NEW l \in Layers(d), NEW look \in LooksOf[d][l] \union {Absent},
         NEW x \in LayerRec, NEW answer, answer = getCompositionType(x.type),
         look = Absent => x.type = "NONE" /\ ~x.changed, look # Absent => x.changed
  PROVE  /\ Local(d, [r EXCEPT !.layer[l] = x], [row EXCEPT ![l] = look],
                  [b EXCEPT ![l] = answer], n, NotShown)
<1> DEFINE q == [r EXCEPT !.layer[l] = x]
           row2 == [row EXCEPT ![l] = look]
           b2 == [b EXCEPT ![l] = answer]
           layer == [r.layer EXCEPT ![l] = x]
<1>1. LocalTypes(d, r, row, b, n) /\ Answered(d, r, row, b, n) /\ Settled(r, row)
  BY DEF Local
<1>2. /\ r \in DisplayRec(d) /\ Ascending(r.visible) /\ row \in Rows(d)
      /\ b \in [Layers(d) -> Answers] /\ n \in Inputs[d] /\ n \in Nat
      /\ \A i \in Indices(r) : r.visible[i] \in Layers(d)
      /\ \A k \in Layers(d) : row[k] \in LooksOf[d][k] \union {Absent}
      /\ r.layer \in [Layers(d) -> LayerRec]
  BY <1>1, LocalFacts DEF DisplayRec
<1>3. q = [r EXCEPT !.layer = layer]
  BY <1>2 DEF DisplayRec
<1>4. /\ layer \in [Layers(d) -> LayerRec]
      /\ \A k \in Layers(d) : layer[k] = IF k = l THEN x ELSE r.layer[k]
  BY <1>2
<1> HIDE DEF layer, q
<1>5. /\ q \in DisplayRec(d) /\ q.layer = layer /\ q.visible = r.visible /\ q.range = r.range
      /\ q.clearNum = r.clearNum /\ q.prevAvail = r.prevAvail /\ q.state = r.state
  BY <1>2, <1>3, <1>4 DEF DisplayRec
<1>6. answer \in Answers /\ look \in Looks \union {Absent}
  <2>1. x.type \in LayerTypes
    BY DEF LayerRec
  <2> QED BY <2>1, AnswerType, LooksPresent
<1>7. /\ row2 \in Rows(d) /\ b2 \in [Layers(d) -> Answers]
      /\ \A k \in Layers(d) : /\ row2[k] = IF k = l THEN look ELSE row[k]
                              /\ b2[k] = IF k = l THEN answer ELSE b[k]
  BY <1>2, <1>6 DEF Rows
<1> HIDE DEF row2, b2
<1>8. LocalTypes(d, q, row2, b2, n)
  BY <1>2, <1>5, <1>7 DEF LocalTypes
<1>9. Answered(d, q, row2, b2, n)
  <2>1. getCompositionType("NONE") = "none"
    BY DEF getCompositionType
  <2>2. \A k \in Layers(d) : row2[k] = Absent =>
           q.layer[k].type = "NONE" /\ ~q.layer[k].changed /\ b2[k] = "none"
    BY <1>1, <1>4, <1>5, <1>7, <2>1 DEF Answered
  <2>3. \A k \in Layers(d) : getCompositionType(q.layer[k].type) = b2[k]
    BY <1>1, <1>4, <1>5, <1>7 DEF Answered
  <2>4. \A k \in Layers(d) : row2[k] # Absent /\ ~q.layer[k].changed
           => Matches(q.layer[k].type, row2[k])
    BY <1>1, <1>4, <1>5, <1>7 DEF Answered
  <2> QED BY <1>5, <2>2, <2>3, <2>4 DEF Answered
<1>10. Settled(q, row2)
  <2> SUFFICES ASSUME Quiet(q, row2) PROVE Divided(q) /\ Fits(q, q.prevAvail)
    BY <1>5 DEF Settled
  <2>1. Indices(q) = Indices(r)
    BY <1>5 DEF Indices
  <2>2. \A i \in Indices(r) : /\ row2[r.visible[i]] # Absent
                              /\ ~q.layer[r.visible[i]].changed
    BY <1>5, <2>1 DEF Quiet
  <2>3. \A i \in Indices(r) : r.visible[i] # l
    BY <1>2, <1>4, <1>5, <1>7, <2>2
  <2>4. \A i \in Indices(r) : /\ q.layer[r.visible[i]] = r.layer[r.visible[i]]
                              /\ row2[r.visible[i]] = row[r.visible[i]]
    BY <1>2, <1>4, <1>5, <1>7, <2>3
  <2>5. Quiet(r, row)
    BY <2>2, <2>4 DEF Quiet
  <2>6. Alike(q, r)
    BY <1>2, <1>5, <2>4, AlikeLayers
  <2> QED BY <1>1, <1>5, <2>5, <2>6, AlikeDivided DEF Settled
<1> QED BY <1>8, <1>9, <1>10, NotShownWell DEF Local, q, row2, b2

\* SurfaceFlinger tells how it takes some of the layers to be composed.
Told(d, r, row, T) ==
    [r EXCEPT !.layer = [l \in Layers(d) |->
        IF l \in T THEN layerStateSetCompositionType(@[l], Requested(row[l])) ELSE @[l]]]
ToldOf(d, row, b, T) == [l \in Layers(d) |-> IF l \in T THEN Requested(row[l]) ELSE b[l]]

\* What SurfaceFlinger tells keeps what is known of the display.
LEMMA ToldLocal ==
  ASSUME NEW d \in Displays, NEW r, NEW row, NEW b, NEW n, NEW s,
         Local(d, r, row, b, n, s), r.state = "PRESENT_DONE",
         NEW T \in SUBSET UpOf(row),
         NEW q, q = Told(d, r, row, T), NEW b2, b2 = ToldOf(d, row, b, T)
  PROVE  /\ Local(d, q, row, b2, n, NotShown)
         /\ q.state = r.state /\ q.count = r.count /\ q.visible = r.visible
         /\ q.range = r.range /\ q.prevAvail = r.prevAvail
         /\ q.connected = r.connected /\ q.on = r.on /\ q.gpu = r.gpu /\ q.config = r.config
         /\ T = {} => (Quiet(r, row) => Quiet(q, row))
         /\ \A l \in Layers(d) : q.layer[l].changed => r.layer[l].changed \/
              (l \in T /\ r.layer[l].type # IF Requested(row[l]) = "client" THEN "INVALID"
                                                                          ELSE "UI")
<1> DEFINE new(l) == IF l \in T
                     THEN layerStateSetCompositionType(r.layer[l], Requested(row[l]))
                     ELSE r.layer[l]
           kind(l) == IF Requested(row[l]) = "client" THEN "INVALID" ELSE "UI"
           layer == [l \in Layers(d) |-> new(l)]
<1>1. LocalTypes(d, r, row, b, n) /\ Answered(d, r, row, b, n) /\ Settled(r, row)
  BY DEF Local
<1>2. /\ r \in DisplayRec(d) /\ Ascending(r.visible) /\ row \in Rows(d)
      /\ b \in [Layers(d) -> Answers] /\ n \in Inputs[d] /\ n \in Nat
      /\ \A i \in Indices(r) : r.visible[i] \in Layers(d)
      /\ \A k \in Layers(d) : row[k] \in LooksOf[d][k] \union {Absent}
      /\ r.layer \in [Layers(d) -> LayerRec]
      /\ \A l \in Layers(d) : r.layer[l] \in LayerRec
      /\ \A l \in T : l \in Layers(d) /\ row[l] # Absent /\ row[l] \in Looks
  BY <1>1, LocalFacts DEF DisplayRec
<1>3. q = [r EXCEPT !.layer = layer]
  BY <1>2 DEF DisplayRec, Told
<1>4. ASSUME NEW l \in Layers(d)
      PROVE  /\ new(l) \in LayerRec /\ new(l).clear = r.layer[l].clear
             /\ new(l).type = IF l \in T THEN kind(l) ELSE r.layer[l].type
             /\ new(l).changed <=> \/ r.layer[l].changed
                                   \/ l \in T /\ r.layer[l].type # kind(l)
             /\ kind(l) \in {"INVALID", "UI"}
  <2>1. CASE l \in T
    <3> DEFINE differs == r.layer[l].changed \/ r.layer[l].type # kind(l)
               request == Requested(row[l])
    <3>1. /\ differs \in BOOLEAN /\ kind(l) \in LayerTypes /\ request \in Answers
          /\ kind(l) \in {"INVALID", "UI"}
      BY DEF LayerTypes, Requested, Answers
    <3>2. new(l) = [r.layer[l] EXCEPT !.changed = differs, !.type = kind(l), !.sf = request]
      BY <2>1 DEF layerStateSetCompositionType
    <3> HIDE DEF new, request
    <3>3. /\ new(l) \in LayerRec /\ new(l).clear = r.layer[l].clear
          /\ new(l).type = kind(l) /\ new(l).changed = differs
      <4> HIDE DEF differs, kind
      <4> QED BY <1>2, <3>1, <3>2 DEF LayerRec
    <3> QED BY <2>1, <3>1, <3>3
  <2>2. CASE l \notin T
    BY <1>2, <2>2
  <2> QED BY <2>1, <2>2
<1> HIDE DEF new
<1>5. layer \in [Layers(d) -> LayerRec] /\ \A l \in Layers(d) : layer[l] = new(l)
  BY <1>4
<1> HIDE DEF layer
<1>6. /\ q \in DisplayRec(d) /\ q.layer = layer /\ q.visible = r.visible /\ q.range = r.range
      /\ q.clearNum = r.clearNum /\ q.prevAvail = r.prevAvail /\ q.state = r.state
      /\ q.count = r.count /\ q.gpu = r.gpu /\ q.config = r.config
      /\ q.connected = r.connected /\ q.on = r.on
  BY <1>2, <1>3, <1>5 DEF DisplayRec
<1>7. /\ b2 \in [Layers(d) -> Answers]
      /\ \A l \in Layers(d) : b2[l] = IF l \in T THEN Requested(row[l]) ELSE b[l]
  BY <1>2 DEF Requested, Answers, ToldOf
<1>8. LocalTypes(d, q, row, b2, n)
  BY <1>2, <1>6, <1>7 DEF LocalTypes
<1>9. ASSUME NEW l \in Layers(d)
      PROVE  /\ row[l] = Absent =>
                  q.layer[l].type = "NONE" /\ ~q.layer[l].changed /\ b2[l] = "none"
             /\ getCompositionType(q.layer[l].type) = b2[l]
             /\ row[l] # Absent /\ ~q.layer[l].changed => Matches(q.layer[l].type, row[l])
  <2>1. q.layer[l] = new(l)
    BY <1>5, <1>6
  <2>2. CASE l \in T
    <3>1. q.layer[l].type = kind(l) /\ b2[l] = Requested(row[l]) /\ row[l] # Absent
      BY <1>2, <1>4, <1>7, <2>1, <2>2
    <3>2. getCompositionType(kind(l)) = Requested(row[l])
      BY DEF getCompositionType, Requested
    <3>3. ~q.layer[l].changed => ~r.layer[l].changed /\ r.layer[l].type = kind(l)
      BY <1>4, <2>1, <2>2
    <3> HIDE DEF kind
    <3> QED BY <1>1, <3>1, <3>2, <3>3 DEF Answered
  <2>3. CASE l \notin T
    <3>1. q.layer[l].type = r.layer[l].type /\ b2[l] = b[l]
          /\ (q.layer[l].changed <=> r.layer[l].changed)
      BY <1>4, <1>7, <2>1, <2>3
    <3> QED BY <1>1, <3>1 DEF Answered
  <2> QED BY <2>2, <2>3
<1>10. Answered(d, q, row, b2, n)
  BY <1>6, <1>9 DEF Answered
<1>11. Indices(q) = Indices(r)
  BY <1>6 DEF Indices
<1>12. Settled(q, row)
  <2> SUFFICES ASSUME Quiet(q, row) PROVE Divided(q) /\ Fits(q, q.prevAvail)
    BY <1>6 DEF Settled
  <2>1. \A i \in Indices(r) :
           /\ row[r.visible[i]] # Absent /\ ~q.layer[r.visible[i]].changed
           /\ q.layer[r.visible[i]] = new(r.visible[i])
    BY <1>2, <1>5, <1>6, <1>11 DEF Quiet
  <2>2. \A i \in Indices(r) :
           /\ ~r.layer[r.visible[i]].changed
           /\ q.layer[r.visible[i]].type = r.layer[r.visible[i]].type
           /\ q.layer[r.visible[i]].clear = r.layer[r.visible[i]].clear
    BY <1>2, <1>4, <2>1
  <2>3. Quiet(r, row)
    BY <2>1, <2>2 DEF Quiet
  <2>4. Alike(q, r)
    BY <1>2, <1>6, <2>2, AlikeLayers
  <2> QED BY <1>1, <1>6, <2>3, <2>4, AlikeDivided DEF Settled
<1>13. ASSUME T = {}, Quiet(r, row) PROVE Quiet(q, row)
  <2>1. \A l \in Layers(d) : q.layer[l].changed <=> r.layer[l].changed
    BY <1>4, <1>5, <1>6, <1>13
  <2> QED BY <1>2, <1>6, <1>11, <1>13, <2>1 DEF Quiet
<1>14. \A l \in Layers(d) : q.layer[l].changed =>
          r.layer[l].changed \/ (l \in T /\ r.layer[l].type # kind(l))
  BY <1>4, <1>5, <1>6
<1> QED BY <1>6, <1>8, <1>10, <1>12, <1>13, <1>14, NotShownWell DEF Local

-----------------------------------------------------------------------------
(* What keeps the invariant of one display: within a frame.                *)

\* A display that has been prepared for a decision.
PreparedWell(d, q, row, b, n) ==
    /\ LocalTypes(d, q, row, b, n)
    /\ \A l \in Layers(d) :
         /\ row[l] = Absent => q.layer[l].type = "NONE" /\ ~q.layer[l].changed /\ b[l] = "none"
         /\ getCompositionType(q.layer[l].type) = b[l]
         /\ row[l] # Absent /\ ~q.layer[l].changed => Matches(q.layer[l].type, row[l])
    /\ q.visible = Stacked(UpOf(row)) /\ q.job.num = JobNum(n)
    /\ q.prevTypes = [i \in Indices(q) |-> b[q.visible[i]]]

\* The first call prepares a display well.
LEMMA OpeningWell ==
  ASSUME NEW d \in Displays, NEW r, NEW row, NEW b, NEW n, NEW s,
         Local(d, r, row, b, n, s), r.state = "PRESENT_DONE", NEW state \in States,
         NEW q, q = Opening(r, row, n, state)
  PROVE  PreparedWell(d, q, row, b, n)
<1>1. LocalTypes(d, r, row, b, n) /\ Answered(d, r, row, b, n)
  BY DEF Local
<1>2. /\ r \in DisplayRec(d) /\ row \in Rows(d) /\ n \in Nat
      /\ b \in [Layers(d) -> Answers] /\ n \in Inputs[d]
      /\ \A l \in Layers(d) : row[l] \in LooksOf[d][l] \union {Absent}
  BY <1>1, LocalFacts
<1>3. /\ q \in DisplayRec(d) /\ q.state = state
      /\ q.visible = Stacked(UpOf(row))
      /\ q.job = [num |-> JobNum(n), ovl |-> <<>>]
      /\ q.prevTypes = [i \in Indices(q) |->
             getCompositionType(q.layer[q.visible[i]].type)]
      /\ q.layer = r.layer
  BY <1>2, OpeningIs
<1>4. Ascending(q.visible)
  BY <1>2, <1>3, StackedUp DEF Ascending
<1>5. LocalTypes(d, q, row, b, n)
  BY <1>2, <1>3, <1>4 DEF LocalTypes
<1>6. \A l \in Layers(d) :
        /\ row[l] = Absent => q.layer[l].type = "NONE" /\ ~q.layer[l].changed /\ b[l] = "none"
        /\ getCompositionType(q.layer[l].type) = b[l]
        /\ row[l] # Absent /\ ~q.layer[l].changed => Matches(q.layer[l].type, row[l])
  BY <1>1, <1>3 DEF Answered
<1>7. \A i \in Indices(q) : q.visible[i] \in Layers(d)
  BY <1>5, LocalFacts
<1>8. q.prevTypes = [i \in Indices(q) |-> b[q.visible[i]]]
  BY <1>3, <1>6, <1>7
<1>9. q.job.num = JobNum(n)
  BY <1>3
<1> QED BY <1>3, <1>5, <1>6, <1>8, <1>9 DEF PreparedWell

\* A display stays prepared until it is validated.
LEMMA CheckSkipWell ==
  ASSUME NEW d \in Displays, NEW r, NEW row, NEW b, NEW n, NEW s,
         Local(d, r, row, b, n, s), r.state = "CHECK_SKIP"
  PROVE  PreparedWell(d, r, row, b, n)
  BY DEF Local, Answered, PreparedWell

\* A display prepared for a decision that is left to validation.
LEMMA RefusedLocal ==
  ASSUME NEW d \in Displays, NEW q, NEW row, NEW b, NEW n,
         PreparedWell(d, q, row, b, n), q.state = "CHECK_SKIP"
  PROVE  Local(d, q, row, b, n, NotShown)
  BY NotShownWell DEF Local, PreparedWell, Answered, Settled

\* The visible layers of a prepared display are those that SurfaceFlinger has.
LEMMA VisibleUp ==
  ASSUME NEW d \in Displays, NEW q, NEW row, NEW b, NEW n,
         LocalTypes(d, q, row, b, n), q.visible = Stacked(UpOf(row))
  PROVE  /\ \A i \in Indices(q) : q.visible[i] \in UpOf(row) /\ row[q.visible[i]] # Absent
         /\ \A l \in UpOf(row) : \E i \in Indices(q) : q.visible[i] = l
         /\ \A l \in Layers(d) : row[l] # Absent <=> l \in Range(q.visible)
         /\ Len(q.visible) \in 0 .. Len(LooksOf[d])
<1>1. q \in DisplayRec(d) /\ row \in Rows(d) /\ Indices(q) = 1 .. Len(q.visible)
      /\ \A l : l \in UpOf(row) <=> l \in Layers(d) /\ row[l] # Absent
  BY LocalFacts
<1>2. /\ \A i \in Indices(q) : q.visible[i] \in UpOf(row)
      /\ \A l \in UpOf(row) : \E i \in Indices(q) : q.visible[i] = l
      /\ Len(q.visible) \in 0 .. Len(LooksOf[d])
  BY <1>1, StackedUp
<1>3. \A l : l \in Range(q.visible) <=> \E i \in Indices(q) : q.visible[i] = l
  BY <1>1, VisibleTypes
<1> QED BY <1>1, <1>2, <1>3

\* The display is validated and divided.
LEMMA DecidedLocal ==
  ASSUME NEW d \in Displays, NEW q, NEW row, NEW b, NEW n,
         PreparedWell(d, q, row, b, n), isValid(q), NEW h, h = HrtRun(Validated(q, row))
  PROVE  Local(d, h, row, b, n, NotShown) /\ h.state = "VALIDATE" /\ SameState(h, q)
<1>1. LocalTypes(d, q, row, b, n) /\ q.visible = Stacked(UpOf(row)) /\ q.job.num = JobNum(n)
  BY DEF PreparedWell
<1>2. /\ q \in DisplayRec(d) /\ Ascending(q.visible) /\ row \in Rows(d)
      /\ b \in [Layers(d) -> Answers] /\ n \in Inputs[d] /\ n \in Nat
      /\ \A i \in Indices(q) : q.visible[i] \in Layers(d)
      /\ JobNum(n) \in Nat \ {0}
  BY <1>1, LocalFacts
<1>3. /\ \A i \in Indices(q) : row[q.visible[i]] # Absent
      /\ \A l \in Layers(d) : row[l] # Absent <=> l \in Range(q.visible)
      /\ \A l \in UpOf(row) : \E i \in Indices(q) : q.visible[i] = l
      /\ Len(q.visible) \in 0 .. Len(LooksOf[d]) /\ Len(LooksOf[d]) \in Nat
  BY <1>1, VisibleUp, LayerNumbers
<1>4. EnoughInputs => Len(q.visible) <= 2 \/ q.job.num >= 2
  <2>1. ASSUME EnoughInputs PROVE Len(LooksOf[d]) <= 2 \/ n >= 2
    BY <1>2, <2>1 DEF EnoughInputs
  <2>2. n >= 2 => q.job.num >= 2
    BY <1>1, <1>2 DEF JobNum
  <2> QED BY <1>3, <2>1, <2>2
<1>5. /\ h \in DisplayRec(d) /\ SameState(h, q) /\ h.state = "VALIDATE" /\ Ready(h)
      /\ \A l \in Layers(d) : SameLayer(h.layer[l], q.layer[l])
      /\ \A l \in Layers(d) \ Range(q.visible) : h.layer[l].type = q.layer[l].type
      /\ \A i \in Indices(q) : Matches(h.layer[q.visible[i]].type, row[q.visible[i]])
  BY <1>1, <1>2, <1>3, <1>4, HrtFirst
<1>6. h.visible = q.visible /\ h.prevTypes = q.prevTypes /\ h.job.num = q.job.num
      /\ Indices(h) = Indices(q)
  BY <1>5 DEF SameState, Indices
<1>7. LocalTypes(d, h, row, b, n)
  BY <1>1, <1>2, <1>5, <1>6 DEF LocalTypes
<1>8. \A l \in Layers(d) : row[l] = Absent =>
         h.layer[l].type = "NONE" /\ ~h.layer[l].changed /\ b[l] = "none"
  BY <1>3, <1>5 DEF PreparedWell, SameLayer
<1>9. \A l \in Layers(d) : row[l] # Absent => Matches(h.layer[l].type, row[l])
  <2>1. \A l \in Layers(d) : row[l] # Absent => \E i \in Indices(q) : q.visible[i] = l
    BY <1>1, <1>3, LocalFacts
  <2> QED BY <1>5, <2>1
<1>10. Answered(d, h, row, b, n)
  BY <1>5, <1>6, <1>8, <1>9 DEF PreparedWell, Answered
<1> QED BY <1>5, <1>7, <1>10, NotShownWell DEF Local, Settled

\* The last validation still holds.
LEMMA SkippedLocal ==
  ASSUME NEW d \in Displays, NEW q, NEW row, NEW b, NEW n,
         PreparedWell(d, q, row, b, n), isValid(q), Divided(q), Fits(q, q.job.num),
         ~q.gpu, Quiet(q, row), NEW state \in {"VALIDATE", "VALIDATE_DONE"},
         NEW h, h = [HrtRun(q) EXCEPT !.state = state]
  PROVE  /\ Local(d, h, row, b, n, NotShown) /\ h.state = state /\ SameState(h, q)
         /\ h.range = q.range
<1> DEFINE g == HrtRun(q)
<1>1. LocalTypes(d, q, row, b, n) /\ q.visible = Stacked(UpOf(row)) /\ q.job.num = JobNum(n)
  BY DEF PreparedWell
<1>2. /\ q \in DisplayRec(d) /\ Ascending(q.visible) /\ row \in Rows(d)
      /\ b \in [Layers(d) -> Answers] /\ n \in Inputs[d] /\ n \in Nat
      /\ \A i \in Indices(q) : q.visible[i] \in Layers(d)
      /\ JobNum(n) \in Nat \ {0}
  BY <1>1, LocalFacts
<1>3. Countable(d, q) /\ q.connected
  BY <1>1, <1>2 DEF Countable, isValid
<1>4. /\ g \in DisplayRec(d) /\ SameState(g, q) /\ g.state = q.state
      /\ g.range = q.range /\ g.clearNum = q.clearNum /\ g.layer = q.layer
      /\ g.job = [q.job EXCEPT !.ovl = SlotsOf(Len(q.visible), q.range, ClearOf(q),
                                               q.clearNum)]
  <2>1. CommittedCount(Len(q.visible), q.range) <= q.job.num
    BY DEF Fits
  <2> HIDE DEF g
  <2>2. g = HrtRun(q)
    BY DEF g
  <2> QED BY <1>3, <2>1, <2>2, HrtAgain
<1> HIDE DEF g
<1>5. h = [g EXCEPT !.state = state] /\ state \in States
  BY DEF g, States
<1>6. /\ h \in DisplayRec(d) /\ h.state = state /\ SameState(h, g)
      /\ h.range = g.range /\ h.clearNum = g.clearNum /\ h.layer = g.layer /\ h.job = g.job
  BY <1>4, <1>5 DEF DisplayRec, SameState
<1>7. SameState(h, q)
  BY <1>4, <1>6 DEF SameState
<1>8. /\ h.visible = q.visible /\ h.prevTypes = q.prevTypes /\ h.job.num = q.job.num
      /\ h.gpu = q.gpu /\ Indices(h) = Indices(q)
  BY <1>7 DEF SameState, Indices
<1>9. Types(h) = Types(q) /\ ClearOf(h) = ClearOf(q)
  BY <1>4, <1>6, <1>8 DEF Types, ClearOf
<1>10. Alike(h, q)
  BY <1>4, <1>6, <1>8, <1>9 DEF Alike
<1>11. h.job.ovl = SlotsOf(Len(q.visible), q.range, ClearOf(q), q.clearNum)
  <2>1. q.job \in JobRec
    BY <1>2 DEF DisplayRec
  <2> QED BY <1>4, <1>6, <2>1 DEF JobRec
<1>12. Ready(h)
  BY <1>4, <1>6, <1>8, <1>9, <1>10, <1>11, AlikeDivided DEF Ready
<1>13. LocalTypes(d, h, row, b, n)
  BY <1>1, <1>2, <1>6, <1>8 DEF LocalTypes
<1>14. ASSUME NEW l \in Layers(d), row[l] # Absent PROVE Matches(h.layer[l].type, row[l])
  <2>1. \E i \in Indices(q) : q.visible[i] = l
    BY <1>1, <1>14, VisibleUp, LocalFacts
  <2>2. ~q.layer[l].changed
    BY <2>1 DEF Quiet
  <2> QED BY <1>4, <1>6, <1>14, <2>2 DEF PreparedWell
<1>15. Answered(d, h, row, b, n)
  BY <1>4, <1>6, <1>8, <1>14 DEF PreparedWell, Answered
<1> QED BY <1>4, <1>6, <1>7, <1>12, <1>13, <1>15, NotShownWell DEF Local, Settled

\* Nothing happens to a display that is not connected, or is off.
LEMMA OffAgain ==
  ASSUME NEW d \in Displays, NEW r, NEW row, NEW b, NEW n, NEW s,
         Local(d, r, row, b, n, s), ~isValid(r), r.state = "PRESENT_DONE", Quiet(r, row)
  PROVE  HrtRun(r) = r
<1>1. CASE ~r.connected
  BY <1>1 DEF HrtRun
<1>2. CASE r.connected
  <2> DEFINE h == HrtRun(r)
  <2>1. r \in DisplayRec(d) /\ Countable(d, r)
    BY DEF Local, LocalTypes, Countable
  <2>2. Divided(r)
    BY DEF Local, Settled
  <2>3. /\ h \in DisplayRec(d) /\ SameState(h, r) /\ h.state = r.state
        /\ h.range = r.range /\ h.clearNum = r.clearNum /\ h.layer = r.layer
        /\ h.job = r.job
    <3> HIDE DEF h
    <3>1. h = HrtRun(r)
      BY DEF h
    <3> QED BY <1>2, <2>1, <2>2, <3>1, HrtAgain
  <2> HIDE DEF h
  <2>4. h = r
    BY <2>1, <2>3 DEF DisplayRec, SameState
  <2> QED BY <2>4 DEF h
<1> QED BY <1>1, <1>2

\* SurfaceFlinger takes the layers to be composed as validation answers.
LEMMA AcceptedLocal ==
  ASSUME NEW d \in Displays, NEW r, NEW row, NEW b, NEW n, NEW s,
         Local(d, r, row, b, n, s), r.state = "VALIDATE",
         NEW q, q = Accepted(d, r), NEW b2, b2 = AcceptedOf(d, r, b)
  PROVE  /\ Local(d, q, row, b2, n, NotShown) /\ q.state = "VALIDATE_DONE"
         /\ q.count = r.count /\ q.connected = r.connected /\ q.on = r.on
         /\ q.gpu = r.gpu /\ q.config = r.config
<1> DEFINE C == ChangedOf(d, r)
           answer(l) == getCompositionType(r.layer[l].type)
           new(l) == IF l \in C THEN [r.layer[l] EXCEPT !.sf = answer(l)] ELSE r.layer[l]
           layer == [l \in Layers(d) |-> new(l)]
           done == "VALIDATE_DONE"
           u == [r EXCEPT !.state = done]
<1>1. LocalTypes(d, r, row, b, n) /\ Answered(d, r, row, b, n) /\ Settled(r, row)
  BY DEF Local
<1>2. /\ r \in DisplayRec(d) /\ Ascending(r.visible) /\ row \in Rows(d)
      /\ b \in [Layers(d) -> Answers] /\ n \in Inputs[d] /\ n \in Nat
      /\ \A i \in Indices(r) : r.visible[i] \in Layers(d)
      /\ \A l \in Layers(d) : row[l] \in LooksOf[d][l] \union {Absent}
      /\ \A l \in Layers(d) : r.layer[l] \in LayerRec
      /\ r.layer \in [Layers(d) -> LayerRec]
  BY <1>1, LocalFacts DEF DisplayRec
<1>3. q = [u EXCEPT !.layer = layer]
  BY <1>2 DEF DisplayRec, Accepted
<1>4. \A l \in Layers(d) : answer(l) \in Answers
  <2>1. \A l \in Layers(d) : r.layer[l].type \in LayerTypes
    BY <1>2 DEF LayerRec
  <2> QED BY <2>1, AnswerType
<1> HIDE DEF answer
<1>5. ASSUME NEW l \in Layers(d)
      PROVE  /\ new(l) \in LayerRec /\ new(l).type = r.layer[l].type
             /\ new(l).changed = r.layer[l].changed /\ new(l).clear = r.layer[l].clear
  <2>1. r.layer[l] \in LayerRec /\ answer(l) \in Answers
    BY <1>2, <1>4
  <2>2. CASE l \in C
    <3>1. new(l) = [r.layer[l] EXCEPT !.sf = answer(l)]
      BY <2>2
    <3> HIDE DEF new
    <3> QED BY <2>1, <3>1 DEF LayerRec
  <2>3. CASE l \notin C
    BY <2>1, <2>3
  <2> QED BY <2>2, <2>3
<1> HIDE DEF new
<1>6. layer \in [Layers(d) -> LayerRec] /\ \A l \in Layers(d) : layer[l] = new(l)
  BY <1>5
<1>7. done \in States
  BY DEF States
<1> HIDE DEF layer, done
<1>8. /\ u \in DisplayRec(d) /\ u.state = done /\ SameState(u, r) /\ u.range = r.range
      /\ u.clearNum = r.clearNum /\ u.job = r.job
  BY <1>2, <1>7 DEF DisplayRec, SameState
<1> HIDE DEF u
<1>9. /\ q \in DisplayRec(d) /\ q.state = u.state /\ SameState(q, u) /\ q.layer = layer
      /\ q.range = u.range /\ q.clearNum = u.clearNum /\ q.job = u.job
  BY <1>3, <1>6, <1>8 DEF DisplayRec, SameState
<1>10. /\ q.visible = r.visible /\ Indices(q) = Indices(r) /\ q.gpu = r.gpu /\ q.job = r.job
       /\ q.range = r.range /\ q.clearNum = r.clearNum /\ q.state = "VALIDATE_DONE"
       /\ q.count = r.count /\ q.connected = r.connected /\ q.on = r.on
       /\ q.config = r.config
  BY <1>8, <1>9 DEF SameState, Indices, done
<1>11. \A l \in Layers(d) : /\ q.layer[l].type = r.layer[l].type
                            /\ q.layer[l].changed = r.layer[l].changed
                            /\ q.layer[l].clear = r.layer[l].clear
  BY <1>5, <1>6, <1>9
<1>12. b2 \in [Layers(d) -> Answers]
  BY <1>2, <1>4 DEF answer, AcceptedOf
<1>13. LocalTypes(d, q, row, b2, n)
  BY <1>2, <1>9, <1>10, <1>12 DEF LocalTypes
<1>14. /\ r.visible = Stacked(UpOf(row)) /\ r.job.num = JobNum(n)
       /\ r.prevTypes = [i \in Indices(r) |-> b[r.visible[i]]]
       /\ \A l \in Layers(d) : row[l] # Absent => Matches(r.layer[l].type, row[l])
       /\ \A l \in Layers(d) : row[l] = Absent =>
            r.layer[l].type = "NONE" /\ ~r.layer[l].changed /\ b[l] = "none"
  BY <1>1 DEF Answered
<1>15. ASSUME NEW l \in Layers(d)
       PROVE  /\ answer(l) = b2[l]
              /\ row[l] = Absent => b2[l] = "none"
  <2>1. CASE row[l] # Absent
    <3>1. PICK i \in Indices(r) : r.visible[i] = l
      BY <1>1, <1>14, <2>1, VisibleUp, LocalFacts
    <3>2. r.prevTypes[i] = b[l]
      BY <1>14, <3>1
    <3>3. l \notin C => answer(l) = b[l]
      BY <3>1, <3>2 DEF answer, ChangedOf
    <3> QED BY <2>1, <3>3 DEF answer, AcceptedOf
  <2>2. CASE row[l] = Absent
    <3>1. answer(l) = "none" /\ b[l] = "none"
      BY <1>14, <2>2 DEF answer, getCompositionType
    <3> QED BY <2>2, <3>1 DEF answer, AcceptedOf
  <2> QED BY <2>1, <2>2
<1>16. Answered(d, q, row, b2, n)
  BY <1>10, <1>11, <1>14, <1>15 DEF Answered, answer
<1>17. Alike(q, r)
  <2>1. \A i \in Indices(r) :
           /\ q.layer[r.visible[i]].type = r.layer[r.visible[i]].type
           /\ q.layer[r.visible[i]].clear = r.layer[r.visible[i]].clear
    BY <1>2, <1>11
  <2>2. /\ q \in DisplayRec(d) /\ r \in DisplayRec(d)
        /\ q.visible = r.visible /\ q.range = r.range /\ q.clearNum = r.clearNum
    BY <1>2, <1>9, <1>10
  <2> QED BY <2>1, <2>2, AlikeLayers
<1>18. Ready(q)
  <2>1. Ready(r)
    BY <1>1 DEF Settled
  <2>2. Divided(q) /\ Fits(q, q.job.num)
    BY <1>10, <1>17, <2>1, AlikeDivided DEF Ready
  <2>3. /\ q.visible = r.visible /\ q.range = r.range /\ q.clearNum = r.clearNum
        /\ Types(q) = Types(r) /\ ClearOf(q) = ClearOf(r)
    BY <1>17 DEF Alike
  <2>4. q.job = r.job /\ q.gpu = r.gpu /\ Indices(q) = Indices(r)
    BY <1>10
  <2> QED BY <2>1, <2>2, <2>3, <2>4 DEF Ready
<1> QED BY <1>10, <1>13, <1>16, <1>18, NotShownWell DEF Local, Settled

\* The display is presented, and shows every layer where it belongs.
LEMMA PresentedLocal ==
  ASSUME NEW d \in Displays, NEW r, NEW row, NEW b, NEW n, NEW s,
         Local(d, r, row, b, n, s), r.state = "VALIDATE_DONE", NEW q, q = Presented(r)
  PROVE  /\ Local(d, q, row, b, n, Shown(r)) /\ Quiet(q, row)
         /\ q.state = "PRESENT_DONE"
         /\ q.count = (IF r.count = 0 THEN 0 ELSE r.count - 1)
         /\ q.connected = r.connected /\ q.on = r.on /\ q.gpu = r.gpu /\ q.config = r.config
         /\ q.visible = Stacked(UpOf(row)) /\ q.prevAvail = JobNum(n)
<1>1. /\ LocalTypes(d, r, row, b, n) /\ Answered(d, r, row, b, n) /\ Settled(r, row)
  BY DEF Local
<1>2. /\ r \in DisplayRec(d) /\ Ascending(r.visible) /\ row \in Rows(d)
      /\ b \in [Layers(d) -> Answers] /\ n \in Inputs[d] /\ n \in Nat
      /\ \A i \in Indices(r) : r.visible[i] \in Layers(d)
      /\ \A l \in Layers(d) : row[l] \in LooksOf[d][l] \union {Absent}
      /\ JobNum(n) \in Nat \ {0}
      /\ \A l : l \in UpOf(row) <=> l \in Layers(d) /\ row[l] # Absent
  BY <1>1, LocalFacts
<1>3. /\ r.visible = Stacked(UpOf(row)) /\ r.job.num = JobNum(n) /\ Ready(r)
      /\ \A l \in Layers(d) : getCompositionType(r.layer[l].type) = b[l]
      /\ \A l \in Layers(d) : row[l] # Absent => Matches(r.layer[l].type, row[l])
      /\ \A l \in Layers(d) : row[l] = Absent => r.layer[l].type = "NONE" /\ b[l] = "none"
  BY <1>1 DEF Answered, Settled
<1>4. r.job.num # 0
  BY <1>2, <1>3
<1>5. /\ q \in DisplayRec(d) /\ q.state = "PRESENT_DONE" /\ q.prevAvail = r.job.num
      /\ q.count = (IF r.count = 0 THEN 0 ELSE r.count - 1)
      /\ q.connected = r.connected /\ q.on = r.on /\ q.gpu = r.gpu
      /\ q.config = r.config /\ q.visible = r.visible /\ q.range = r.range
      /\ q.clearNum = r.clearNum
      /\ \A l \in Layers(d) :
           /\ ~q.layer[l].changed /\ q.layer[l].type = r.layer[l].type
           /\ q.layer[l].sf = r.layer[l].sf /\ q.layer[l].clear = r.layer[l].clear
      /\ Alike(q, r)
  BY <1>2, <1>4, PresentedIs
<1>6. LocalTypes(d, q, row, b, n)
  BY <1>2, <1>5 DEF LocalTypes
<1>7. Answered(d, q, row, b, n)
  BY <1>3, <1>5 DEF Answered
<1>8. Settled(q, row)
  <2>1. Divided(q) /\ Fits(q, q.prevAvail)
    BY <1>3, <1>5, AlikeDivided DEF Ready
  <2> QED BY <1>5, <2>1 DEF Settled
<1>9. Quiet(q, row)
  <2>1. \A i \in Indices(r) : row[r.visible[i]] # Absent
    BY <1>1, <1>3, VisibleUp
  <2> QED BY <1>2, <1>5, <2>1 DEF Quiet, Indices
<1>10. ShownWell(Shown(r), r, row, b)
  BY <1>2, <1>3, ReadyIsShownWell
<1>11. ShownWell(Shown(r), q, row, b)
  <2>1. ASSUME NEW x \in Shown(r).hw PROVE x[1] \in Layers(d)
    <3>1. PICK i \in Indices(r) : x[1] = r.visible[i]
      BY ShownIs, Zenon
    <3> QED BY <1>2, <3>1
  <2>2. \A x \in Shown(r).hw : /\ q.layer[x[1]].type = r.layer[x[1]].type
                               /\ q.layer[x[1]].clear = r.layer[x[1]].clear
    BY <1>5, <2>1
  <2> QED BY <1>5, <1>10, <2>2 DEF ShownWell, InOrder, Fit, isForceGpuCompose
<1> QED BY <1>3, <1>5, <1>6, <1>7, <1>8, <1>9, <1>11 DEF Local

-----------------------------------------------------------------------------
(* SurfaceFlinger's changes between two frames.                            *)

\* Between frames every display has presented its last one.
LEMMA BetweenFrames ==
  ASSUME IInv, ~frame
  PROVE  \A d \in Displays :
           /\ Local(d, disp[d], scene[d], believes[d], avail[d], NotShown)
           /\ disp[d].state = "PRESENT_DONE" /\ disp[d].count = 0
           /\ shown[d] = NotShown /\ step[d] = "idle"
           /\ ~touched => Quiet(disp[d], scene[d])
           /\ ~isValid(disp[d]) => Quiet(disp[d], scene[d])
<1> TAKE d \in Displays
<1>1. /\ step[d] = "idle" /\ shown[d] = NotShown
      /\ disp[d].state = "PRESENT_DONE" /\ disp[d].count = 0
  BY DEF IInv, Calls
<1>2. Local(d, disp[d], scene[d], believes[d], avail[d], NotShown)
  BY <1>1 DEF IInv, Settlement
<1>3. Calm(disp[d], step[d], frame, touched) => Quiet(disp[d], scene[d])
  BY DEF IInv, Settlement
<1> QED BY <1>1, <1>2, <1>3 DEF Calm

\* What SurfaceFlinger changes between frames may be anything that keeps what
\* is known of each display.
LEMMA ChangeKeeps ==
  ASSUME IInv, Change,
         scene' = [d \in Displays |-> scene'[d]],
         believes' = [d \in Displays |-> believes'[d]],
         disp' = [d \in Displays |-> disp'[d]],
         avail' = [d \in Displays |-> avail'[d]],
         isValid(disp'["primary"]), disp'["external"].on => disp'["external"].connected,
         \A d \in Displays :
           /\ Local(d, disp'[d], scene'[d], believes'[d], avail'[d], NotShown)
           /\ disp'[d].state = "PRESENT_DONE" /\ disp'[d].count = 0
           /\ ~isValid(disp'[d]) => Quiet(disp'[d], scene'[d])
  PROVE  IInv'
<1>1. /\ ~frame /\ touched' = TRUE /\ frame' = frame /\ step' = step
      /\ needValidate' = needValidate /\ shown' = shown
  BY DEF Change
<1>2. \A d \in Displays : step[d] = "idle" /\ shown[d] = NotShown
  BY <1>1, BetweenFrames
<1>3. "primary" \in Displays /\ "external" \in Displays
  BY DEF Displays
<1>4. Shape'
  <2>1. Shape
    BY DEF IInv
  <2> QED BY <1>1, <2>1 DEF Shape
<1>5. Settlement'
  BY <1>1, <1>2 DEF Settlement, Calm
<1>6. Calls'
  BY <1>1, <1>2, <1>3 DEF Calls, Pri, Ext, priStep, extStep
<1>7. Still'
  BY <1>1, <1>2, <1>3 DEF Still, Unchanged, Pri, Ext, priStep
<1> QED BY <1>4, <1>5, <1>6, <1>7 DEF IInv

\* A change of one layer.
LEMMA OneLayerChange ==
  ASSUME IInv, Change, NEW d \in Displays, NEW l \in Layers(d), isValid(disp[d]),
         NEW look \in LooksOf[d][l] \union {Absent},
         NEW x \in LayerRec, NEW answer, answer = getCompositionType(x.type),
         look = Absent => x.type = "NONE" /\ ~x.changed, look # Absent => x.changed,
         scene' = [scene EXCEPT ![d][l] = look],
         believes' = [believes EXCEPT ![d][l] = answer],
         disp' = [disp EXCEPT ![d].layer[l] = x], UNCHANGED avail
  PROVE  IInv'
<1> DEFINE q == [disp[d] EXCEPT !.layer[l] = x]
           row == [scene[d] EXCEPT ![l] = look]
           b == [believes[d] EXCEPT ![l] = answer]
<1>1. Shape /\ ~frame
  BY DEF IInv, Change
<1>2. /\ scene' = [scene EXCEPT ![d] = row] /\ believes' = [believes EXCEPT ![d] = b]
      /\ disp' = [disp EXCEPT ![d] = q]
  BY <1>1 DEF Shape
<1>3. \A c \in Displays :
        /\ Local(c, disp[c], scene[c], believes[c], avail[c], NotShown)
        /\ disp[c].state = "PRESENT_DONE" /\ disp[c].count = 0
        /\ ~isValid(disp[c]) => Quiet(disp[c], scene[c])
  BY <1>1, BetweenFrames
<1>4. Local(d, q, row, b, avail[d], NotShown)
  BY <1>3, OneLayerLocal
<1>5. /\ q.state = disp[d].state /\ q.count = disp[d].count
      /\ q.connected = disp[d].connected /\ q.on = disp[d].on
  BY <1>3 DEF Local, LocalTypes, DisplayRec
<1> HIDE DEF q, row, b
<1>6. /\ scene' = [c \in Displays |-> scene'[c]] /\ believes' = [c \in Displays |-> believes'[c]]
      /\ disp' = [c \in Displays |-> disp'[c]] /\ avail' = [c \in Displays |-> avail'[c]]
      /\ \A c \in Displays : /\ scene'[c] = IF c = d THEN row ELSE scene[c]
                             /\ believes'[c] = IF c = d THEN b ELSE believes[c]
                             /\ disp'[c] = IF c = d THEN q ELSE disp[c]
                             /\ avail'[c] = avail[c]
  BY <1>1, <1>2 DEF Shape
<1>7. \A c \in Displays :
        /\ Local(c, disp'[c], scene'[c], believes'[c], avail'[c], NotShown)
        /\ disp'[c].state = "PRESENT_DONE" /\ disp'[c].count = 0
        /\ ~isValid(disp'[c]) => Quiet(disp'[c], scene'[c])
        /\ isValid(disp[c]) => isValid(disp'[c])
        /\ disp'[c].on = disp[c].on /\ disp'[c].connected = disp[c].connected
  BY <1>3, <1>4, <1>5, <1>6 DEF isValid
<1>8. isValid(disp'["primary"]) /\ (disp'["external"].on => disp'["external"].connected)
  BY <1>7 DEF IInv, Calls, Pri, Ext, Displays
<1> QED BY <1>6, <1>7, <1>8, ChangeKeeps

\* The types of one layer.
LEMMA LayerOf ==
  ASSUME IInv, NEW d \in Displays, NEW l \in Layers(d)
  PROVE  /\ disp[d] \in DisplayRec(d) /\ disp[d].layer[l] \in LayerRec
         /\ scene[d][l] \in LooksOf[d][l] \union {Absent}
  BY LocalFacts DEF IInv, Settlement, Local

\* createLayer.
LEMMA CreateLayerKeeps ==
  ASSUME IInv, NEW d \in Displays, NEW l \in Layers(d), NEW look \in LooksOf[d][l],
         CreateLayer(d, l, look)
  PROVE  IInv'
<1> DEFINE x == [NewLayer EXCEPT !.changed = TRUE]
<1>1. x \in LayerRec /\ x.changed /\ x.type = "NONE"
  BY DEF NewLayer, LayerRec, LayerTypes, Answers
<1>2. getCompositionType(x.type) = "none"
  BY <1>1 DEF getCompositionType
<1>3. believes[d][l] = "none" /\ believes[d] \in [Layers(d) -> Answers]
  BY LocalFacts DEF CreateLayer, IInv, Settlement, Local, Answered
<1>4. believes' = [believes EXCEPT ![d][l] = "none"]
  BY <1>3 DEF CreateLayer, IInv, Shape
<1>5. look # Absent
  BY LooksPresent
<1>6. /\ Change /\ isValid(disp[d]) /\ scene' = [scene EXCEPT ![d][l] = look]
      /\ disp' = [disp EXCEPT ![d].layer[l] = x] /\ UNCHANGED avail
  BY DEF CreateLayer
<1> HIDE DEF x
<1> QED BY <1>1, <1>2, <1>4, <1>5, <1>6, OneLayerChange

\* setStateChanged.
LEMMA SetLookKeeps ==
  ASSUME IInv, NEW d \in Displays, NEW l \in Layers(d), NEW look \in LooksOf[d][l],
         SetLook(d, l, look)
  PROVE  IInv'
<1> DEFINE x == [disp[d].layer[l] EXCEPT !.changed = TRUE]
<1>1. x \in LayerRec /\ x.changed /\ x.type = disp[d].layer[l].type
  BY LayerOf DEF LayerRec
<1>2. /\ Change /\ isValid(disp[d]) /\ scene' = [scene EXCEPT ![d][l] = look]
      /\ disp' = [disp EXCEPT ![d].layer[l].changed = TRUE] /\ UNCHANGED avail
      /\ UNCHANGED believes
  BY DEF SetLook
<1>3. disp' = [disp EXCEPT ![d].layer[l] = x]
  BY <1>2
<1> HIDE DEF x
<1>4. /\ believes[d][l] = getCompositionType(disp[d].layer[l].type)
      /\ believes[d] \in [Layers(d) -> Answers]
  <2>1. disp[d].state = "PRESENT_DONE"
    BY <1>2, BetweenFrames DEF Change
  <2>2. LocalTypes(d, disp[d], scene[d], believes[d], avail[d])
        /\ Answered(d, disp[d], scene[d], believes[d], avail[d])
    BY DEF IInv, Settlement, Local
  <2>3. believes[d][l] = getCompositionType(disp[d].layer[l].type)
    BY <2>1, <2>2 DEF Answered
  <2> QED BY <2>2, <2>3, LocalFacts
<1> DEFINE answer == getCompositionType(x.type)
<1>5. believes' = [believes EXCEPT ![d][l] = answer]
  <2>1. believes[d][l] = answer
    BY <1>1, <1>4
  <2> HIDE DEF answer
  <2> QED BY <1>2, <1>4, <2>1 DEF IInv, Shape
<1>6. look # Absent
  BY LooksPresent
<1>7. answer = getCompositionType(x.type)
  OBVIOUS
<1>8. Change /\ isValid(disp[d]) /\ scene' = [scene EXCEPT ![d][l] = look] /\ UNCHANGED avail
  BY <1>2
<1>9. x \in LayerRec /\ x.changed
  BY <1>1
<1> HIDE DEF answer
<1> QED BY <1>3, <1>5, <1>6, <1>7, <1>8, <1>9, OneLayerChange

\* destroyLayer.
LEMMA DestroyLayerKeeps ==
  ASSUME IInv, NEW d \in Displays, NEW l \in Layers(d), DestroyLayer(d, l)
  PROVE  IInv'
<1>1. NewLayer \in LayerRec /\ ~NewLayer.changed /\ NewLayer.type = "NONE"
  BY DEF NewLayer, LayerRec, LayerTypes, Answers
<1>2. getCompositionType(NewLayer.type) = "none"
  BY <1>1 DEF getCompositionType
<1>3. /\ Change /\ isValid(disp[d]) /\ scene' = [scene EXCEPT ![d][l] = Absent]
      /\ disp' = [disp EXCEPT ![d].layer[l] = NewLayer] /\ UNCHANGED avail
      /\ believes' = [believes EXCEPT ![d][l] = "none"]
  BY DEF DestroyLayer
<1> QED BY <1>1, <1>2, <1>3, OneLayerChange

\* What is changed of the displays themselves.
LEMMA DisplayChange ==
  ASSUME IInv, Change, UNCHANGED <<scene, believes>>,
         disp' = [d \in Displays |-> disp'[d]], avail' = [d \in Displays |-> avail'[d]],
         isValid(disp'["primary"]), disp'["external"].on => disp'["external"].connected,
         \A d \in Displays :
           /\ disp'[d] \in DisplayRec(d) /\ avail'[d] \in Inputs[d]
           /\ disp'[d].layer = disp[d].layer /\ disp'[d].visible = disp[d].visible
           /\ disp'[d].range = disp[d].range /\ disp'[d].clearNum = disp[d].clearNum
           /\ disp'[d].prevAvail = disp[d].prevAvail /\ disp'[d].state = disp[d].state
           /\ disp'[d].count = disp[d].count
  PROVE  IInv'
<1>1. Shape /\ ~frame /\ ~touched /\ scene' = scene /\ believes' = believes
  BY DEF IInv, Change
<1>2. \A d \in Displays :
        /\ Local(d, disp[d], scene[d], believes[d], avail[d], NotShown)
        /\ disp[d].state = "PRESENT_DONE" /\ disp[d].count = 0
        /\ Quiet(disp[d], scene[d])
  BY <1>1, BetweenFrames
<1>3. ASSUME NEW d \in Displays
      PROVE  /\ Local(d, disp'[d], scene[d], believes[d], avail'[d], NotShown)
             /\ Quiet(disp'[d], scene[d])
  BY <1>2, LocalKept
<1>4. scene' = [c \in Displays |-> scene'[c]] /\ believes' = [c \in Displays |-> believes'[c]]
  BY <1>1 DEF Shape
<1>5. \A d \in Displays :
           /\ Local(d, disp'[d], scene'[d], believes'[d], avail'[d], NotShown)
           /\ disp'[d].state = "PRESENT_DONE" /\ disp'[d].count = 0
           /\ ~isValid(disp'[d]) => Quiet(disp'[d], scene'[d])
  BY <1>1, <1>2, <1>3
<1> QED BY <1>4, <1>5, ChangeKeeps

\* A change of one display.
LEMMA OneDisplay ==
  ASSUME Shape, NEW d \in Displays, NEW q, disp' = [disp EXCEPT ![d] = q]
  PROVE  /\ disp' = [c \in Displays |-> disp'[c]]
         /\ \A c \in Displays : disp'[c] = IF c = d THEN q ELSE disp[c]
  BY DEF Shape

\* setColorTransform, setActiveConfig, setPowerMode, and the inputs that move.
LEMMA SettingsKeep ==
  ASSUME IInv, setColorTransform \/ setActiveConfig \/ SwitchExternal
               \/ \E d \in Displays : InputsMove(d)
  PROVE  IInv'
<1>1. Shape /\ isValid(disp["primary"]) /\ "primary" \in Displays /\ "external" \in Displays
      /\ "primary" # "external" /\ (disp["external"].on => disp["external"].connected)
  BY DEF IInv, Calls, Pri, Ext, Displays
<1>2. \A d \in Displays : disp[d] \in DisplayRec(d) /\ avail[d] \in Inputs[d]
  BY DEF IInv, Settlement, Local, LocalTypes
<1>3. CASE setColorTransform
  <2> DEFINE gpu == ~disp["primary"].gpu
             q == [disp["primary"] EXCEPT !.gpu = gpu]
  <2>1. disp' = [disp EXCEPT !["primary"] = q] /\ Change /\ UNCHANGED <<scene, believes, avail>>
    BY <1>3 DEF setColorTransform
  <2>2. gpu \in BOOLEAN
    OBVIOUS
  <2> HIDE DEF gpu
  <2>3. /\ q \in DisplayRec("primary")
        /\ q.layer = disp["primary"].layer /\ q.visible = disp["primary"].visible
        /\ q.range = disp["primary"].range /\ q.clearNum = disp["primary"].clearNum
        /\ q.prevAvail = disp["primary"].prevAvail /\ q.state = disp["primary"].state
        /\ q.count = disp["primary"].count /\ q.connected = disp["primary"].connected
        /\ q.on = disp["primary"].on
    BY <1>1, <1>2, <2>2 DEF DisplayRec
  <2> HIDE DEF q
  <2>4. /\ disp' = [c \in Displays |-> disp'[c]]
        /\ \A c \in Displays : disp'[c] = IF c = "primary" THEN q ELSE disp[c]
    BY <1>1, <2>1, OneDisplay
  <2>5. avail' = [c \in Displays |-> avail'[c]] /\ \A c \in Displays : avail'[c] = avail[c]
    BY <1>1, <2>1 DEF Shape
  <2>6. isValid(disp'["primary"]) /\ (disp'["external"].on => disp'["external"].connected)
    BY <1>1, <2>3, <2>4 DEF isValid
  <2> QED BY <1>2, <2>1, <2>3, <2>4, <2>5, <2>6, DisplayChange
<1>4. CASE setActiveConfig
  <2> DEFINE config == TRUE
             q == [disp["primary"] EXCEPT !.config = config]
  <2>1. disp' = [disp EXCEPT !["primary"] = q] /\ Change /\ UNCHANGED <<scene, believes, avail>>
    BY <1>4 DEF setActiveConfig
  <2>2. config \in BOOLEAN
    OBVIOUS
  <2> HIDE DEF config
  <2>3. /\ q \in DisplayRec("primary")
        /\ q.layer = disp["primary"].layer /\ q.visible = disp["primary"].visible
        /\ q.range = disp["primary"].range /\ q.clearNum = disp["primary"].clearNum
        /\ q.prevAvail = disp["primary"].prevAvail /\ q.state = disp["primary"].state
        /\ q.count = disp["primary"].count /\ q.connected = disp["primary"].connected
        /\ q.on = disp["primary"].on
    BY <1>1, <1>2, <2>2 DEF DisplayRec
  <2> HIDE DEF q
  <2>4. /\ disp' = [c \in Displays |-> disp'[c]]
        /\ \A c \in Displays : disp'[c] = IF c = "primary" THEN q ELSE disp[c]
    BY <1>1, <2>1, OneDisplay
  <2>5. avail' = [c \in Displays |-> avail'[c]] /\ \A c \in Displays : avail'[c] = avail[c]
    BY <1>1, <2>1 DEF Shape
  <2>6. isValid(disp'["primary"]) /\ (disp'["external"].on => disp'["external"].connected)
    BY <1>1, <2>3, <2>4 DEF isValid
  <2> QED BY <1>2, <2>1, <2>3, <2>4, <2>5, <2>6, DisplayChange
<1>5. CASE SwitchExternal
  <2> DEFINE on == ~disp["external"].on
             q == [disp["external"] EXCEPT !.on = on]
  <2>1. /\ disp' = [disp EXCEPT !["external"] = q] /\ Change /\ UNCHANGED <<scene, believes, avail>>
        /\ disp["external"].connected
    BY <1>5 DEF SwitchExternal
  <2>2. on \in BOOLEAN
    OBVIOUS
  <2> HIDE DEF on
  <2>3. /\ q \in DisplayRec("external")
        /\ q.layer = disp["external"].layer /\ q.visible = disp["external"].visible
        /\ q.range = disp["external"].range /\ q.clearNum = disp["external"].clearNum
        /\ q.prevAvail = disp["external"].prevAvail /\ q.state = disp["external"].state
        /\ q.count = disp["external"].count /\ q.connected = disp["external"].connected
    BY <1>1, <1>2, <2>2 DEF DisplayRec
  <2> HIDE DEF q
  <2>4. /\ disp' = [c \in Displays |-> disp'[c]]
        /\ \A c \in Displays : disp'[c] = IF c = "external" THEN q ELSE disp[c]
    BY <1>1, <2>1, OneDisplay
  <2>5. avail' = [c \in Displays |-> avail'[c]] /\ \A c \in Displays : avail'[c] = avail[c]
    BY <1>1, <2>1 DEF Shape
  <2>6. isValid(disp'["primary"]) /\ (disp'["external"].on => disp'["external"].connected)
    BY <1>1, <2>1, <2>3, <2>4
  <2> QED BY <1>2, <2>1, <2>3, <2>4, <2>5, <2>6, DisplayChange
<1>6. ASSUME NEW d \in Displays, InputsMove(d) PROVE IInv'
  <2>1. PICK n \in Inputs[d] \ {avail[d]} : avail' = [avail EXCEPT ![d] = n]
    BY <1>6 DEF InputsMove
  <2>2. Change /\ UNCHANGED <<scene, believes, disp>>
    BY <1>6 DEF InputsMove
  <2>3. /\ avail' = [c \in Displays |-> avail'[c]]
        /\ \A c \in Displays : avail'[c] = IF c = d THEN n ELSE avail[c]
    BY <1>1, <2>1 DEF Shape
  <2>4. disp' = disp /\ disp' = [c \in Displays |-> disp'[c]]
    BY <1>1, <2>2 DEF Shape
  <2>5. isValid(disp'["primary"]) /\ (disp'["external"].on => disp'["external"].connected)
    BY <1>1, <2>4
  <2> QED BY <1>2, <2>1, <2>2, <2>3, <2>4, <2>5, DisplayChange
<1> QED BY <1>3, <1>4, <1>5, <1>6

-----------------------------------------------------------------------------
(* The steps that leave the decision alone.                                *)

\* What the invariant says of one display.
LEMMA Known ==
  ASSUME IInv, NEW d \in Displays
  PROVE  /\ Local(d, disp[d], scene[d], believes[d], avail[d], shown[d])
         /\ Local(d, disp[d], scene[d], believes[d], avail[d], NotShown)
         /\ disp[d] \in DisplayRec(d) /\ avail[d] \in Inputs[d]
         /\ Calm(disp[d], step[d], frame, touched) => Quiet(disp[d], scene[d])
         /\ ~isValid(disp[d]) => Quiet(disp[d], scene[d]) /\ disp[d].state = "PRESENT_DONE"
<1>1. /\ Local(d, disp[d], scene[d], believes[d], avail[d], shown[d])
      /\ Calm(disp[d], step[d], frame, touched) => Quiet(disp[d], scene[d])
  BY DEF IInv, Settlement
<1>2. Local(d, disp[d], scene[d], believes[d], avail[d], NotShown)
  BY <1>1, NotShownWell DEF Local
<1>3. ~isValid(disp[d]) => disp[d].state = "PRESENT_DONE"
  BY DEF IInv, Calls
<1> QED BY <1>1, <1>2, <1>3 DEF Local, LocalTypes, Calm

\* There are two displays.
LEMMA DisplaysAre ==
  /\ "primary" \in Displays /\ "external" \in Displays /\ "primary" # "external"
  /\ \A d \in Displays : d = "primary" \/ d = "external"
  BY DEF Displays

\* A call for a display that has gone.
LEMMA BadDisplayKeeps ==
  ASSUME IInv, NEW d \in Displays, BadDisplay(d)
  PROVE  IInv'
<1>1. /\ step[d] # "idle" /\ ~disp[d].connected /\ step' = [step EXCEPT ![d] = "idle"]
      /\ UNCHANGED <<scene, believes, frame, touched, disp, avail, needValidate, shown>>
  BY DEF BadDisplay
<1>2. d = "external"
  BY <1>1, DisplaysAre DEF IInv, Calls, Pri, isValid
<1>3. /\ step' \in [Displays -> Steps] /\ step'["external"] = "idle"
      /\ step'["primary"] = step["primary"] /\ ~isValid(disp["external"])
  BY <1>1, <1>2, DisplaysAre DEF IInv, Shape, Steps, isValid
<1>4. Shape'
  BY <1>1, <1>3 DEF IInv, Shape
<1>5. Settlement'
  BY <1>1, <1>3, Known, DisplaysAre DEF Settlement, Calm
<1>6. Calls'
  BY <1>1, <1>2, <1>3, DisplaysAre DEF IInv, Calls, Pri, Ext, priStep, extStep
<1>7. Still'
  BY <1>1, <1>3 DEF IInv, Still, Unchanged, Pri, priStep
<1> QED BY <1>4, <1>5, <1>6, <1>7 DEF IInv

\* The external display comes.
LEMMA PlugInKeeps ==
  ASSUME IInv, PlugIn
  PROVE  IInv'
<1> DEFINE on == TRUE
           q == [disp["external"] EXCEPT !.connected = on]
<1>1. /\ ~disp["external"].connected /\ step["external"] = "idle"
      /\ disp' = [disp EXCEPT !["external"] = q]
      /\ UNCHANGED <<scene, believes, step, frame, touched, avail, needValidate, shown>>
  BY DEF PlugIn
<1>2. on \in BOOLEAN
  OBVIOUS
<1> HIDE DEF on
<1>3. /\ q \in DisplayRec("external")
      /\ q.layer = disp["external"].layer /\ q.visible = disp["external"].visible
      /\ q.range = disp["external"].range /\ q.clearNum = disp["external"].clearNum
      /\ q.prevAvail = disp["external"].prevAvail /\ q.state = disp["external"].state
      /\ q.count = disp["external"].count /\ q.gpu = disp["external"].gpu
      /\ q.connected = on /\ q.on = disp["external"].on
  BY <1>2, Known, DisplaysAre DEF DisplayRec
<1> HIDE DEF q
<1>4. Shape
  BY DEF IInv
<1>5. /\ disp' = [c \in Displays |-> disp'[c]]
      /\ disp'["external"] = q /\ disp'["primary"] = disp["primary"]
  BY <1>1, <1>4, OneDisplay, DisplaysAre
<1>6. /\ ~isValid(disp["external"]) /\ ~isValid(q) /\ disp["external"].state = "PRESENT_DONE"
      /\ Quiet(disp["external"], scene["external"])
  <2>1. ~isValid(disp["external"]) /\ ~disp["external"].on
    BY <1>1 DEF isValid, IInv, Calls, Ext
  <2> QED BY <1>3, <2>1, Known, DisplaysAre DEF isValid
<1>7. /\ Local("external", q, scene["external"], believes["external"], avail["external"],
               shown["external"])
      /\ Quiet(q, scene["external"])
  <2>1. /\ Local("external", disp["external"], scene["external"], believes["external"],
                 avail["external"], shown["external"])
        /\ avail["external"] \in Inputs["external"]
    BY Known, DisplaysAre
  <2> QED BY <1>3, <1>6, <2>1, LocalKept, DisplaysAre
<1>8. Shape'
  BY <1>1, <1>4, <1>5, DisplaysAre DEF Shape
<1>9. Settlement'
  BY <1>1, <1>5, <1>7, Known, DisplaysAre DEF Settlement
<1>10. Calls'
  <2>1. \A d \in Displays : /\ disp'[d].count = disp[d].count /\ disp'[d].state = disp[d].state
                            /\ isValid(disp'[d]) <=> isValid(disp[d])
    BY <1>3, <1>5, <1>6, DisplaysAre
  <2>2. disp'["external"].on => disp'["external"].connected
    BY <1>2, <1>3, <1>5 DEF on
  <2> QED BY <1>1, <1>6, <2>1, <2>2, DisplaysAre DEF IInv, Calls, Pri, Ext, priStep, extStep
<1>11. Still'
  BY <1>1, <1>5 DEF IInv, Still, Unchanged, Pri, priStep
<1> QED BY <1>8, <1>9, <1>10, <1>11 DEF IInv

\* The external display goes.
LEMMA PlugOutKeeps ==
  ASSUME IInv, PlugOut
  PROVE  IInv'
<1> DEFINE q == NewDisplay("external", FALSE)
           row == [l \in Layers("external") |-> Absent]
           b == [l \in Layers("external") |-> "none"]
<1>1. /\ disp' = [disp EXCEPT !["external"] = q] /\ scene' = [scene EXCEPT !["external"] = row]
      /\ believes' = [believes EXCEPT !["external"] = b]
      /\ shown' = [shown EXCEPT !["external"] = NotShown]
      /\ UNCHANGED <<step, frame, touched, avail, needValidate>>
  BY DEF PlugOut
<1>2. /\ q.state = "PRESENT_DONE" /\ q.count = 0 /\ ~q.connected /\ ~q.on
  BY DEF NewDisplay
<1>3. /\ Local("external", q, row, b, avail["external"], NotShown) /\ Quiet(q, row)
  <2>1. avail["external"] \in Inputs["external"]
    BY Known, DisplaysAre
  <2> QED BY <2>1, NewLocal, DisplaysAre
<1> HIDE DEF q, row, b
<1>4. Shape
  BY DEF IInv
<1>5. /\ disp'["external"] = q /\ disp'["primary"] = disp["primary"]
      /\ scene'["external"] = row /\ scene'["primary"] = scene["primary"]
      /\ believes'["external"] = b /\ believes'["primary"] = believes["primary"]
      /\ shown'["external"] = NotShown /\ shown'["primary"] = shown["primary"]
  BY <1>1, <1>4, DisplaysAre DEF Shape
<1>6. Shape'
  BY <1>1, <1>4, DisplaysAre DEF Shape
<1>7. Settlement'
  BY <1>1, <1>3, <1>5, Known, DisplaysAre DEF Settlement
<1>8. Calls'
  BY <1>1, <1>2, <1>5, DisplaysAre DEF IInv, Calls, Pri, Ext, priStep, extStep, isValid
<1>9. Still'
  BY <1>1, <1>5 DEF IInv, Still, Unchanged, Pri, priStep
<1> QED BY <1>6, <1>7, <1>8, <1>9 DEF IInv

\* The frame ends.
LEMMA EndFrameKeeps ==
  ASSUME IInv, EndFrame
  PROVE  IInv'
<1>1. /\ frame /\ \A d \in Displays : step[d] = "idle"
      /\ frame' = FALSE /\ touched' = FALSE
      /\ shown' = [d \in Displays |-> NotShown]
      /\ UNCHANGED <<scene, believes, step, disp, avail, needValidate>>
  BY DEF EndFrame
<1>2. Shape'
  BY <1>1 DEF IInv, Shape
<1>3. Settlement'
  <2>1. \A d \in Displays : /\ Quiet(disp[d], scene[d])
                            /\ Local(d, disp[d], scene[d], believes[d], avail[d], NotShown)
    BY <1>1, Known DEF Calm
  <2> QED BY <1>1, <2>1 DEF Settlement
<1>4. Calls'
  BY <1>1, DisplaysAre DEF IInv, Calls, Pri, Ext, priStep, extStep
<1>5. Still'
  BY <1>1, DisplaysAre DEF IInv, Still, Calls, Unchanged, Pri, priStep
<1> QED BY <1>2, <1>3, <1>4, <1>5 DEF IInv

\* displayPresent after validation.
LEMMA PresentKeeps ==
  ASSUME IInv, NEW d \in Displays, Present(d)
  PROVE  IInv'
<1> DEFINE r == disp[d]
           q == Presented(r)
<1>1. /\ step[d] = "present" /\ r.state = "VALIDATE_DONE"
      /\ shown' = [shown EXCEPT ![d] = Shown(r)] /\ disp' = [disp EXCEPT ![d] = q]
      /\ step' = [step EXCEPT ![d] = "idle"]
      /\ UNCHANGED <<scene, believes, frame, touched, avail, needValidate>>
  <2>1. Shape
    BY DEF IInv
  <2> QED BY <2>1 DEF Present, Shape
<1>2. /\ Local(d, q, scene[d], believes[d], avail[d], Shown(r)) /\ Quiet(q, scene[d])
      /\ q.state = "PRESENT_DONE" /\ q.count = (IF r.count = 0 THEN 0 ELSE r.count - 1)
      /\ q.connected = r.connected /\ q.on = r.on /\ q.gpu = r.gpu /\ q.config = r.config
      /\ q.visible = Stacked(UpOf(scene[d])) /\ q.prevAvail = JobNum(avail[d])
  BY <1>1, Known, PresentedLocal
<1> HIDE DEF q
<1>3. Shape
  BY DEF IInv
<1>4. /\ disp' = [c \in Displays |-> disp'[c]]
      /\ \A c \in Displays : /\ disp'[c] = IF c = d THEN q ELSE disp[c]
                             /\ shown'[c] = IF c = d THEN Shown(r) ELSE shown[c]
                             /\ step'[c] = IF c = d THEN "idle" ELSE step[c]
  BY <1>1, <1>3 DEF Shape
<1>5. frame /\ r.count = 1 /\ isValid(r)
  BY <1>1 DEF IInv, Calls
<1>6. q.count = 0 /\ isValid(q)
  BY <1>2, <1>5 DEF isValid
<1>7. Shape'
  BY <1>1, <1>3, <1>4 DEF Shape, Steps
<1>8. Settlement'
  <2>1. \A c \in Displays : c # d =>
          /\ Local(c, disp'[c], scene'[c], believes'[c], avail'[c], shown'[c])
          /\ Calm(disp'[c], step'[c], frame', touched') => Quiet(disp'[c], scene'[c])
    BY <1>1, <1>4, Known
  <2> QED BY <1>1, <1>2, <1>4, <2>1 DEF Settlement
<1>9. Calls'
  <2>1. CASE d = "primary"
    BY <1>1, <1>2, <1>4, <1>5, <1>6, <2>1, DisplaysAre DEF IInv, Calls, Pri, Ext, priStep, extStep
  <2>2. CASE d = "external"
    BY <1>1, <1>2, <1>4, <1>5, <1>6, <2>2, DisplaysAre DEF IInv, Calls, Pri, Ext, priStep, extStep,
       isValid
  <2> QED BY <2>1, <2>2, DisplaysAre
<1>10. Still'
  <2>1. CASE d = "primary"
    <3>1. disp["primary"].gpu \/ ~disp["primary"].config
      BY <1>1, <2>1 DEF IInv, Still, Pri
    <3> QED BY <1>1, <1>2, <1>4, <2>1, <3>1, DisplaysAre DEF Still, Unchanged, Pri, priStep
  <2>2. CASE d = "external"
    BY <1>1, <1>4, <2>2, DisplaysAre DEF IInv, Still, Unchanged, Pri, priStep
  <2> QED BY <2>1, <2>2, DisplaysAre
<1> QED BY <1>7, <1>8, <1>9, <1>10 DEF IInv

\* What SurfaceFlinger tells before a frame in which nothing has changed was
\* told of layers that the GPU composed.
LEMMA ToldOfRange ==
  ASSUME NEW d \in Displays, NEW r, NEW row, NEW b, NEW n, NEW s,
         Local(d, r, row, b, n, s), r.state = "PRESENT_DONE", Quiet(r, row),
         r.visible = Stacked(UpOf(row)), NEW l \in Layers(d), row[l] # Absent,
         b[l] # Requested(row[l]),
         r.layer[l].type # IF Requested(row[l]) = "client" THEN "INVALID" ELSE "UI"
  PROVE  r.range # NoRange
<1>1. PICK i \in Indices(r) : r.visible[i] = l
  BY LocalFacts, VisibleUp DEF Local
<1>2. ~r.layer[l].changed
  BY <1>1 DEF Quiet
<1>3. Matches(r.layer[l].type, row[l]) /\ getCompositionType(r.layer[l].type) = b[l]
  BY <1>2 DEF Local, Answered
<1>4. r.layer[l].type = "INVALID"
  BY <1>3 DEF Matches, Requested, getCompositionType
<1>5. Types(r)[i] = "INVALID"
  BY <1>1, <1>4 DEF Types
<1>6. Divided(r)
  BY DEF Local, Settled
<1> QED BY <1>1, <1>5, <1>6 DEF Divided, InRange

\* SurfaceFlinger writes what it asks for.
LEMMA BeginFrameKeeps ==
  ASSUME IInv, BeginFrame
  PROVE  IInv'
<1> DEFINE T(d) == {l \in Layers(d) : /\ isValid(disp[d]) /\ scene[d][l] # Absent
                                      /\ believes[d][l] # Requested(scene[d][l])}
           q(d) == [disp[d] EXCEPT !.layer = [l \in Layers(d) |->
                     IF l \in T(d)
                     THEN layerStateSetCompositionType(@[l], Requested(scene[d][l]))
                     ELSE @[l]]]
           b(d) == [l \in Layers(d) |->
                     IF l \in T(d) THEN Requested(scene[d][l]) ELSE believes[d][l]]
           call(d) == IF d \notin ValidDisplays THEN "idle"
                      ELSE IF \E l \in Layers(d) : scene[d][l] # Absent /\ b(d)[l] = "client"
                           THEN "validate" ELSE "try"
<1>1. /\ ~frame /\ frame' = TRUE
      /\ believes' = [d \in Displays |-> b(d)] /\ disp' = [d \in Displays |-> q(d)]
      /\ UNCHANGED <<scene, touched, avail, needValidate, shown>>
  BY DEF BeginFrame
<1>2. \A d \in Displays : believes'[d] = b(d) /\ disp'[d] = q(d)
  BY <1>1
<1>3. step' = [d \in Displays |-> call(d)]
  BY <1>2 DEF BeginFrame
<1>4. \A d \in Displays : /\ call(d) \in {"idle", "validate", "try"}
                          /\ call(d) = "idle" <=> ~isValid(disp[d])
  BY DEF ValidDisplays
<1> HIDE DEF call
<1>5. ASSUME NEW d \in Displays
      PROVE  /\ Local(d, disp[d], scene[d], believes[d], avail[d], NotShown)
             /\ disp[d].state = "PRESENT_DONE" /\ disp[d].count = 0
             /\ shown[d] = NotShown /\ step[d] = "idle"
             /\ ~touched => Quiet(disp[d], scene[d])
             /\ ~isValid(disp[d]) => Quiet(disp[d], scene[d])
  BY <1>1, BetweenFrames
<1>6. ASSUME NEW d \in Displays
      PROVE  /\ Local(d, q(d), scene[d], b(d), avail[d], NotShown)
             /\ q(d).state = disp[d].state /\ q(d).count = disp[d].count
             /\ q(d).visible = disp[d].visible /\ q(d).range = disp[d].range
             /\ q(d).prevAvail = disp[d].prevAvail /\ q(d).connected = disp[d].connected
             /\ q(d).on = disp[d].on /\ q(d).gpu = disp[d].gpu /\ q(d).config = disp[d].config
             /\ T(d) = {} => (Quiet(disp[d], scene[d]) => Quiet(q(d), scene[d]))
             /\ \A l \in Layers(d) : q(d).layer[l].changed => disp[d].layer[l].changed \/
                  (l \in T(d) /\ disp[d].layer[l].type #
                      IF Requested(scene[d][l]) = "client" THEN "INVALID" ELSE "UI")
  <2>1. T(d) \in SUBSET UpOf(scene[d])
    BY <1>5, LocalFacts DEF Local
  <2> HIDE DEF T
  <2>2. q(d) = Told(d, disp[d], scene[d], T(d)) /\ b(d) = ToldOf(d, scene[d], believes[d], T(d))
    BY DEF Told, ToldOf
  <2> HIDE DEF q, b
  <2> QED BY <1>5, <2>1, <2>2, ToldLocal
<1>7. ASSUME NEW d \in Displays, ~isValid(disp[d]) PROVE T(d) = {}
  BY <1>7
<1>8. ASSUME NEW d \in Displays, NEW l \in T(d)
      PROVE  l \in Layers(d) /\ scene[d][l] # Absent /\ believes[d][l] # Requested(scene[d][l])
  OBVIOUS
<1> HIDE DEF T, q, b
<1>9. Shape'
  BY <1>1, <1>3, <1>4 DEF IInv, Shape, Steps
<1>10. Settlement'
  <2>1. ASSUME NEW d \in Displays PROVE Calm(q(d), call(d), TRUE, touched) => Quiet(q(d), scene[d])
    BY <1>4, <1>5, <1>6, <1>7 DEF Calm, isValid
  <2> QED BY <1>1, <1>2, <1>3, <1>5, <1>6, <2>1 DEF Settlement
<1>11. \A d \in Displays : /\ disp'[d].state = "PRESENT_DONE" /\ disp'[d].count = 0
                           /\ shown'[d] = NotShown
                           /\ isValid(disp'[d]) <=> isValid(disp[d])
                           /\ disp'[d].on = disp[d].on
                           /\ disp'[d].connected = disp[d].connected
                           /\ step'[d] \in {"idle", "validate", "try"}
                           /\ step'[d] = "idle" <=> ~isValid(disp[d])
  BY <1>1, <1>2, <1>3, <1>4, <1>5, <1>6 DEF isValid
<1>12. Calls'
  <2>1. isValid(disp["primary"])
        /\ (disp["external"].on => disp["external"].connected)
    BY DEF IInv, Calls, Pri, Ext
  <2>2. step'["external"] # "idle" => disp'["external"].on
    BY <1>11, DisplaysAre DEF isValid
  <2> QED BY <1>1, <1>11, <2>1, <2>2, DisplaysAre DEF Calls, Pri, Ext, priStep, extStep
<1>13. Still'
  <2> DEFINE r == disp["primary"]
             row == scene["primary"]
  <2>1. isValid(r) /\ (~touched => Unchanged)
    BY <1>1 DEF IInv, Calls, Still, Pri
  <2>2. step'["primary"] # "idle" /\ disp'["primary"].state = "PRESENT_DONE"
    BY <1>11, <2>1, DisplaysAre
  <2>3. ASSUME ~touched, NEW l \in Layers("primary"), row[l] # Absent,
               disp'["primary"].layer[l].changed
        PROVE  r.range # NoRange
    <3>1. r.visible = Stacked(UpOf(row)) /\ Quiet(r, row)
          /\ Local("primary", r, row, believes["primary"], avail["primary"], NotShown)
          /\ r.state = "PRESENT_DONE"
      BY <1>5, <2>1, <2>3, DisplaysAre DEF Unchanged, Pri
    <3>2. PICK i \in Indices(r) : r.visible[i] = l
      BY <2>3, <3>1, LocalFacts, VisibleUp, DisplaysAre DEF Local
    <3>3. ~r.layer[l].changed
      BY <3>1, <3>2 DEF Quiet
    <3>4. l \in T("primary") /\ r.layer[l].type #
            IF Requested(row[l]) = "client" THEN "INVALID" ELSE "UI"
      BY <1>2, <1>6, <2>3, <3>3, DisplaysAre
    <3>5. believes["primary"][l] # Requested(row[l])
      BY <1>8, <3>4, DisplaysAre
    <3> QED BY <2>3, <3>1, <3>4, <3>5, ToldOfRange, DisplaysAre
  <2>4. ~touched => Unchanged'
    BY <1>1, <1>2, <1>6, <2>1, DisplaysAre DEF Unchanged, Pri
  <2>5. disp'["primary"].range = r.range
    BY <1>2, <1>6, DisplaysAre
  <2> QED BY <1>1, <2>2, <2>3, <2>4, <2>5 DEF Still, Pri, priStep
<1> QED BY <1>9, <1>10, <1>12, <1>13 DEF IInv

-----------------------------------------------------------------------------
(* The first call of a frame.                                              *)

\* Reading the flag of a configuration change leaves all the rest.
LEMMA ConfigWell ==
  ASSUME NEW d \in Displays, NEW r, NEW row, NEW b, NEW n, PreparedWell(d, r, row, b, n),
         NEW c \in BOOLEAN, NEW q, q = [r EXCEPT !.config = c]
  PROVE  /\ PreparedWell(d, q, row, b, n) /\ q.config = c
         /\ q.layer = r.layer /\ q.visible = r.visible /\ q.range = r.range
         /\ q.clearNum = r.clearNum /\ q.prevAvail = r.prevAvail /\ q.state = r.state
         /\ q.count = r.count /\ q.job = r.job /\ q.gpu = r.gpu
         /\ q.connected = r.connected /\ q.on = r.on
<1>1. r \in DisplayRec(d)
  BY DEF PreparedWell, LocalTypes
<1>2. /\ q \in DisplayRec(d) /\ q.config = c
      /\ q.layer = r.layer /\ q.visible = r.visible /\ q.range = r.range
      /\ q.clearNum = r.clearNum /\ q.prevAvail = r.prevAvail /\ q.state = r.state
      /\ q.count = r.count /\ q.job = r.job /\ q.gpu = r.gpu
      /\ q.connected = r.connected /\ q.on = r.on /\ q.prevTypes = r.prevTypes
  BY <1>1 DEF DisplayRec
<1>3. Indices(q) = Indices(r)
  BY <1>2 DEF Indices
<1>4. PreparedWell(d, q, row, b, n)
  BY <1>2, <1>3 DEF PreparedWell, LocalTypes
<1> QED BY <1>2, <1>4

\* Where nothing has changed the display is still divided.
LEMMA NothingChanged ==
  ASSUME NEW d \in Displays, NEW r, NEW row, NEW b, NEW n, NEW s,
         Local(d, r, row, b, n, s), r.state = "PRESENT_DONE",
         NEW q, PreparedWell(d, q, row, b, n), q.visible = r.visible, q.layer = r.layer,
         q.range = r.range, q.clearNum = r.clearNum, r.prevAvail = q.job.num,
         \A i \in Indices(q) : ~q.layer[q.visible[i]].changed
  PROVE  Divided(q) /\ Fits(q, q.job.num) /\ Quiet(q, row)
<1>1. Indices(q) = Indices(r) /\ Types(q) = Types(r) /\ ClearOf(q) = ClearOf(r)
  BY DEF Indices, Types, ClearOf
<1>2. \A i \in Indices(q) : row[q.visible[i]] # Absent
  <2>1. LocalTypes(d, q, row, b, n) /\ q.visible = Stacked(UpOf(row))
    BY DEF PreparedWell
  <2> QED BY <2>1, VisibleUp
<1>3. Quiet(q, row) /\ Quiet(r, row)
  BY <1>1, <1>2 DEF Quiet
<1>4. Alike(q, r)
  BY <1>1 DEF Alike
<1>5. Divided(r) /\ Fits(r, r.prevAvail)
  BY <1>3 DEF Local, Settled
<1> QED BY <1>3, <1>4, <1>5, AlikeDivided

\* What the first call of a frame makes of a valid display.
LEMMA OpenedDisplay ==
  ASSUME NEW d \in Displays, NEW r, NEW row, NEW b, NEW n, NEW s,
         Local(d, r, row, b, n, s), r.state = "PRESENT_DONE", r.count = 0, isValid(r),
         NEW state \in States, NEW q, q = Opening(r, row, n, state)
  PROVE  /\ PreparedWell(d, q, row, b, n) /\ q \in DisplayRec(d)
         /\ q.state = state /\ q.count = 1
         /\ q.connected /\ q.on /\ q.gpu = r.gpu /\ q.config = r.config /\ q.layer = r.layer
         /\ q.range = r.range /\ q.clearNum = r.clearNum /\ q.prevAvail = r.prevAvail
         /\ q.listChanged = (q.visible # r.visible)
         /\ q.job.num = JobNum(n) /\ q.visible = Stacked(UpOf(row))
<1>1. r \in DisplayRec(d) /\ row \in Rows(d) /\ n \in Nat
  BY LocalFacts DEF Local
<1>2. /\ q \in DisplayRec(d)
      /\ q.state = state /\ q.count = r.count + 1
      /\ q.visible = Stacked(UpOf(row)) /\ q.listChanged = (q.visible # r.visible)
      /\ q.job = [num |-> JobNum(n), ovl |-> <<>>]
      /\ q.prevTypes = [i \in Indices(q) |->
             getCompositionType(q.layer[q.visible[i]].type)]
      /\ q.connected = r.connected /\ q.on = r.on /\ q.gpu = r.gpu
      /\ q.config = r.config /\ q.prevAvail = r.prevAvail /\ q.range = r.range
      /\ q.clearNum = r.clearNum /\ q.layer = r.layer
  BY <1>1, OpeningIs
<1>3. PreparedWell(d, q, row, b, n)
  BY OpeningWell
<1> QED BY <1>2, <1>3 DEF isValid

\* The first call of a frame prepares every display.
LEMMA OpenedWell ==
  ASSUME IInv, disp["primary"].state = "PRESENT_DONE",
         step["primary"] \in {"try", "validate"},
         NEW state \in {"PRESENT_DONE", "CHECK_SKIP"},
         NEW R, R = ConfigRead(Opened(state))
  PROVE  /\ DOMAIN R = Displays /\ Opens("primary")
         /\ \A d \in Displays : isValid(disp[d]) =>
              /\ PreparedWell(d, R[d], scene[d], believes[d], avail[d])
              /\ R[d].state = state /\ R[d].count = 1
              /\ R[d].connected /\ R[d].on /\ R[d].gpu = disp[d].gpu
         /\ \A d \in Displays : ~isValid(disp[d]) => R[d] = disp[d]
         /\ R["primary"].gpu \/ ~R["primary"].config
         /\ \A call \in BOOLEAN : checkSkipValidate(Opened(state), call) =>
              /\ ~isValid(disp["external"]) /\ ~R["primary"].gpu
              /\ Divided(R["primary"]) /\ Fits(R["primary"], R["primary"].job.num)
              /\ Quiet(R["primary"], scene["primary"])
<1> DEFINE D == Opened(state)
           r == disp["primary"]
           q == D["primary"]
           row == scene["primary"]
           b == believes["primary"]
           n == avail["primary"]
           c == q.config /\ q.gpu
<1>1. state \in States /\ isValid(r) /\ r.count = 0
  BY DisplaysAre DEF IInv, Calls, Pri, States
<1>2. \A d \in Displays : isValid(disp[d]) =>
         disp[d].state = "PRESENT_DONE" /\ disp[d].count = 0
  <2>1. frame
    BY DisplaysAre DEF IInv, Calls
  <2>2. isValid(disp["external"]) => disp["external"].state = "PRESENT_DONE"
    BY <2>1 DEF IInv, Calls, Pri, Ext, priStep
  <2> QED BY <1>1, <2>2, DisplaysAre DEF IInv, Calls
<1>3. /\ D = [d \in Displays |-> IF isValid(disp[d])
                THEN Opening(disp[d], scene[d], avail[d], state) ELSE disp[d]]
  BY DEF Opened, Opening, ValidDisplays
<1>4. \A d \in Displays : D[d] = IF isValid(disp[d])
                THEN Opening(disp[d], scene[d], avail[d], state) ELSE disp[d]
  BY <1>3
<1>5. R = [D EXCEPT !["primary"].config = @ /\ isForceGpuCompose(D["primary"])]
  BY DEF ConfigRead
<1> HIDE DEF D
<1>6. ASSUME NEW d \in Displays, isValid(disp[d])
      PROVE  /\ PreparedWell(d, D[d], scene[d], believes[d], avail[d])
             /\ D[d] \in DisplayRec(d) /\ D[d].state = state /\ D[d].count = 1
             /\ D[d].connected /\ D[d].on /\ D[d].gpu = disp[d].gpu
             /\ D[d].config = disp[d].config /\ D[d].layer = disp[d].layer
             /\ D[d].range = disp[d].range /\ D[d].clearNum = disp[d].clearNum
             /\ D[d].prevAvail = disp[d].prevAvail
             /\ D[d].listChanged = (D[d].visible # disp[d].visible)
             /\ D[d].job.num = JobNum(avail[d])
             /\ D[d].visible = Stacked(UpOf(scene[d]))
  <2>1. /\ Local(d, disp[d], scene[d], believes[d], avail[d], shown[d])
        /\ disp[d].state = "PRESENT_DONE" /\ disp[d].count = 0 /\ state \in States
    BY <1>1, <1>2, <1>6, Known
  <2>2. D[d] = Opening(disp[d], scene[d], avail[d], state)
    BY <1>4, <1>6
  <2> QED BY <1>6, <2>1, <2>2, OpenedDisplay
<1>7. /\ PreparedWell("primary", q, row, b, n) /\ q \in DisplayRec("primary")
      /\ DOMAIN D = Displays
  BY <1>1, <1>3, <1>6, DisplaysAre DEF D
<1>8. c \in BOOLEAN /\ R = [D EXCEPT !["primary"] = [q EXCEPT !.config = c]]
  BY <1>5, <1>7, DisplaysAre DEF isForceGpuCompose
<1>9. /\ DOMAIN R = Displays /\ R["primary"] = [q EXCEPT !.config = c]
      /\ \A d \in Displays : d # "primary" => R[d] = D[d]
  BY <1>7, <1>8, DisplaysAre
<1>10. c => q.gpu
  OBVIOUS
<1> HIDE DEF c
<1>11. /\ PreparedWell("primary", R["primary"], row, b, n) /\ R["primary"].config = c
       /\ R["primary"].layer = q.layer /\ R["primary"].visible = q.visible
       /\ R["primary"].range = q.range /\ R["primary"].clearNum = q.clearNum
       /\ R["primary"].state = q.state /\ R["primary"].count = q.count
       /\ R["primary"].job = q.job /\ R["primary"].gpu = q.gpu
       /\ R["primary"].connected = q.connected /\ R["primary"].on = q.on
  BY <1>7, <1>8, <1>9, ConfigWell, DisplaysAre
<1>12. ASSUME NEW d \in Displays, isValid(disp[d])
       PROVE  /\ PreparedWell(d, R[d], scene[d], believes[d], avail[d])
              /\ R[d].state = state /\ R[d].count = 1
              /\ R[d].connected /\ R[d].on /\ R[d].gpu = disp[d].gpu
  <2>1. CASE d = "primary"
    BY <1>6, <1>11, <1>12, <2>1
  <2>2. CASE d # "primary"
    <3>1. R[d] = D[d]
      BY <1>9, <2>2
    <3> QED BY <1>6, <1>12, <3>1
  <2> QED BY <2>1, <2>2
<1>13. \A d \in Displays : ~isValid(disp[d]) => R[d] = disp[d]
  BY <1>1, <1>4, <1>9
<1>14. R["primary"].gpu \/ ~R["primary"].config
  BY <1>10, <1>11
<1>15. ASSUME NEW call \in BOOLEAN
       PROVE  checkSkipValidate(D, call) <=>
              /\ ~isValid(disp["external"]) /\ ~r.gpu /\ ~r.config
              /\ \A i \in Indices(q) : /\ ~q.layer[q.visible[i]].changed
                                       /\ call \/ Types(q)[i] # "INVALID"
              /\ q.prevAvail = q.job.num /\ ~q.listChanged
  <2>1. isValid(D["external"]) <=> isValid(disp["external"])
    BY <1>4, <1>6, DisplaysAre DEF isValid
  <2>2. q.gpu = r.gpu /\ q.config = r.config
    BY <1>1, <1>6, DisplaysAre
  <2>3. checkSkipValidate(D, call) <=>
              /\ ~isValid(D["external"]) /\ ~q.gpu /\ ~q.config
              /\ \A i \in Indices(q) : /\ ~q.layer[q.visible[i]].changed
                                       /\ call \/ Types(q)[i] # "INVALID"
              /\ q.prevAvail = q.job.num /\ ~q.listChanged
    BY DEF checkSkipValidate, isForceGpuCompose
  <2> QED BY <2>1, <2>2, <2>3
<1>16. ASSUME NEW call \in BOOLEAN, checkSkipValidate(D, call)
       PROVE  /\ ~isValid(disp["external"]) /\ ~R["primary"].gpu
              /\ Divided(R["primary"]) /\ Fits(R["primary"], R["primary"].job.num)
              /\ Quiet(R["primary"], row)
  <2>1. /\ ~isValid(disp["external"]) /\ ~r.gpu
        /\ \A i \in Indices(q) : ~q.layer[q.visible[i]].changed
        /\ q.prevAvail = q.job.num /\ ~q.listChanged
    BY <1>15, <1>16
  <2>2. /\ q.visible = r.visible /\ q.layer = r.layer /\ q.range = r.range
        /\ q.clearNum = r.clearNum /\ q.prevAvail = r.prevAvail /\ q.gpu = r.gpu
    BY <1>1, <1>6, <2>1, DisplaysAre
  <2>3. Local("primary", r, row, b, n, NotShown)
    BY Known, DisplaysAre
  <2>4. \A i \in Indices(R["primary"]) :
           ~R["primary"].layer[R["primary"].visible[i]].changed
    BY <1>11, <2>1 DEF Indices
  <2>5. /\ R["primary"].visible = r.visible /\ R["primary"].layer = r.layer
        /\ R["primary"].range = r.range /\ R["primary"].clearNum = r.clearNum
        /\ r.prevAvail = R["primary"].job.num /\ ~R["primary"].gpu
    BY <1>11, <2>1, <2>2
  <2> HIDE DEF r, row, b, n, q
  <2>6. Divided(R["primary"]) /\ Fits(R["primary"], R["primary"].job.num)
        /\ Quiet(R["primary"], row)
    <3>1. r.state = "PRESENT_DONE"
      BY DEF r
    <3> QED BY <1>11, <2>3, <2>4, <2>5, <3>1, NothingChanged, DisplaysAre
  <2> QED BY <2>1, <2>5, <2>6
<1>17. Opens("primary")
  BY <1>1 DEF Opens
<1> QED BY <1>9, <1>12, <1>13, <1>14, <1>16, <1>17 DEF D

-----------------------------------------------------------------------------
(* Presenting before validation.                                           *)

\* Before the primary display's decision nothing is shown, and no valid
\* display has been through it.
LEMMA BeforeDecision ==
  ASSUME IInv, step["primary"] \in {"try", "validate"}
  PROVE  /\ frame /\ isValid(disp["primary"])
         /\ \A d \in Displays :
              /\ shown[d] = NotShown
              /\ isValid(disp[d]) => /\ step[d] \in {"try", "validate"}
                                     /\ disp[d].state = disp["primary"].state
<1>1. frame /\ isValid(disp["primary"]) /\ shown["primary"] = NotShown
      /\ shown["external"] = NotShown
  BY DisplaysAre DEF IInv, Calls, Pri, priStep
<1>2. isValid(disp["external"]) => /\ step["external"] \in {"try", "validate"}
                                   /\ disp["external"].state = disp["primary"].state
  BY <1>1 DEF IInv, Calls, Pri, Ext, priStep, extStep
<1> QED BY <1>1, <1>2, DisplaysAre

\* The external display has been through the primary one's decision when its
\* first call comes.
LEMMA ExternalCall ==
  ASSUME IInv, step["external"] \in {"try", "validate"}, Turn("external"),
         disp["external"].connected
  PROVE  /\ isValid(disp["external"]) /\ disp["external"].state = "VALIDATE"
         /\ needValidate = TRUE /\ frame /\ ~Opens("external")
         /\ step["primary"] \in {"present", "idle"}
<1>1. frame /\ isValid(disp["external"]) /\ step["primary"] \in {"present", "idle"}
  BY DisplaysAre DEF IInv, Calls, Ext, extStep, Turn, isValid
<1>2. disp["external"].state = "VALIDATE"
  BY <1>1 DEF IInv, Calls, Ext, extStep, priStep
<1>3. needValidate
  BY <1>1, <1>2 DEF IInv, Calls, Ext
<1>4. needValidate \in BOOLEAN
  BY DEF IInv, Shape
<1> QED BY <1>1, <1>2, <1>3, <1>4 DEF Opens

\* The external display is refused: it was validated with the primary one.
LEMMA ExternalTryKeeps ==
  ASSUME IInv, PresentFirst("external")
  PROVE  IInv'
<1>1. /\ step["external"] = "try" /\ Turn("external") /\ disp["external"].connected
  BY DEF PresentFirst
<1>2. /\ isValid(disp["external"]) /\ disp["external"].state = "VALIDATE"
      /\ needValidate = TRUE /\ frame /\ ~Opens("external")
  BY <1>1, ExternalCall
<1>3. /\ needValidate' = TRUE /\ disp' = disp
      /\ step' = [step EXCEPT !["external"] = "validate"]
      /\ UNCHANGED <<scene, believes, frame, touched, avail, shown>>
  BY <1>2 DEF PresentFirst
<1>4. /\ step' \in [Displays -> Steps] /\ step'["external"] = "validate"
      /\ step'["primary"] = step["primary"]
  BY <1>3, DisplaysAre DEF IInv, Shape, Steps
<1>5. Shape'
  BY <1>3, <1>4 DEF IInv, Shape
<1>6. Settlement'
  BY <1>1, <1>3, <1>4, Known, DisplaysAre DEF Settlement, Calm
<1>7. Calls'
  BY <1>1, <1>2, <1>3, <1>4, DisplaysAre DEF IInv, Calls, Pri, Ext, priStep, extStep
<1>8. Still'
  BY <1>3, <1>4 DEF IInv, Still, Unchanged, Pri, priStep
<1> QED BY <1>5, <1>6, <1>7, <1>8 DEF IInv

\* The primary display is to be validated first.
LEMMA RefusedKeeps ==
  ASSUME IInv, step["primary"] = "try", disp["primary"].state = "PRESENT_DONE",
         needValidate' = TRUE, disp' = ConfigRead(Opened("CHECK_SKIP")),
         step' = [step EXCEPT !["primary"] = "validate"],
         UNCHANGED <<scene, believes, frame, touched, avail, shown>>
  PROVE  IInv'
<1>1. /\ DOMAIN disp' = Displays
      /\ \A d \in Displays : isValid(disp[d]) =>
           /\ PreparedWell(d, disp'[d], scene[d], believes[d], avail[d])
           /\ disp'[d].state = "CHECK_SKIP" /\ disp'[d].count = 1
           /\ disp'[d].connected /\ disp'[d].on
      /\ \A d \in Displays : ~isValid(disp[d]) => disp'[d] = disp[d]
      /\ disp'["primary"].gpu \/ ~disp'["primary"].config
      /\ disp' = [d \in Displays |-> disp'[d]]
  <2> DEFINE state == "CHECK_SKIP"
             R == ConfigRead(Opened(state))
  <2>1. state \in {"PRESENT_DONE", "CHECK_SKIP"} /\ step["primary"] \in {"try", "validate"}
    OBVIOUS
  <2>2. disp' = R
    OBVIOUS
  <2>3. R = [d \in Displays |-> R[d]]
    BY DEF ConfigRead, Opened
  <2> HIDE DEF R
  <2>4. R = ConfigRead(Opened(state))
    BY DEF R
  <2> HIDE DEF state
  <2>5. /\ DOMAIN R = Displays
        /\ \A d \in Displays : isValid(disp[d]) =>
              /\ PreparedWell(d, R[d], scene[d], believes[d], avail[d])
              /\ R[d].state = state /\ R[d].count = 1
              /\ R[d].connected /\ R[d].on
        /\ \A d \in Displays : ~isValid(disp[d]) => R[d] = disp[d]
        /\ R["primary"].gpu \/ ~R["primary"].config
    BY <2>1, <2>4, OpenedWell
  <2> QED BY <2>2, <2>3, <2>5 DEF state
<1>2. /\ frame /\ isValid(disp["primary"])
      /\ \A d \in Displays :
           /\ shown[d] = NotShown
           /\ isValid(disp[d]) => step[d] \in {"try", "validate"}
  BY BeforeDecision
<1>3. /\ step' \in [Displays -> Steps] /\ step'["primary"] = "validate"
      /\ step'["external"] = step["external"]
  BY DisplaysAre DEF IInv, Shape, Steps
<1>4. \A d \in Displays : /\ isValid(disp'[d]) <=> isValid(disp[d])
                          /\ isValid(disp[d]) => step'[d] \in {"try", "validate"}
  BY <1>1, <1>2, <1>3, DisplaysAre DEF isValid
<1>5. Shape'
  BY <1>1, <1>3 DEF IInv, Shape
<1>6. Settlement'
  <2>1. ASSUME NEW d \in Displays, isValid(disp[d])
        PROVE  Local(d, disp'[d], scene[d], believes[d], avail[d], NotShown)
    BY <1>1, <2>1, RefusedLocal
  <2>2. \A d \in Displays : ~isValid(disp[d]) =>
          /\ Local(d, disp'[d], scene[d], believes[d], avail[d], NotShown)
          /\ Quiet(disp'[d], scene[d])
    BY <1>1, Known
  <2>3. \A d \in Displays : Local(d, disp'[d], scene[d], believes[d], avail[d], shown[d])
    BY <1>2, <2>1, <2>2
  <2>4. \A d \in Displays : isValid(disp[d]) => ~Calm(disp'[d], step'[d], frame, touched)
    BY <1>2, <1>4 DEF Calm
  <2> QED BY <2>2, <2>3, <2>4 DEF Settlement
<1>7. Calls'
  <2>1. \A d \in Displays : ~isValid(disp[d]) =>
           disp'[d].state = "PRESENT_DONE" /\ disp'[d].count = 0
    BY <1>1 DEF IInv, Calls
  <2>2. /\ step["external"] # "idle" /\ disp'["external"].connected => disp'["external"].on
        /\ disp'["external"].on => disp'["external"].connected
    BY <1>1, DisplaysAre DEF IInv, Calls, Ext, extStep
  <2>3. step["external"] = "present" => FALSE
    BY DEF IInv, Calls, extStep, priStep
  <2> QED BY <1>1, <1>2, <1>3, <1>4, <2>1, <2>2, <2>3, DisplaysAre
          DEF IInv, Calls, Pri, Ext, priStep, extStep
<1>8. Still'
  BY <1>1, <1>2, <1>3 DEF Still, Pri, priStep
<1> QED BY <1>5, <1>6, <1>7, <1>8 DEF IInv

\* The primary display is presented as it was validated last.
LEMMA SkippedKeeps ==
  ASSUME IInv, step["primary"] = "try", disp["primary"].state = "PRESENT_DONE",
         checkSkipValidate(Opened("CHECK_SKIP"), FALSE),
         NEW R, R = ConfigRead(Opened("CHECK_SKIP")),
         NEW done, done = [d \in Displays |-> IF d \in ValidDisplays
                             THEN [HrtRun(R[d]) EXCEPT !.state = "VALIDATE_DONE"]
                             ELSE HrtRun(R[d])],
         needValidate' = FALSE,
         shown' = [shown EXCEPT !["primary"] = Shown(done["primary"])],
         disp' = [done EXCEPT !["primary"] = Presented(@)],
         step' = [step EXCEPT !["primary"] = "idle"],
         UNCHANGED <<scene, believes, frame, touched, avail>>
  PROVE  IInv'
<1> DEFINE r == R["primary"]
           h == done["primary"]
           q == Presented(h)
           row == scene["primary"]
           b == believes["primary"]
           n == avail["primary"]
<1>1. /\ DOMAIN R = Displays
      /\ \A d \in Displays : isValid(disp[d]) =>
            /\ PreparedWell(d, R[d], scene[d], believes[d], avail[d])
            /\ R[d].state = "CHECK_SKIP" /\ R[d].count = 1 /\ R[d].connected /\ R[d].on
      /\ \A d \in Displays : ~isValid(disp[d]) => R[d] = disp[d]
      /\ R["primary"].gpu \/ ~R["primary"].config
      /\ ~isValid(disp["external"]) /\ ~R["primary"].gpu
      /\ Divided(R["primary"]) /\ Fits(R["primary"], R["primary"].job.num)
      /\ Quiet(R["primary"], scene["primary"])
  <2> DEFINE state == "CHECK_SKIP"
             call == FALSE
  <2>1. /\ state \in {"PRESENT_DONE", "CHECK_SKIP"} /\ step["primary"] \in {"try", "validate"}
        /\ call \in BOOLEAN /\ R = ConfigRead(Opened(state))
        /\ checkSkipValidate(Opened(state), call)
    OBVIOUS
  <2> HIDE DEF state, call
  <2>2. /\ DOMAIN R = Displays
        /\ \A d \in Displays : isValid(disp[d]) =>
              /\ PreparedWell(d, R[d], scene[d], believes[d], avail[d])
              /\ R[d].state = state /\ R[d].count = 1 /\ R[d].connected /\ R[d].on
        /\ \A d \in Displays : ~isValid(disp[d]) => R[d] = disp[d]
        /\ R["primary"].gpu \/ ~R["primary"].config
        /\ \A c \in BOOLEAN : checkSkipValidate(Opened(state), c) =>
              /\ ~isValid(disp["external"]) /\ ~R["primary"].gpu
              /\ Divided(R["primary"]) /\ Fits(R["primary"], R["primary"].job.num)
              /\ Quiet(R["primary"], scene["primary"])
    BY <2>1, OpenedWell
  <2> QED BY <2>1, <2>2 DEF state
<1>2. /\ frame /\ isValid(disp["primary"])
      /\ \A d \in Displays : shown[d] = NotShown
  BY BeforeDecision
<1>3. /\ h = [HrtRun(r) EXCEPT !.state = "VALIDATE_DONE"]
      /\ done["external"] = HrtRun(disp["external"])
  BY <1>1, <1>2, DisplaysAre DEF ValidDisplays
<1>4. done["external"] = disp["external"]
  BY <1>1, <1>3, Known, OffAgain, DisplaysAre
<1>5. /\ DOMAIN done = Displays
      /\ disp'["primary"] = q /\ disp'["external"] = done["external"]
      /\ disp' = [d \in Displays |-> disp'[d]]
  <2>1. DOMAIN done = Displays
    OBVIOUS
  <2> HIDE DEF h
  <2> QED BY <2>1, DisplaysAre DEF h
<1>6. PreparedWell("primary", r, row, b, n) /\ isValid(r) /\ r.count = 1
  BY <1>1, <1>2, DisplaysAre DEF isValid
<1> HIDE DEF h
<1>7. /\ Local("primary", h, row, b, n, NotShown) /\ h.state = "VALIDATE_DONE"
      /\ SameState(h, r)
  <2> DEFINE state == "VALIDATE_DONE"
  <2>1. state \in {"VALIDATE", "VALIDATE_DONE"} /\ h = [HrtRun(r) EXCEPT !.state = state]
    BY <1>3
  <2>2. Divided(r) /\ Fits(r, r.job.num) /\ ~r.gpu /\ Quiet(r, row)
    BY <1>1
  <2> HIDE DEF state, r, row, b, n
  <2>3. Local("primary", h, row, b, n, NotShown) /\ h.state = state /\ SameState(h, r)
    BY <1>6, <2>1, <2>2, SkippedLocal, DisplaysAre
  <2> QED BY <2>3 DEF state
<1> HIDE DEF q
<1>8. /\ Local("primary", q, row, b, n, Shown(h)) /\ Quiet(q, row)
      /\ q.state = "PRESENT_DONE" /\ q.count = (IF h.count = 0 THEN 0 ELSE h.count - 1)
      /\ q.connected = h.connected /\ q.on = h.on /\ q.gpu = h.gpu /\ q.config = h.config
      /\ q.visible = Stacked(UpOf(row)) /\ q.prevAvail = JobNum(n)
  <2>1. q = Presented(h)
    BY DEF q
  <2> HIDE DEF row, b, n
  <2> QED BY <1>7, <2>1, PresentedLocal, DisplaysAre
<1>9. q.count = 0 /\ isValid(q) /\ (q.gpu \/ ~q.config)
  BY <1>1, <1>6, <1>7, <1>8 DEF SameState, isValid
<1>10. /\ step' \in [Displays -> Steps] /\ step'["primary"] = "idle"
       /\ step'["external"] = step["external"]
       /\ shown' = [d \in Displays |-> shown'[d]] /\ DOMAIN shown' = Displays
       /\ shown'["primary"] = Shown(h) /\ shown'["external"] = NotShown
  BY <1>2, DisplaysAre DEF IInv, Shape, Steps, h
<1>11. Shape'
  BY <1>5, <1>10 DEF IInv, Shape
<1>12. Settlement'
  <2>1. /\ Local("external", disp["external"], scene["external"], believes["external"],
                 avail["external"], NotShown)
        /\ Quiet(disp["external"], scene["external"])
    BY <1>1, Known, DisplaysAre
  <2>2. Local("primary", q, row, b, n, Shown(h)) /\ Quiet(q, row)
    BY <1>8
  <2> QED BY <1>4, <1>5, <1>10, <2>1, <2>2, DisplaysAre DEF Settlement
<1>13. Calls'
  <2>1. disp'["external"] = disp["external"]
    BY <1>4, <1>5
  <2>2. step["external"] # "present"
    BY DEF IInv, Calls, extStep, priStep
  <2> QED BY <1>1, <1>2, <1>5, <1>8, <1>9, <1>10, <2>1, <2>2, DisplaysAre
          DEF IInv, Calls, Pri, Ext, priStep, extStep
<1>14. Still'
  BY <1>2, <1>5, <1>8, <1>9, <1>10 DEF Still, Unchanged, Pri, priStep
<1> QED BY <1>11, <1>12, <1>13, <1>14 DEF IInv

\* displayPresent before validation.
LEMMA PresentFirstKeeps ==
  ASSUME IInv, NEW d \in Displays, PresentFirst(d)
  PROVE  IInv'
<1>1. CASE d = "external"
  BY <1>1, ExternalTryKeeps
<1>2. CASE d = "primary"
  <2>1. step["primary"] = "try" /\ disp["primary"].state = "PRESENT_DONE"
    BY <1>2 DEF PresentFirst, IInv, Calls, Pri, priStep
  <2>2. Opens("primary")
    BY <2>1, DisplaysAre DEF Opens, IInv, Calls
  <2>3. CASE checkSkipValidate(Opened("CHECK_SKIP"), FALSE)
    <3> DEFINE R == ConfigRead(Opened("CHECK_SKIP"))
               done == [c \in Displays |-> IF c \in ValidDisplays
                             THEN [HrtRun(R[c]) EXCEPT !.state = "VALIDATE_DONE"]
                             ELSE HrtRun(R[c])]
    <3>1. /\ needValidate' = FALSE
          /\ shown' = [shown EXCEPT !["primary"] = Shown(done["primary"])]
          /\ disp' = [done EXCEPT !["primary"] = Presented(@)]
          /\ step' = [step EXCEPT !["primary"] = "idle"]
          /\ UNCHANGED <<scene, believes, frame, touched, avail>>
      BY <1>2, <2>2, <2>3 DEF PresentFirst
    <3> HIDE DEF R
    <3>2. R = ConfigRead(Opened("CHECK_SKIP"))
      BY DEF R
    <3>3. done = [c \in Displays |-> IF c \in ValidDisplays
                             THEN [HrtRun(R[c]) EXCEPT !.state = "VALIDATE_DONE"]
                             ELSE HrtRun(R[c])]
      OBVIOUS
    <3> HIDE DEF done
    <3> QED BY <2>1, <2>3, <3>1, <3>2, <3>3, SkippedKeeps
  <2>4. CASE ~checkSkipValidate(Opened("CHECK_SKIP"), FALSE)
    <3>1. /\ needValidate' = TRUE /\ disp' = ConfigRead(Opened("CHECK_SKIP"))
          /\ step' = [step EXCEPT !["primary"] = "validate"]
          /\ UNCHANGED <<scene, believes, frame, touched, avail, shown>>
      BY <1>2, <2>2, <2>4 DEF PresentFirst
    <3> QED BY <2>1, <3>1, RefusedKeeps
  <2> QED BY <2>3, <2>4
<1> QED BY <1>1, <1>2, DisplaysAre

-----------------------------------------------------------------------------
(* Validation.                                                             *)

\* What a validation call may make of the displays, D.
Decision(d, D, need) ==
    /\ DOMAIN D = Displays /\ need \in BOOLEAN
    /\ D[d].state = "VALIDATE" /\ isValid(disp[d])
    /\ \A c \in Displays : isValid(disp[c]) =>
         /\ Local(c, D[c], scene[c], believes[c], avail[c], NotShown)
         /\ D[c].state = "VALIDATE" \/ (c # d /\ D[c] = disp[c])
         /\ D[c].count = (IF D[c].state = "PRESENT_DONE" THEN 0 ELSE 1)
         /\ D[c].connected /\ D[c].on
    /\ \A c \in Displays : ~isValid(disp[c]) => D[c] = disp[c]
    /\ D["primary"].state # "PRESENT_DONE" => D["primary"].gpu \/ ~D["primary"].config
    /\ d = "primary" =>
         (isValid(disp["external"]) => need /\ D["external"].state = "VALIDATE")
    /\ d = "external" => /\ D["primary"] = disp["primary"] /\ need = TRUE
                         /\ step["primary"] \in {"present", "idle"}
                         /\ needValidate = TRUE

Accepting(d, D, need) ==
    /\ needValidate' = need /\ disp' = [D EXCEPT ![d] = Accepted(d, @)]
    /\ believes' = [believes EXCEPT ![d] = AcceptedOf(d, D[d], @)]
    /\ step' = [step EXCEPT ![d] = "present"]
    /\ UNCHANGED <<scene, frame, touched, avail, shown>>

\* A decision that is accepted keeps the invariant.
LEMMA AcceptingKeeps ==
  ASSUME IInv, NEW d \in Displays, step[d] = "validate",
         NEW D, NEW need, Decision(d, D, need), Accepting(d, D, need)
  PROVE  IInv'
<1> DEFINE r == D[d]
           q == Accepted(d, r)
           b == AcceptedOf(d, r, believes[d])
<1>1. Local(d, r, scene[d], believes[d], avail[d], NotShown) /\ r.state = "VALIDATE"
      /\ r.count = 1 /\ r.connected /\ r.on /\ isValid(disp[d])
  BY DEF Decision
<1>2. /\ DOMAIN D = Displays /\ need \in BOOLEAN
      /\ needValidate' = need /\ disp' = [D EXCEPT ![d] = Accepted(d, r)]
      /\ believes' = [believes EXCEPT ![d] = b]
      /\ step' = [step EXCEPT ![d] = "present"]
      /\ UNCHANGED <<scene, frame, touched, avail, shown>>
  BY DEF Decision, Accepting
<1>3. /\ Local(d, q, scene[d], b, avail[d], NotShown) /\ q.state = "VALIDATE_DONE"
      /\ q.count = r.count /\ q.connected = r.connected /\ q.on = r.on
      /\ q.gpu = r.gpu /\ q.config = r.config
  <2> DEFINE x == scene[d]
             y == believes[d]
             m == avail[d]
  <2>1. q = Accepted(d, r) /\ b = AcceptedOf(d, r, y) /\ Local(d, r, x, y, m, NotShown)
        /\ r.state = "VALIDATE"
    BY <1>1
  <2> HIDE DEF r, q, b, x, y, m
  <2>2. /\ Local(d, q, x, b, m, NotShown) /\ q.state = "VALIDATE_DONE"
        /\ q.count = r.count /\ q.connected = r.connected /\ q.on = r.on
        /\ q.gpu = r.gpu /\ q.config = r.config
    BY <2>1, AcceptedLocal
  <2> QED BY <2>2 DEF x, m
<1>4. /\ frame /\ \A c \in Displays : shown[c] = shown'[c]
      /\ shown[d] = NotShown
  BY <1>2 DEF IInv, Calls
<1>5. /\ DOMAIN disp' = Displays /\ disp'[d] = q
      /\ \A c \in Displays : c # d => disp'[c] = D[c]
      /\ disp' = [c \in Displays |-> disp'[c]]
  BY <1>2
<1>6. /\ DOMAIN believes' = Displays /\ believes'[d] = b
      /\ \A c \in Displays : c # d => believes'[c] = believes[c]
      /\ believes' = [c \in Displays |-> believes'[c]]
  <2>1. DOMAIN believes = Displays
    BY DEF IInv, Shape
  <2> QED BY <1>2, <2>1
<1> HIDE DEF q, b
<1>7. /\ step' \in [Displays -> Steps] /\ step'[d] = "present"
      /\ \A c \in Displays : c # d => step'[c] = step[c]
  BY <1>2 DEF IInv, Shape, Steps
<1>8. isValid(q) /\ \A c \in Displays : isValid(disp'[c]) <=> isValid(disp[c])
  BY <1>1, <1>3, <1>5 DEF isValid, Decision
<1>9. Shape'
  BY <1>2, <1>5, <1>6, <1>7 DEF IInv, Shape
<1>10. Settlement'
  <2>1. Local(d, disp'[d], scene[d], believes'[d], avail[d], shown[d])
    BY <1>3, <1>4, <1>5, <1>6
  <2>2. ~Calm(disp'[d], step'[d], frame, touched)
    BY <1>4, <1>5, <1>7, <1>8 DEF Calm
  <2>3. ASSUME NEW c \in Displays, c # d
        PROVE  /\ Local(c, disp'[c], scene[c], believes'[c], avail[c], shown[c])
               /\ Calm(disp'[c], step'[c], frame, touched) => Quiet(disp'[c], scene[c])
    <3>1. CASE ~isValid(disp[c]) \/ D[c] = disp[c]
      <4>1. disp'[c] = disp[c] /\ believes'[c] = believes[c] /\ step'[c] = step[c]
        BY <1>5, <1>6, <1>7, <2>3, <3>1 DEF Decision
      <4> QED BY <4>1, Known
    <3>2. CASE isValid(disp[c]) /\ D[c] # disp[c]
      <4>1. d = "primary" /\ c = "external"
        BY <2>3, <3>2, DisplaysAre DEF Decision
      <4>2. /\ step[c] \in {"try", "validate"} /\ shown[c] = NotShown
        BY <3>2, <4>1, BeforeDecision
      <4>3. /\ disp'[c] = D[c] /\ believes'[c] = believes[c] /\ step'[c] = step[c]
        BY <1>5, <1>6, <1>7, <2>3
      <4> QED BY <1>4, <1>8, <3>2, <4>2, <4>3 DEF Calm, Decision
    <3> QED BY <3>1, <3>2
  <2> QED BY <1>2, <2>1, <2>2, <2>3 DEF Settlement
<1>11. Calls'
  <2>1. CASE d = "primary"
    <3>1. /\ \A c \in Displays : shown[c] = NotShown
          /\ isValid(disp["external"]) => step["external"] \in {"try", "validate"}
      BY <2>1, BeforeDecision, DisplaysAre
    <3>2. /\ disp'["external"] = D["external"] /\ step'["external"] = step["external"]
          /\ disp'["primary"] = q /\ step'["primary"] = "present"
      BY <1>5, <1>7, <2>1, DisplaysAre
    <3>3. isValid(disp["external"]) =>
             /\ D["external"].state = "VALIDATE" /\ D["external"].count = 1 /\ need
             /\ D["external"].connected /\ D["external"].on
      BY <2>1, DisplaysAre DEF Decision
    <3>4. ~isValid(disp["external"]) =>
             /\ D["external"] = disp["external"] /\ disp["external"].state = "PRESENT_DONE"
             /\ disp["external"].count = 0
      BY DisplaysAre DEF IInv, Calls, Decision
    <3>5. /\ step["external"] # "idle" /\ D["external"].connected => D["external"].on
          /\ D["external"].on => D["external"].connected
      BY <3>3, <3>4 DEF IInv, Calls, Ext, extStep
    <3>6. step["external"] # "present"
      BY <2>1 DEF IInv, Calls, extStep, priStep
    <3>7. /\ frame' = TRUE /\ \A c \in Displays : shown'[c] = NotShown
          /\ isValid(disp'["primary"]) /\ disp'["primary"].state = "VALIDATE_DONE"
          /\ disp'["primary"].count = 1
      <4>1. frame = TRUE
        BY <1>4 DEF IInv, Shape
      <4> QED BY <1>2, <1>1, <1>3, <1>4, <1>8, <3>1, <3>2, <4>1
    <3>8. /\ step'["external"] = step["external"] /\ step["external"] # "present"
          /\ disp'["external"].state \in {"PRESENT_DONE", "VALIDATE"}
          /\ disp'["external"].count = IF disp'["external"].state = "PRESENT_DONE" THEN 0 ELSE 1
          /\ isValid(disp'["external"]) =>
               /\ disp'["external"].state = "VALIDATE" /\ needValidate'
               /\ step'["external"] \in {"try", "validate"}
          /\ ~isValid(disp'["external"]) => disp'["external"].state = "PRESENT_DONE"
          /\ step'["external"] # "idle" /\ disp'["external"].connected => disp'["external"].on
          /\ disp'["external"].on => disp'["external"].connected
      BY <1>2, <1>8, <3>1, <3>2, <3>3, <3>4, <3>5, <3>6, DisplaysAre
    <3> QED BY <3>2, <3>7, <3>8, DisplaysAre DEF Calls, Pri, Ext, priStep, extStep
  <2>2. CASE d = "external"
    <3>1. /\ disp'["primary"] = disp["primary"] /\ step'["primary"] = step["primary"]
          /\ disp'["external"] = q /\ step'["external"] = "present"
      BY <1>5, <1>7, <2>2, DisplaysAre DEF Decision
    <3>2. /\ frame' = frame /\ needValidate' = TRUE /\ needValidate = TRUE
          /\ isValid(disp'["primary"]) /\ isValid(disp'["external"])
          /\ \A c \in Displays : shown'[c] = shown[c]
          /\ step["primary"] \in {"present", "idle"}
      BY <1>2, <1>4, <1>8, <2>2, DisplaysAre DEF IInv, Calls, Decision, Pri
    <3>3. /\ disp'["external"].state = "VALIDATE_DONE" /\ disp'["external"].count = 1
          /\ disp'["external"].connected /\ disp'["external"].on
          /\ shown'["external"] = NotShown
      BY <1>1, <1>3, <1>4, <2>2, <3>1, <3>2, DisplaysAre
    <3> QED BY <1>4, <3>1, <3>2, <3>3, DisplaysAre DEF IInv, Calls, Pri, Ext, priStep, extStep
  <2> QED BY <2>1, <2>2, DisplaysAre
<1>12. Still'
  <2>1. CASE d = "primary"
    <3>1. disp'["primary"] = q /\ step'["primary"] = "present"
      BY <1>5, <1>7, <2>1
    <3> QED BY <1>2, <1>1, <1>3, <1>4, <2>1, <3>1 DEF Decision, Still, Pri, priStep
  <2>2. CASE d = "external"
    <3>1. disp'["primary"] = disp["primary"] /\ step'["primary"] = step["primary"]
      BY <1>5, <1>7, <2>2, DisplaysAre DEF Decision
    <3> QED BY <1>2, <3>1 DEF IInv, Still, Unchanged, Pri, priStep
  <2> QED BY <2>1, <2>2, DisplaysAre
<1> QED BY <1>9, <1>10, <1>11, <1>12 DEF IInv

\* The external display has been validated with the primary one.
LEMMA ExternalValidateKeeps ==
  ASSUME IInv, Validate("external")
  PROVE  IInv'
<1> DEFINE d == "external"
<1>1. step[d] = "validate" /\ Turn(d) /\ disp[d].connected
  BY DEF Validate
<1>2. /\ isValid(disp[d]) /\ disp[d].state = "VALIDATE" /\ needValidate = TRUE
      /\ frame /\ ~Opens(d) /\ step["primary"] \in {"present", "idle"}
  BY <1>1, ExternalCall
<1>3. /\ needValidate' = TRUE
      /\ disp' = [disp EXCEPT ![d] = Accepted(d, @)]
      /\ believes' = [believes EXCEPT ![d] = AcceptedOf(d, disp[d], @)]
      /\ step' = [step EXCEPT ![d] = "present"]
      /\ UNCHANGED <<scene, frame, touched, avail, shown>>
  BY <1>2 DEF Validate
<1>4. /\ DOMAIN disp = Displays
      /\ \A c \in Displays :
           /\ Local(c, disp[c], scene[c], believes[c], avail[c], NotShown)
           /\ disp[c].count = (IF disp[c].state = "PRESENT_DONE" THEN 0 ELSE 1)
           /\ isValid(disp[c]) => disp[c].connected /\ disp[c].on
      /\ disp["primary"].state # "PRESENT_DONE" => disp["primary"].gpu \/ ~disp["primary"].config
  BY Known DEF IInv, Shape, Calls, Still, isValid, Pri
<1>5. \A c \in Displays : isValid(disp[c]) =>
           /\ Local(c, disp[c], scene[c], believes[c], avail[c], NotShown)
           /\ disp[c].state = "VALIDATE" \/ (c # d /\ disp[c] = disp[c])
           /\ disp[c].count = (IF disp[c].state = "PRESENT_DONE" THEN 0 ELSE 1)
           /\ disp[c].connected /\ disp[c].on
  BY <1>2, <1>4
<1>6. Decision(d, disp, TRUE)
  BY <1>2, <1>4, <1>5, DisplaysAre DEF Decision
<1>7. Accepting(d, disp, TRUE)
  BY <1>3 DEF Accepting
<1>8. d \in Displays
  BY DisplaysAre
<1> HIDE DEF d
<1> QED BY <1>1, <1>6, <1>7, <1>8, AcceptingKeeps

\* The primary display's validation decides for all.
LEMMA PrimaryValidateKeeps ==
  ASSUME IInv, Validate("primary"),
         NEW R, NEW need,
         R = IF Opens("primary") THEN ConfigRead(Opened("PRESENT_DONE")) ELSE disp,
         need = IF Opens("primary") THEN ~checkSkipValidate(Opened("PRESENT_DONE"), TRUE)
                ELSE needValidate
  PROVE  IInv'
<1>1. /\ step["primary"] = "validate" /\ isValid(disp["primary"]) /\ frame
      /\ disp["primary"].state \in {"PRESENT_DONE", "CHECK_SKIP"}
      /\ \A d \in Displays : isValid(disp[d]) => disp[d].state = disp["primary"].state
  <2>1. step["primary"] = "validate"
    BY DEF Validate
  <2> QED BY <2>1, BeforeDecision DEF IInv, Calls, Pri, priStep
<1>2. /\ DOMAIN R = Displays /\ need \in BOOLEAN
      /\ \A d \in Displays : isValid(disp[d]) =>
           /\ PreparedWell(d, R[d], scene[d], believes[d], avail[d])
           /\ R[d].state # "VALIDATE" /\ R[d].count = 1 /\ R[d].connected /\ R[d].on
      /\ \A d \in Displays : ~isValid(disp[d]) => R[d] = disp[d]
      /\ R["primary"].gpu \/ ~R["primary"].config
      /\ ~need => /\ ~isValid(disp["external"]) /\ ~R["primary"].gpu
                  /\ Divided(R["primary"]) /\ Fits(R["primary"], R["primary"].job.num)
                  /\ Quiet(R["primary"], scene["primary"])
  <2>1. CASE disp["primary"].state = "PRESENT_DONE"
    <3> DEFINE state == "PRESENT_DONE"
               call == TRUE
    <3>1. Opens("primary")
      BY <2>1, DisplaysAre DEF Opens, IInv, Calls
    <3>2. /\ state \in {"PRESENT_DONE", "CHECK_SKIP"} /\ call \in BOOLEAN
          /\ step["primary"] \in {"try", "validate"}
          /\ R = ConfigRead(Opened(state)) /\ need = ~checkSkipValidate(Opened(state), call)
      BY <1>1, <3>1
    <3>3. state # "VALIDATE"
      OBVIOUS
    <3> HIDE DEF state, call
    <3>4. /\ DOMAIN R = Displays
          /\ \A d \in Displays : isValid(disp[d]) =>
                /\ PreparedWell(d, R[d], scene[d], believes[d], avail[d])
                /\ R[d].state = state /\ R[d].count = 1 /\ R[d].connected /\ R[d].on
          /\ \A d \in Displays : ~isValid(disp[d]) => R[d] = disp[d]
          /\ R["primary"].gpu \/ ~R["primary"].config
          /\ \A c \in BOOLEAN : checkSkipValidate(Opened(state), c) =>
                /\ ~isValid(disp["external"]) /\ ~R["primary"].gpu
                /\ Divided(R["primary"]) /\ Fits(R["primary"], R["primary"].job.num)
                /\ Quiet(R["primary"], scene["primary"])
      BY <2>1, <3>2, OpenedWell
    <3> QED BY <3>2, <3>3, <3>4
  <2>2. CASE disp["primary"].state = "CHECK_SKIP"
    <3>1. R = disp /\ need = TRUE
      BY <2>2 DEF Opens, IInv, Calls, Shape, Pri
    <3>2. DOMAIN disp = Displays /\ (disp["primary"].gpu \/ ~disp["primary"].config)
      BY <2>2 DEF IInv, Shape, Still, Pri
    <3>3. ASSUME NEW d \in Displays, isValid(disp[d])
          PROVE  /\ PreparedWell(d, disp[d], scene[d], believes[d], avail[d])
                 /\ disp[d].state # "VALIDATE" /\ disp[d].count = 1
                 /\ disp[d].connected /\ disp[d].on
      <4>1. disp[d].state = "CHECK_SKIP"
        BY <1>1, <2>2, <3>3
      <4>2. Local(d, disp[d], scene[d], believes[d], avail[d], shown[d])
        BY Known
      <4>3. PreparedWell(d, disp[d], scene[d], believes[d], avail[d])
        BY <4>1, <4>2, CheckSkipWell
      <4> QED BY <3>3, <4>1, <4>3 DEF IInv, Calls, isValid
    <3> QED BY <3>1, <3>2, <3>3
  <2> QED BY <1>1, <2>1, <2>2
<1> DEFINE D == Decided(R, need)
<1>3. R["primary"].state # "VALIDATE"
  BY <1>1, <1>2, DisplaysAre
<1>4. /\ needValidate' = need /\ disp' = [D EXCEPT !["primary"] = Accepted("primary", @)]
      /\ believes' = [believes EXCEPT !["primary"] = AcceptedOf("primary", D["primary"], @)]
      /\ step' = [step EXCEPT !["primary"] = "present"]
      /\ UNCHANGED <<scene, frame, touched, avail, shown>>
  <2>1. CASE Opens("primary")
    BY <1>3, <2>1 DEF Validate
  <2>2. CASE ~Opens("primary")
    BY <1>3, <2>2 DEF Validate
  <2> QED BY <2>1, <2>2
<1>5. /\ DOMAIN D = Displays
      /\ \A d \in Displays :
           D[d] = IF ~isValid(disp[d]) THEN HrtRun(R[d])
                  ELSE IF need THEN HrtRun(Validated(R[d], scene[d]))
                  ELSE [HrtRun(R[d]) EXCEPT !.state = "VALIDATE"]
  BY DEF Decided, ValidDisplays
<1> HIDE DEF D
<1>6. ASSUME NEW d \in Displays, ~isValid(disp[d])
      PROVE  D[d] = disp[d]
  <2>1. /\ Local(d, disp[d], scene[d], believes[d], avail[d], shown[d])
        /\ disp[d].state = "PRESENT_DONE" /\ Quiet(disp[d], scene[d])
    BY <1>6, Known
  <2>2. HrtRun(disp[d]) = disp[d]
    BY <1>6, <2>1, OffAgain
  <2> QED BY <1>2, <1>5, <1>6, <2>2
<1>7. ASSUME NEW d \in Displays, isValid(disp[d])
      PROVE  /\ Local(d, D[d], scene[d], believes[d], avail[d], NotShown)
             /\ D[d].state = "VALIDATE" /\ SameState(D[d], R[d])
  <2>1. PreparedWell(d, R[d], scene[d], believes[d], avail[d]) /\ isValid(R[d])
    BY <1>2, <1>7 DEF isValid
  <2>2. CASE need
    <3>1. D[d] = HrtRun(Validated(R[d], scene[d]))
      BY <1>5, <1>7, <2>2
    <3> QED BY <2>1, <3>1, DecidedLocal
  <2>3. CASE ~need
    <3> DEFINE state == "VALIDATE"
    <3>1. d = "primary"
      BY <1>2, <1>7, <2>3, DisplaysAre
    <3>2. /\ Divided(R[d]) /\ Fits(R[d], R[d].job.num) /\ ~R[d].gpu
          /\ Quiet(R[d], scene[d])
      BY <1>2, <2>3, <3>1
    <3>3. D[d] = [HrtRun(R[d]) EXCEPT !.state = state] /\ state \in {"VALIDATE", "VALIDATE_DONE"}
      BY <1>5, <1>7, <2>3
    <3> HIDE DEF state
    <3>4. /\ Local(d, D[d], scene[d], believes[d], avail[d], NotShown)
          /\ D[d].state = state /\ SameState(D[d], R[d])
      BY <2>1, <3>2, <3>3, SkippedLocal
    <3> QED BY <3>4 DEF state
  <2> QED BY <1>2, <2>2, <2>3
<1>8. ASSUME NEW d \in Displays, isValid(disp[d])
      PROVE  D[d].count = 1 /\ D[d].connected /\ D[d].on
  BY <1>2, <1>7, <1>8 DEF SameState
<1>9. D["primary"].gpu \/ ~D["primary"].config
  BY <1>1, <1>2, <1>7, DisplaysAre DEF SameState
<1>10. /\ isValid(disp["external"]) => need
       /\ isValid(disp["external"]) => D["external"].state = "VALIDATE"
  BY <1>2, <1>7, DisplaysAre
<1>11. \A d \in Displays : isValid(disp[d]) =>
           /\ Local(d, D[d], scene[d], believes[d], avail[d], NotShown)
           /\ D[d].state = "VALIDATE" \/ (d # "primary" /\ D[d] = disp[d])
           /\ D[d].count = (IF D[d].state = "PRESENT_DONE" THEN 0 ELSE 1)
           /\ D[d].connected /\ D[d].on
  BY <1>7, <1>8
<1> DEFINE c == "primary"
<1>12. /\ D[c].state = "VALIDATE" /\ need \in BOOLEAN /\ DOMAIN D = Displays
       /\ step[c] = "validate" /\ isValid(disp[c]) /\ c \in Displays
  BY <1>1, <1>2, <1>5, <1>7, DisplaysAre
<1>13. Accepting(c, D, need)
  BY <1>4 DEF Accepting
<1>14. Decision(c, D, need)
  BY <1>6, <1>9, <1>10, <1>11, <1>12, DisplaysAre DEF Decision
<1> HIDE DEF c
<1> QED BY <1>12, <1>13, <1>14, AcceptingKeeps

\* displayValidateDisplay.
LEMMA ValidateKeeps ==
  ASSUME IInv, NEW d \in Displays, Validate(d)
  PROVE  IInv'
<1>1. CASE d = "external"
  BY <1>1, ExternalValidateKeeps
<1>2. CASE d = "primary"
  BY <1>2, PrimaryValidateKeeps
<1> QED BY <1>1, <1>2, DisplaysAre

-----------------------------------------------------------------------------
(* The theorems.                                                           *)

\* SurfaceFlinger before its first frame.
LEMMA InitHolds ==
  ASSUME Init
  PROVE  IInv
<1>1. /\ scene = [d \in Displays |-> [l \in Layers(d) |-> Absent]]
      /\ believes = [d \in Displays |-> [l \in Layers(d) |-> "none"]]
      /\ step = [d \in Displays |-> "idle"] /\ frame = FALSE /\ touched = TRUE
      /\ disp = [d \in Displays |-> NewDisplay(d, d = "primary")]
      /\ avail = [d \in Displays |-> avail[d]] /\ DOMAIN avail = Displays
      /\ \A d \in Displays : avail[d] \in Inputs[d]
      /\ needValidate = TRUE /\ shown = [d \in Displays |-> NotShown]
  BY DEF Init
<1>2. \A d \in Displays : /\ scene[d] = [l \in Layers(d) |-> Absent]
                          /\ believes[d] = [l \in Layers(d) |-> "none"]
                          /\ disp[d] = NewDisplay(d, d = "primary")
                          /\ shown[d] = NotShown /\ step[d] = "idle"
  BY <1>1
<1>3. Shape
  <2>1. step \in [Displays -> Steps]
    BY <1>1 DEF Steps
  <2> QED BY <1>1, <1>2, <2>1 DEF Shape
<1>4. Settlement
  <2>1. ASSUME NEW d \in Displays
        PROVE  /\ Local(d, disp[d], scene[d], believes[d], avail[d], NotShown)
               /\ Quiet(disp[d], scene[d])
    BY <1>1, <1>2, NewLocal
  <2> QED BY <1>2, <2>1 DEF Settlement
<1>5. \A d \in Displays : /\ disp[d].state = "PRESENT_DONE" /\ disp[d].count = 0
                          /\ disp[d].connected <=> d = "primary"
                          /\ disp[d].on <=> d = "primary"
  <2>1. ASSUME NEW d \in Displays, NEW on, NEW r, r = NewDisplay(d, on)
        PROVE  r.state = "PRESENT_DONE" /\ r.count = 0 /\ r.connected = on /\ r.on = on
    BY <2>1 DEF NewDisplay
  <2>2. ASSUME NEW d \in Displays
        PROVE  \E on \in BOOLEAN : disp[d] = NewDisplay(d, on) /\ (on <=> d = "primary")
    <3> DEFINE on == d = "primary"
    <3>1. on \in BOOLEAN /\ disp[d] = NewDisplay(d, on) /\ (on <=> d = "primary")
      BY <1>2
    <3> HIDE DEF on
    <3> QED BY <3>1, Zenon
  <2> SUFFICES ASSUME NEW d \in Displays
               PROVE  /\ disp[d].state = "PRESENT_DONE" /\ disp[d].count = 0
                      /\ disp[d].connected <=> d = "primary"
                      /\ disp[d].on <=> d = "primary"
    OBVIOUS
  <2>3. PICK on \in BOOLEAN : disp[d] = NewDisplay(d, on) /\ (on <=> d = "primary")
    BY <2>2
  <2> QED BY <2>1, <2>3
<1>6. Calls
  <2>1. /\ isValid(disp["primary"]) /\ ~isValid(disp["external"])
        /\ ~disp["external"].connected /\ ~disp["external"].on
    BY <1>5, DisplaysAre DEF isValid
  <2> QED BY <1>1, <1>2, <1>5, <2>1, DisplaysAre DEF Calls, Pri, Ext, priStep, extStep
<1>7. Still
  BY <1>1, <1>2, <1>5, DisplaysAre DEF Still, Pri, priStep
<1> QED BY <1>3, <1>4, <1>6, <1>7 DEF IInv

\* No step breaks the invariant.
LEMMA StepKeeps ==
  ASSUME IInv, [Next]_vars
  PROVE  IInv'
<1>1. ASSUME NEW d \in Displays, NEW l \in Layers(d), NEW look \in LooksOf[d][l],
             CreateLayer(d, l, look)
      PROVE  IInv'
  BY <1>1, CreateLayerKeeps
<1>2. ASSUME NEW d \in Displays, NEW l \in Layers(d), NEW look \in LooksOf[d][l],
             SetLook(d, l, look)
      PROVE  IInv'
  BY <1>2, SetLookKeeps
<1>3. ASSUME NEW d \in Displays, NEW l \in Layers(d), DestroyLayer(d, l)
      PROVE  IInv'
  BY <1>3, DestroyLayerKeeps
<1>4. ASSUME \/ \E d \in Displays : InputsMove(d)
             \/ setColorTransform \/ setActiveConfig \/ SwitchExternal
      PROVE  IInv'
  BY <1>4, SettingsKeep
<1>5. ASSUME NEW d \in Displays, BadDisplay(d) PROVE IInv'
  BY <1>5, BadDisplayKeeps
<1>6. ASSUME NEW d \in Displays, PresentFirst(d) PROVE IInv'
  BY <1>6, PresentFirstKeeps
<1>7. ASSUME NEW d \in Displays, Validate(d) PROVE IInv'
  BY <1>7, ValidateKeeps
<1>8. ASSUME NEW d \in Displays, Present(d) PROVE IInv'
  BY <1>8, PresentKeeps
<1>9. CASE PlugIn
  BY <1>9, PlugInKeeps
<1>10. CASE PlugOut
  BY <1>10, PlugOutKeeps
<1>11. CASE BeginFrame
  BY <1>11, BeginFrameKeeps
<1>12. CASE EndFrame
  BY <1>12, EndFrameKeeps
<1>13. CASE UNCHANGED vars
  <2>1. /\ scene' = scene /\ believes' = believes /\ step' = step /\ frame' = frame
        /\ touched' = touched /\ disp' = disp /\ avail' = avail
        /\ needValidate' = needValidate /\ shown' = shown
    BY <1>13 DEF vars
  <2>2. Shape'
    BY <2>1 DEF IInv, Shape
  <2>3. Settlement'
    BY <2>1 DEF IInv, Settlement
  <2>4. Calls'
    BY <2>1 DEF IInv, Calls, Pri, Ext, priStep, extStep
  <2>5. Still'
    BY <2>1 DEF IInv, Still, Unchanged, Pri, priStep
  <2> QED BY <2>2, <2>3, <2>4, <2>5 DEF IInv
<1> QED
  BY <1>1, <1>2, <1>3, <1>4, <1>5, <1>6, <1>7, <1>8, <1>9, <1>10, <1>11, <1>12, <1>13 DEF Next

\* What is known of each display, of its layers and of what SurfaceFlinger takes
\* them for (Settlement), which call each display waits for (Calls), and that a
\* still scene leaves nothing behind (Still) hold at every step of hwc2.cpp's
\* calls, for any looks, layers and inputs.
THEOREM MediatorInv == Spec => []IInv
<1>1. Init => IInv
  BY InitHolds
<1>2. IInv /\ [Next]_vars => IInv'
  BY StepKeeps
<1> QED BY <1>1, <1>2, PTL DEF Spec

\* The types, and with them that a display which has presented its last frame
\* owes no other one: the branches of displayValidateDisplay for a display that
\* was prepared and left out (hwc2.cpp:2329-2342) are never taken.
THEOREM MediatorTypeOK == Spec => []TypeOK
<1>1. IInv => TypeOK
  <2> SUFFICES ASSUME IInv PROVE TypeOK
    OBVIOUS
  <2>1. ASSUME NEW d \in Displays, NEW l \in Layers(d)
        PROVE  /\ scene[d][l] \in LooksOf[d][l] \union {Absent}
               /\ believes[d][l] \in {"none", "client", "device"}
               /\ disp[d].layer[l].type \in LayerTypes
    <3>1. LocalTypes(d, disp[d], scene[d], believes[d], avail[d])
      BY Known DEF Local
    <3>2. believes[d] \in [Layers(d) -> Answers] /\ disp[d].layer[l] \in LayerRec
      BY <3>1, LocalFacts
    <3> QED BY <3>1, <3>2 DEF LocalTypes, Answers, LayerRec
  <2>2. ASSUME NEW d \in Displays
        PROVE  /\ step[d] \in {"idle", "try", "validate", "present"}
               /\ disp[d].state \in {"PRESENT_DONE", "CHECK_SKIP", "VALIDATE", "VALIDATE_DONE"}
               /\ disp[d].count \in 0 .. 1
               /\ disp[d].state = "PRESENT_DONE" => disp[d].count = 0
               /\ avail[d] \in Inputs[d]
    <3>1. disp[d].state \in States /\ avail[d] \in Inputs[d]
      BY Known DEF DisplayRec
    <3>2. disp[d].count = IF disp[d].state = "PRESENT_DONE" THEN 0 ELSE 1
      BY DEF IInv, Calls
    <3>3. step[d] \in Steps
      BY DEF IInv, Shape
    <3> QED BY <3>1, <3>2, <3>3 DEF States, Steps
  <2>3. {needValidate, frame, touched} \subseteq BOOLEAN
    BY DEF IInv, Shape
  <2> QED BY <2>1, <2>2, <2>3 DEF TypeOK
<1> QED BY <1>1, MediatorInv, PTL

\* The properties in the terms of the invariant.
LEMMA ShownAs ==
  ASSUME IInv, NEW d \in Displays
  PROVE  /\ ShownWell(shown[d], disp[d], scene[d], believes[d])
         /\ DOMAIN scene[d] = Layers(d)
         /\ Composed(d) = ClientOf(scene[d], believes[d])
         /\ UpOf(scene[d]) = {l \in Layers(d) : scene[d][l] # Absent}
<1>1. ShownWell(shown[d], disp[d], scene[d], believes[d])
  BY Known DEF Local
<1>2. DOMAIN scene[d] = Layers(d)
  BY Known DEF Local, LocalTypes, Rows
<1> QED BY <1>1, <1>2 DEF Composed, ClientOf, UpOf

\* Validated or skipped, a presented frame shows every layer exactly once: on an
\* input of the overlay engine, or in the client target, which has an input then
\* (beforePresent and the second run of HRT at hwc2.cpp:1866).
THEOREM MediatorDrawnOnce == Spec => []EveryLayerDrawnOnce
<1>1. IInv => EveryLayerDrawnOnce
  <2> SUFFICES ASSUME IInv, NEW d \in Displays, shown[d] # NotShown
               PROVE  /\ {s[1] : s \in shown[d].hw} =
                           {l \in Layers(d) : scene[d][l] # Absent} \ Composed(d)
                      /\ Composed(d) # {} => shown[d].fbt # NoSlot
    BY DEF EveryLayerDrawnOnce
  <2>1. Drawn(shown[d], scene[d], believes[d])
    BY ShownAs DEF ShownWell
  <2>2. /\ Composed(d) = ClientOf(scene[d], believes[d])
        /\ UpOf(scene[d]) = {l \in Layers(d) : scene[d][l] # Absent}
    BY ShownAs
  <2> QED BY <2>1, <2>2 DEF Drawn
<1> QED BY <1>1, MediatorInv, PTL

\* The overlay engine is given what each layer looks like now and nothing that
\* the GPU must transform, and the media data path gets one layer at most
\* (HWCLayer::validate, offloadMMtoClient).
THEOREM MediatorHardwareFit == Spec => []HardwareLayersFit
<1>1. IInv => HardwareLayersFit
  <2>1. ASSUME IInv, NEW d \in Displays PROVE Fit(shown[d], disp[d], scene[d])
    BY <2>1, ShownAs DEF ShownWell
  <2> QED BY <2>1 DEF HardwareLayersFit, Fit
<1> QED BY <1>1, MediatorInv, PTL

\* Where a display of more than two layers is offered two inputs or more, the
\* inputs of a presented frame exist and are stacked as the layers are.  With a
\* single input and a clear layer in second place the code clears every inner
\* layer (hrt_common.cpp:116-131, see ClearLayers) and leaves the client target
\* no input, hence the hypothesis.
THEOREM MediatorSlots ==
  ASSUME EnoughInputs
  PROVE  Spec => []SlotsInOrder
<1>1. IInv => SlotsInOrder
  <2> SUFFICES ASSUME IInv, NEW d \in Displays
               PROVE  LET fbt == shown[d].fbt
                      IN  /\ fbt < shown[d].num
                          /\ \A s \in shown[d].hw :
                               /\ s[2] \in 0 .. shown[d].num - 1
                               /\ \A t \in shown[d].hw : s[1] < t[1] => s[2] < t[2]
                               /\ \A l \in Composed(d) :
                                    \/ l < s[1] /\ fbt < s[2]
                                    \/ s[1] < l /\ s[2] < fbt
                                    \/ disp[d].layer[s[1]].clear /\ s[2] < fbt
    BY DEF SlotsInOrder
  <2>1. InOrder(shown[d], disp[d], scene[d], believes[d])
    BY ShownAs DEF ShownWell
  <2>2. Composed(d) = ClientOf(scene[d], believes[d])
    BY ShownAs
  <2> QED BY <2>1, <2>2 DEF InOrder
<1> QED BY <1>1, MediatorInv, PTL

\* Nothing is left that asks for a validation.
LEMMA StillSkips ==
  ASSUME IInv, PresentFirst("primary"), ~touched, ~isValid(disp["external"]),
         disp["primary"].range = NoRange, ~isForceGpuCompose(disp["primary"])
  PROVE  ~needValidate'
<1> DEFINE r == disp["primary"]
           row == scene["primary"]
           b == believes["primary"]
           n == avail["primary"]
           q == Opened("CHECK_SKIP")["primary"]
<1>1. /\ step["primary"] = "try" /\ r.state = "PRESENT_DONE" /\ r.count = 0 /\ isValid(r)
  BY DisplaysAre DEF PresentFirst, IInv, Calls, Pri, priStep
<1>2. Opens("primary")
  BY <1>1 DEF Opens
<1>3. /\ r.visible = Stacked(UpOf(row)) /\ r.prevAvail = JobNum(n) /\ ~r.config /\ ~r.gpu
      /\ \A l \in Layers("primary") : row[l] # Absent => ~r.layer[l].changed
  BY <1>1 DEF IInv, Still, Unchanged, Pri, priStep, isForceGpuCompose
<1>4. Local("primary", r, row, b, n, shown["primary"])
  BY Known, DisplaysAre
<1>5. Quiet(r, row)
  <2>1. LocalTypes("primary", r, row, b, n)
    BY <1>4 DEF Local
  <2> HIDE DEF r, row, b, n
  <2>2. \A i \in Indices(r) : r.visible[i] \in Layers("primary") /\ row[r.visible[i]] # Absent
    BY <1>3, <2>1, VisibleUp, LocalFacts, DisplaysAre
  <2> QED BY <1>3, <2>2 DEF Quiet
<1>6. \A i \in Indices(r) : Types(r)[i] # "INVALID"
  <2>1. Divided(r)
    BY <1>1, <1>4, <1>5 DEF Local, Settled
  <2> QED BY <2>1 DEF Divided, InRange, NoRange, Indices
<1>7. q = Opening(r, row, n, "CHECK_SKIP")
  BY <1>1, DisplaysAre DEF Opened, Opening, ValidDisplays
<1> HIDE DEF q
<1>8. /\ q.gpu = r.gpu /\ q.config = r.config /\ q.layer = r.layer
      /\ q.prevAvail = r.prevAvail /\ q.listChanged = (q.visible # r.visible)
      /\ q.job.num = JobNum(n) /\ q.visible = Stacked(UpOf(row))
  <2> DEFINE state == "CHECK_SKIP"
  <2>1. state \in States /\ q = Opening(r, row, n, state)
    BY <1>7 DEF States
  <2> HIDE DEF state, r, row, b, n
  <2> QED BY <1>1, <1>4, <2>1, OpenedDisplay, DisplaysAre
<1>9. Types(q) = Types(r) /\ Indices(q) = Indices(r)
  BY <1>3, <1>8 DEF Types, Indices
<1>10. ~isValid(Opened("CHECK_SKIP")["external"])
  BY DisplaysAre DEF Opened, ValidDisplays
<1>11. checkSkipValidate(Opened("CHECK_SKIP"), FALSE)
  <2>1. /\ ~q.gpu /\ ~q.config /\ q.prevAvail = q.job.num /\ ~q.listChanged
        /\ \A i \in Indices(q) : ~q.layer[q.visible[i]].changed /\ Types(q)[i] # "INVALID"
    BY <1>3, <1>5, <1>6, <1>8, <1>9 DEF Quiet
  <2> QED BY <1>10, <2>1 DEF checkSkipValidate, isForceGpuCompose, q
<1> QED BY <1>2, <1>11 DEF PresentFirst

\* A frame of the primary display alone in which nothing has changed and nothing
\* is composed by the GPU is presented without validation: checkSkipValidate
\* finds nothing that an earlier frame left behind.
THEOREM MediatorStillSkips == Spec => StillSceneSkips
<1>1. IInv /\ [Next]_vars =>
        [PresentFirst("primary") /\ ~touched /\ ~isValid(disp["external"])
           /\ disp["primary"].range = NoRange /\ ~isForceGpuCompose(disp["primary"])
         => ~needValidate']_vars
  BY StillSkips
<1> QED BY <1>1, MediatorInv, PTL DEF Spec, StillSceneSkips

=============================================================================
