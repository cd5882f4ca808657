--------------------------- MODULE Layering_proofs ---------------------------
(***************************************************************************)
(* What the simple layering rule promises, whether it clears layers or     *)
(* not, for any number of layers and inputs.                               *)
(***************************************************************************)
EXTENDS Layering, FiniteSetTheorems, WellFoundedInduction, TLAPS

\* A GLES range of n layers, as findGlesRange returns it.
Ranges(n) == {NoRange} \union
    {range \in [head : 1 .. n, tail : 1 .. n] : range.head <= range.tail}

\* The range grows until the layers outside it and the client target fit the
\* inputs exactly; it keeps the layers that it had and stays within the
\* display, so that the abort of hrt_common.cpp:153 is never met.
THEOREM GrownRangeFits ==
  ASSUME NEW n \in Nat, NEW range \in Ranges(n), NEW inputs \in Nat \ {0},
         CommittedCount(n, range) > inputs
  PROVE  LET grown == GrownRange(n, range, CommittedCount(n, range) - inputs)
         IN  /\ grown \in Ranges(n) \ {NoRange}
             /\ CommittedCount(n, grown) = inputs
             /\ \A i \in 1 .. n : InRange(i, range) => InRange(i, grown)
<1> DEFINE over == CommittedCount(n, range) - inputs
           grown == GrownRange(n, range, over)
<1>1. CASE range = NoRange
  <2>1. CommittedCount(n, range) = n
    BY <1>1 DEF CommittedCount, GlesCount
  <2>2. grown = [head |-> inputs, tail |-> n] /\ inputs \in 1 .. n - 1
    BY <1>1, <2>1 DEF GrownRange
  <2>3. grown # NoRange
    BY <2>2 DEF NoRange
  <2>4. grown \in Ranges(n) \ {NoRange}
    BY <2>2, <2>3 DEF Ranges
  <2>5. CommittedCount(n, grown) = inputs
    BY <2>2, <2>3 DEF CommittedCount, GlesCount
  <2> QED BY <1>1, <2>4, <2>5 DEF InRange
<1>2. CASE range # NoRange
  <2>1. range.head \in 1 .. n /\ range.tail \in 1 .. n /\ range.head <= range.tail
    BY <1>2 DEF Ranges
  <2>2. CommittedCount(n, range) = n - (range.tail - range.head)
    BY <1>2, <2>1 DEF CommittedCount, GlesCount
  <2>3. over \in Nat \ {0} /\ over = n - (range.tail - range.head) - inputs
    BY <2>1, <2>2
  <2>4. CASE over <= n - range.tail
    <3>1. grown = [head |-> range.head, tail |-> range.tail + over]
      BY <1>2, <2>1, <2>3, <2>4 DEF GrownRange
    <3>2. grown # NoRange
      BY <3>1, <2>1 DEF NoRange
    <3>3. grown \in Ranges(n) \ {NoRange}
      BY <3>1, <3>2, <2>1, <2>3, <2>4 DEF Ranges
    <3>4. CommittedCount(n, grown) = inputs
      BY <3>1, <3>2, <2>1, <2>3 DEF CommittedCount, GlesCount
    <3>5. \A i \in 1 .. n : InRange(i, range) => InRange(i, grown)
      BY <1>2, <3>1, <3>2, <2>1, <2>3 DEF InRange
    <3> QED BY <3>3, <3>4, <3>5
  <2>5. CASE over > n - range.tail
    <3> DEFINE head == range.head - (over - (n - range.tail))
    <3>1. grown = [head |-> head, tail |-> n]
      BY <1>2, <2>1, <2>3, <2>5 DEF GrownRange
    <3>2. head = inputs /\ head \in 1 .. range.head
      BY <2>1, <2>3, <2>5
    <3>3. grown # NoRange
      BY <3>1, <3>2, <2>1 DEF NoRange
    <3>4. grown \in Ranges(n) \ {NoRange}
      BY <3>1, <3>2, <3>3, <2>1 DEF Ranges
    <3>5. CommittedCount(n, grown) = inputs
      BY <3>1, <3>2, <3>3, <2>1 DEF CommittedCount, GlesCount
    <3>6. \A i \in 1 .. n : InRange(i, range) => InRange(i, grown)
      BY <1>2, <3>1, <3>2, <3>3, <2>1 DEF InRange
    <3> QED BY <3>4, <3>5, <3>6
  <2> QED BY <2>3, <2>4, <2>5, <2>1
<1> QED BY <1>1, <1>2

\* With nothing to clear, the rule leaves a range that fits the inputs, and
\* takes no layer from the GPU that the GPU must compose.
THEOREM RuleFitsInputs ==
  ASSUME NEW n \in Nat, NEW range \in Ranges(n), NEW inputs \in Nat \ {0},
         NEW clearable, ClearLayers(n, clearable, inputs) = {}
  PROVE  LET rule == simpleLayeringRule(n, range, clearable, inputs)
         IN  /\ rule.range \in Ranges(n) /\ rule.clear = {}
             /\ CommittedCount(n, rule.range) <= inputs
             /\ \A i \in 1 .. n : InRange(i, range) => InRange(i, rule.range)
<1> DEFINE over == CommittedCount(n, range) - inputs
           rule == simpleLayeringRule(n, range, clearable, inputs)
<1>1. CommittedCount(n, range) \in Int
  BY DEF CommittedCount, GlesCount, Ranges
<1>2. CASE over <= 0
  <2>1. rule = [range |-> range, clear |-> {}]
    BY <1>2 DEF simpleLayeringRule
  <2> QED BY <1>1, <1>2, <2>1
<1>3. CASE over > 0
  <2>1. rule = [range |-> GrownRange(n, range, over), clear |-> {}]
    BY <1>1, <1>3 DEF simpleLayeringRule
  <2>2. CommittedCount(n, range) > inputs
    BY <1>1, <1>3
  <2>3. /\ GrownRange(n, range, over) \in Ranges(n)
        /\ CommittedCount(n, GrownRange(n, range, over)) = inputs
        /\ \A i \in 1 .. n : InRange(i, range) => InRange(i, GrownRange(n, range, over))
    BY <2>2, GrownRangeFits
  <2> QED BY <2>1, <2>3
<1> QED BY <1>1, <1>2, <1>3

-----------------------------------------------------------------------------

\* The layers that end an input of their own, or the client target's.
Ends(n, range) == {j \in 1 .. n : j < range.head \/ j >= range.tail}
EndsBelow(n, range, i) == {j \in 1 .. n : j < i /\ (j < range.head \/ j >= range.tail)}

\* There are as many as inputs are needed.
LEMMA EndsCount ==
  ASSUME NEW n \in Nat, NEW range \in Ranges(n)
  PROVE  IsFiniteSet(Ends(n, range)) /\ Cardinality(Ends(n, range)) = CommittedCount(n, range)
<1>1. CASE range = NoRange
  <2>1. Ends(n, range) = 1 .. n
    BY <1>1 DEF Ends, NoRange
  <2>2. CommittedCount(n, range) = n
    BY <1>1 DEF CommittedCount, GlesCount
  <2>3. IsFiniteSet(1 .. n) /\ Cardinality(1 .. n) = n
    BY FS_Interval
  <2> QED BY <2>1, <2>2, <2>3
<1>2. CASE range # NoRange
  <2> DEFINE Low == 1 .. range.head - 1
             High == range.tail .. n
  <2>1. range.head \in 1 .. n /\ range.tail \in 1 .. n /\ range.head <= range.tail
    BY <1>2 DEF Ranges
  <2>2. Ends(n, range) = Low \union High /\ Low \intersect High = {}
    BY <2>1 DEF Ends
  <2>3. IsFiniteSet(Low) /\ Cardinality(Low) = range.head - 1
    <3>1. PICK low \in Nat : low = range.head - 1
      BY <2>1
    <3>2. IsFiniteSet(1 .. low) /\ Cardinality(1 .. low) = IF 1 > low THEN 0 ELSE low - 1 + 1
      BY FS_Interval
    <3> QED BY <3>1, <3>2
  <2>4. IsFiniteSet(High) /\ Cardinality(High) = n - range.tail + 1
    BY <2>1, FS_Interval
  <2> HIDE DEF Low, High
  <2>5. /\ IsFiniteSet(Low \union High)
        /\ Cardinality(Low \union High) =
             Cardinality(Low) + Cardinality(High) - Cardinality(Low \intersect High)
    BY <2>3, <2>4, FS_Union
  <2>6. Cardinality(Low \intersect High) = 0
    BY <2>2, FS_EmptySet
  <2>7. CommittedCount(n, range) = n - (range.tail - range.head)
    BY <1>2, <2>1 DEF CommittedCount, GlesCount
  <2>8. (range.head - 1) + (n - range.tail + 1) - 0 = n - (range.tail - range.head)
    BY <2>1
  <2>9. Cardinality(Ends(n, range)) = CommittedCount(n, range)
    BY <2>2, <2>3, <2>4, <2>5, <2>6, <2>7, <2>8
  <2> QED BY <2>2, <2>5, <2>9
<1> QED BY <1>1, <1>2

\* fillLayerInfo stacks: every layer has an input among those that are needed;
\* of two layers the upper one has the higher input, unless both are in the
\* GLES range, whose layers share the input of the client target.
THEOREM SlotsStack ==
  ASSUME NEW n \in Nat, NEW range \in Ranges(n)
  PROVE  LET slot == SlotsOf(n, range, {}, 0)
         IN  /\ slot \in [1 .. n -> 0 .. CommittedCount(n, range) - 1]
             /\ \A i, k \in 1 .. n : i < k =>
                  IF InRange(i, range) /\ InRange(k, range)
                  THEN slot[i] = slot[k] ELSE slot[i] < slot[k]
<1> DEFINE slot == SlotsOf(n, range, {}, 0)
           Below(i) == EndsBelow(n, range, i)
<1>1. slot = [i \in 1 .. n |-> Cardinality(Below(i))]
  BY DEF SlotsOf, EndsBelow
<1>2. IsFiniteSet(Ends(n, range)) /\ Cardinality(Ends(n, range)) = CommittedCount(n, range)
  BY EndsCount
<1>3. \A i \in 1 .. n : IsFiniteSet(Below(i)) /\ Cardinality(Below(i)) \in Nat
  <2> TAKE i \in 1 .. n
  <2>1. Below(i) \subseteq Ends(n, range)
    BY DEF EndsBelow, Ends
  <2> QED BY <1>2, <2>1, FS_Subset, FS_CardinalityType
<1>4. \A i \in 1 .. n : Cardinality(Below(i)) < CommittedCount(n, range)
  <2> TAKE i \in 1 .. n
  <2>1. Below(i) \subseteq Ends(n, range)
    BY DEF EndsBelow, Ends
  <2>2. n \in Ends(n, range) /\ n \notin Below(i)
    BY DEF EndsBelow, Ends, Ranges, NoRange
  <2>3. Below(i) # Ends(n, range)
    BY <2>2
  <2>4. /\ Cardinality(Below(i)) <= Cardinality(Ends(n, range))
        /\ Cardinality(Below(i)) # Cardinality(Ends(n, range))
    BY <1>2, <2>1, <2>3, FS_Subset
  <2>5. Cardinality(Ends(n, range)) \in Nat
    BY <1>2, FS_CardinalityType
  <2> QED BY <1>2, <1>3, <2>4, <2>5
<1>5. CommittedCount(n, range) \in Int
  BY DEF CommittedCount, GlesCount, Ranges
<1>6. slot \in [1 .. n -> 0 .. CommittedCount(n, range) - 1]
  BY <1>1, <1>3, <1>4, <1>5
<1>7. ASSUME NEW i \in 1 .. n, NEW k \in 1 .. n, i < k
      PROVE  IF InRange(i, range) /\ InRange(k, range)
             THEN slot[i] = slot[k] ELSE slot[i] < slot[k]
  <2>1. CASE InRange(i, range) /\ InRange(k, range)
    <3>1. range.head \in Int /\ range.tail \in Int
      BY DEF Ranges, NoRange
    <3>2. Below(i) = Below(k)
      BY <1>7, <2>1, <3>1 DEF EndsBelow, InRange
    <3> QED BY <1>1, <2>1, <3>2
  <2>2. CASE ~(InRange(i, range) /\ InRange(k, range))
    <3>1. PICK j \in i .. k - 1 : j < range.head \/ j >= range.tail
      <4>1. CASE range = NoRange
        BY <4>1, <1>7 DEF NoRange
      <4>2. CASE range # NoRange
        <5>1. range.head \in 1 .. n /\ range.tail \in 1 .. n /\ range.head <= range.tail
          BY <4>2 DEF Ranges
        <5>2. CASE i < range.head
          BY <1>7, <5>2, <5>1
        <5>3. CASE i >= range.head
          <6>1. k - 1 >= range.tail
            BY <1>7, <2>2, <4>2, <5>1, <5>3 DEF InRange
          <6> QED BY <1>7, <6>1, <5>1
        <5> QED BY <5>1, <5>2, <5>3
      <4> QED BY <4>1, <4>2
    <3>2. Below(i) \subseteq Below(k)
      BY <1>7 DEF EndsBelow
    <3>3. j \in Below(k) /\ j \notin Below(i)
      BY <1>7, <3>1 DEF EndsBelow
    <3>4. Below(i) # Below(k)
      BY <3>3
    <3>5. Cardinality(Below(i)) < Cardinality(Below(k))
      <4>1. /\ Cardinality(Below(i)) <= Cardinality(Below(k))
            /\ Cardinality(Below(i)) # Cardinality(Below(k))
        BY <1>3, <3>2, <3>4, FS_Subset
      <4> QED BY <1>3, <4>1
    <3> QED BY <1>1, <2>2, <3>5
  <2> QED BY <2>1, <2>2
<1> QED BY <1>6, <1>7

-----------------------------------------------------------------------------
(* Where the range starts and ends.                                        *)

\* A set of numbers has a least and a greatest one.
LEMMA LeastAndGreatest ==
  ASSUME NEW n \in Nat, NEW S \in SUBSET (1 .. n), S # {}
  PROVE  /\ Min(S) \in S /\ \A i \in S : Min(S) <= i
         /\ Max(S) \in S /\ \A i \in S : i <= Max(S)
<1> DEFINE Less == OpToRel(<, Nat)
<1>1. IsWellFoundedOn(Less, Nat)
  BY NatLessThanWellFounded
<1>2. \A x, y \in Nat : <<x, y>> \in Less <=> x < y
  BY DEF OpToRel
<1> HIDE DEF Less
<1>3. ASSUME NEW T \in SUBSET Nat, T # {}
      PROVE  \E x \in T : \A y \in T : x <= y
  <2>1. \E x \in T : \A y \in T : ~ (<<y, x>> \in Less)
    BY <1>1, <1>3, WFMin, Zenon
  <2>2. PICK x \in T : \A y \in T : ~ (<<y, x>> \in Less)
    BY <2>1
  <2>3. \A y \in T : x \in Nat /\ y \in Nat
    OBVIOUS
  <2>4. \A y \in T : ~ (y < x)
    BY <1>2, <2>2, <2>3, Zenon
  <2> QED BY <2>3, <2>4
<1>4. \A x \in S : x \in 1 .. n /\ x \in Nat /\ n - x \in Nat
  OBVIOUS
<1>5. \E x \in S : \A y \in S : x <= y
  <2>1. S \in SUBSET Nat
    BY <1>4
  <2> QED BY <1>3, <2>1
<1>6. \E x \in S : \A y \in S : x >= y
  <2> DEFINE T == {n - x : x \in S}
  <2>1. \A t \in T : t \in Nat
    BY <1>4
  <2>2. T \in SUBSET Nat /\ T # {}
    BY <2>1
  <2>3. PICK t \in T : \A y \in T : t <= y
    BY <1>3, <2>2
  <2>4. PICK x \in S : t = n - x
    OBVIOUS
  <2>5. \A y \in S : n - x <= n - y
    BY <2>3, <2>4
  <2> QED BY <1>4, <2>5
<1>7. Min(S) \in S /\ \A i \in S : Min(S) <= i
  BY <1>5 DEF Min
<1>8. Max(S) \in S /\ \A i \in S : i <= Max(S)
  BY <1>6 DEF Max
<1> QED BY <1>7, <1>8

\* findGlesRange takes in every layer that the GPU must compose, and starts
\* and ends with one.
LEMMA FoundRange ==
  ASSUME NEW n \in Nat, NEW types, DOMAIN types = 1 .. n
  PROVE  LET found == findGlesRange(types)
         IN  /\ found \in Ranges(n)
             /\ \A i \in 1 .. n : types[i] = "INVALID" => InRange(i, found)
             /\ found # NoRange => /\ types[found.head] = "INVALID"
                                   /\ types[found.tail] = "INVALID"
<1> DEFINE S == {i \in 1 .. n : types[i] = "INVALID"}
           found == findGlesRange(types)
<1>1. CASE S = {}
  BY <1>1 DEF findGlesRange, Ranges
<1>2. CASE S # {}
  <2>1. /\ Min(S) \in S /\ \A i \in S : Min(S) <= i
        /\ Max(S) \in S /\ \A i \in S : i <= Max(S)
    BY <1>2, LeastAndGreatest
  <2>2. found = [head |-> Min(S), tail |-> Max(S)]
    BY <1>2 DEF findGlesRange
  <2>3. Min(S) \in 1 .. n /\ Max(S) \in 1 .. n /\ Min(S) <= Max(S)
    BY <2>1
  <2>4. found \in Ranges(n)
    <3>1. found \in [head : 1 .. n, tail : 1 .. n] /\ found.head <= found.tail
      BY <2>2, <2>3
    <3> QED BY <3>1 DEF Ranges
  <2>5. found # NoRange
    BY <2>2, <2>3 DEF NoRange
  <2>6. \A i \in 1 .. n : types[i] = "INVALID" => InRange(i, found)
    BY <2>1, <2>2, <2>5 DEF InRange
  <2>7. types[found.head] = "INVALID" /\ types[found.tail] = "INVALID"
    BY <2>1, <2>2
  <2> QED BY <2>4, <2>6, <2>7
<1> QED BY <1>1, <1>2

\* The layers of a range that stay beneath the client target.
Divides(n, range, clear) ==
    /\ range \in Ranges(n) /\ clear \in SUBSET (1 .. n)
    /\ clear # {} => /\ range = [head |-> 1, tail |-> n]
                     /\ 1 \notin clear /\ n \notin clear

\* The GLES range is found again in the types it was written back to.
LEMMA RangeFoundAgain ==
  ASSUME NEW n \in Nat, NEW types, DOMAIN types = 1 .. n,
         NEW range, NEW clear, Divides(n, range, clear),
         \A i \in 1 .. n : types[i] = "INVALID" <=> InRange(i, range) /\ i \notin clear
  PROVE  findGlesRange(types) = range
<1> DEFINE found == findGlesRange(types)
<1>1. /\ found \in Ranges(n)
      /\ \A i \in 1 .. n : types[i] = "INVALID" => InRange(i, found)
      /\ found # NoRange => /\ types[found.head] = "INVALID"
                            /\ types[found.tail] = "INVALID"
  BY FoundRange
<1> HIDE DEF found
<1>2. CASE range = NoRange
  <2>1. \A i \in 1 .. n : types[i] # "INVALID"
    BY <1>2 DEF InRange
  <2>2. found = NoRange
    BY <1>1, <2>1 DEF Ranges
  <2> QED BY <1>2, <2>2 DEF found
<1>3. CASE range # NoRange
  <2>1. /\ range = [head |-> range.head, tail |-> range.tail]
        /\ range.head \in 1 .. n /\ range.tail \in 1 .. n /\ range.head <= range.tail
    BY <1>3 DEF Divides, Ranges
  <2>2. range.head \notin clear /\ range.tail \notin clear
    BY DEF Divides
  <2>3. types[range.head] = "INVALID" /\ types[range.tail] = "INVALID"
    BY <1>3, <2>1, <2>2 DEF InRange
  <2>4. found # NoRange /\ range.head \in found.head .. found.tail
        /\ range.tail \in found.head .. found.tail
    BY <1>1, <2>1, <2>3 DEF InRange
  <2>5. /\ found = [head |-> found.head, tail |-> found.tail]
        /\ found.head \in 1 .. n /\ found.tail \in 1 .. n
    BY <1>1, <2>4 DEF Ranges
  <2>6. found.head \in range.head .. range.tail /\ found.tail \in range.head .. range.tail
    BY <1>1, <2>4, <2>5 DEF InRange
  <2>7. found.head = range.head /\ found.tail = range.tail
    BY <2>1, <2>4, <2>5, <2>6
  <2> QED BY <2>1, <2>5, <2>7 DEF found
<1> QED BY <1>2, <1>3

-----------------------------------------------------------------------------
(* The whole rule.                                                         *)

\* Fewer layers are cleared than there are inputs, if there are two inputs or
\* no layer lies between two others.
LEMMA ClearLayersFit ==
  ASSUME NEW n \in Nat, NEW inputs \in Nat \ {0}, n <= 2 \/ inputs >= 2,
         NEW clearable \in SUBSET (1 .. n)
  PROVE  LET clear == ClearLayers(n, clearable, inputs)
         IN  clear # {} => Cardinality(clear) < inputs
<1> DEFINE inner == {i \in clearable : 1 < i /\ i < n}
           clear == ClearLayers(n, clearable, inputs)
           UpTo(i) == {j \in inner : j <= i}
<1> SUFFICES ASSUME clear # {} PROVE Cardinality(clear) < inputs
  OBVIOUS
<1>1. \A i \in inner : i \in 1 .. n /\ 1 < i /\ i < n
  OBVIOUS
<1>2. IsFiniteSet(1 .. n)
  BY FS_Interval
<1>3. inner \subseteq 1 .. n /\ IsFiniteSet(1 .. n)
  BY <1>1, <1>2
<1>4. inputs # 1 /\ clear = {i \in inner : Cardinality(UpTo(i)) < inputs}
  <2>1. n <= 2 => inner = {}
    <3>1. ASSUME n <= 2, NEW i \in inner PROVE FALSE
      BY <1>1, <3>1
    <3> QED BY <3>1
  <2>2. inputs = 1 => clear = {}
    BY <2>1 DEF ClearLayers
  <2>3. inputs # 1 => clear = {i \in inner : Cardinality(UpTo(i)) < inputs}
    BY DEF ClearLayers
  <2> QED BY <2>2, <2>3
<1> HIDE DEF clear
<1>5. clear \in SUBSET (1 .. n)
  BY <1>3, <1>4
<1> DEFINE top == Max(clear)
<1>6. top \in clear /\ \A i \in clear : i <= top
  BY <1>5, LeastAndGreatest
<1> HIDE DEF top
<1>7. Cardinality(UpTo(top)) < inputs
  BY <1>4, <1>6
<1>8. clear \subseteq UpTo(top) /\ UpTo(top) \subseteq 1 .. n
  BY <1>3, <1>4, <1>6
<1> HIDE DEF UpTo
<1>9. IsFiniteSet(UpTo(top))
  BY <1>3, <1>8, FS_Subset
<1>10. IsFiniteSet(clear) /\ Cardinality(clear) <= Cardinality(UpTo(top))
  BY <1>8, <1>9, FS_Subset
<1>11. Cardinality(clear) \in Nat /\ Cardinality(UpTo(top)) \in Nat
  BY <1>9, <1>10, FS_CardinalityType
<1> QED BY <1>7, <1>10, <1>11

\* Whether it clears layers or lets the range grow, the rule leaves no more
\* layers on inputs than there are, and takes none from the GPU but those it
\* clears.  (The inputs of clear layers fit but where a single input is shared
\* out among three layers, see hrt_common.cpp:129.)
THEOREM RuleFits ==
  ASSUME NEW n \in Nat, NEW range \in Ranges(n), NEW inputs \in Nat \ {0},
         NEW clearable \in SUBSET (1 .. n)
  PROVE  LET rule == simpleLayeringRule(n, range, clearable, inputs)
         IN  /\ Divides(n, rule.range, rule.clear) /\ rule.clear \subseteq clearable
             /\ CommittedCount(n, rule.range) <= inputs
             /\ \A i \in 1 .. n : InRange(i, range) => InRange(i, rule.range)
             /\ (n <= 2 \/ inputs >= 2) /\ rule.clear # {} =>
                  Cardinality(rule.clear) < inputs
<1> DEFINE clear == ClearLayers(n, clearable, inputs)
           over == CommittedCount(n, range) - inputs
           rule == simpleLayeringRule(n, range, clearable, inputs)
<1>1. CommittedCount(n, range) \in Int
  BY DEF CommittedCount, GlesCount, Ranges
<1>2. CASE over <= 0
  <2>1. rule = [range |-> range, clear |-> {}]
    BY <1>2 DEF simpleLayeringRule
  <2> QED BY <1>1, <1>2, <2>1 DEF Divides
<1>3. CASE ~(over <= 0) /\ clear = {}
  <2>1. /\ rule.range \in Ranges(n) /\ rule.clear = {}
        /\ CommittedCount(n, rule.range) <= inputs
        /\ \A i \in 1 .. n : InRange(i, range) => InRange(i, rule.range)
    BY <1>3, RuleFitsInputs
  <2> QED BY <2>1 DEF Divides
<1>4. CASE ~(over <= 0) /\ clear # {}
  <2>1. rule = [range |-> [head |-> 1, tail |-> n], clear |-> clear]
    BY <1>4 DEF simpleLayeringRule
  <2>2. clear \subseteq {i \in clearable : 1 < i /\ i < n}
    BY DEF ClearLayers
  <2>3. \A i \in clearable : i \in 1 .. n
    OBVIOUS
  <2>4. \A i \in clear : i \in clearable /\ i \in 1 .. n /\ 1 < i /\ i < n
    BY <2>2, <2>3
  <2> HIDE DEF clear
  <2>5. n > 2
    BY <1>4, <2>4
  <2>6. rule.range # NoRange /\ rule.range \in Ranges(n)
    BY <2>1, <2>5 DEF NoRange, Ranges
  <2>7. Divides(n, rule.range, rule.clear) /\ rule.clear \subseteq clearable
    <3>1. rule.clear = clear /\ rule.range = [head |-> 1, tail |-> n]
      BY <2>1
    <3>2. clear \subseteq clearable /\ 1 \notin clear /\ n \notin clear
      BY <2>4
    <3> HIDE DEF rule
    <3> QED BY <2>6, <3>1, <3>2 DEF Divides
  <2>8. CommittedCount(n, rule.range) = 1
    BY <2>1, <2>5, <2>6 DEF CommittedCount, GlesCount
  <2>9. \A i \in 1 .. n : InRange(i, rule.range)
    BY <2>1, <2>6 DEF InRange
  <2>10. (n <= 2 \/ inputs >= 2) => Cardinality(rule.clear) < inputs
    BY <1>4, <2>1, ClearLayersFit DEF clear
  <2> QED BY <2>7, <2>8, <2>9, <2>10
<1> QED BY <1>2, <1>3, <1>4

\* Clear layers are stacked beneath the client target, whose input all others
\* share.
THEOREM ClearSlotsStack ==
  ASSUME NEW n \in Nat, NEW range, NEW clear, Divides(n, range, clear), clear # {}
  PROVE  LET slot == SlotsOf(n, range, clear, Cardinality(clear))
         IN  /\ slot \in [1 .. n -> 0 .. Cardinality(clear)]
             /\ \A i \in 1 .. n : i \in clear <=> slot[i] < Cardinality(clear)
             /\ \A i, k \in clear : i < k => slot[i] < slot[k]
<1> DEFINE num == Cardinality(clear)
           slot == SlotsOf(n, range, clear, num)
           Below(i) == {j \in clear : j < i}
<1>1. clear \subseteq 1 .. n /\ IsFiniteSet(1 .. n)
  BY FS_Interval DEF Divides
<1>2. IsFiniteSet(clear) /\ num \in Nat
  BY <1>1, FS_Subset, FS_CardinalityType
<1>3. num > 0
  BY <1>2, FS_EmptySet
<1>4. slot = [i \in 1 .. n |-> IF i \in clear THEN Cardinality(Below(i)) ELSE num]
  BY <1>2, <1>3 DEF SlotsOf
<1>5. \A i : /\ IsFiniteSet(Below(i)) /\ Cardinality(Below(i)) \in Nat
             /\ Cardinality(Below(i)) <= num
             /\ Cardinality(Below(i)) = num => Below(i) = clear
  <2> TAKE i
  <2>1. Below(i) \in SUBSET clear
    OBVIOUS
  <2> HIDE DEF Below
  <2> QED BY <1>2, <2>1, FS_Subset, FS_CardinalityType
<1>6. \A i \in clear : i \in Int /\ i \notin Below(i) /\ Below(i) # clear
  <2>1. \A i \in clear : i \in 1 .. n
    BY <1>1
  <2> QED BY <2>1
<1>7. \A i \in clear : Cardinality(Below(i)) < num
  <2> TAKE i \in clear
  <2>1. Cardinality(Below(i)) # num
    BY <1>5, <1>6
  <2> HIDE DEF Below
  <2> QED BY <1>2, <1>5, <2>1
<1>8. ASSUME NEW i \in clear, NEW k \in clear, i < k
      PROVE  Cardinality(Below(i)) < Cardinality(Below(k))
  <2>1. Below(i) \in SUBSET Below(k) /\ Below(i) # Below(k)
    <3>1. i \in Below(k) /\ i \notin Below(i)
      BY <1>6, <1>8
    <3>2. \A j \in Below(i) : j \in Below(k)
      BY <1>6, <1>8
    <3> QED BY <3>1, <3>2
  <2>2. /\ Cardinality(Below(i)) <= Cardinality(Below(k))
        /\ Cardinality(Below(i)) # Cardinality(Below(k))
    BY <1>5, <2>1, FS_Subset
  <2> QED BY <1>5, <2>2
<1> HIDE DEF Below
<1> QED BY <1>1, <1>2, <1>4, <1>5, <1>7, <1>8

=============================================================================
