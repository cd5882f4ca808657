------------------------------ MODULE Layering ------------------------------
(***************************************************************************)
(* How hwcomposer divides the layers of one display between the inputs of  *)
(* the overlay engine and the buffer that SurfaceFlinger composes with the *)
(* GPU (the client target, or FBT): the rule of hrt_common.cpp, which is   *)
(* used when the kernel offers no layering query.                          *)
(*                                                                         *)
(* The layers of a display are a sequence, bottom first.  Indices start at *)
(* 1, and a GLES range that the code writes [-1, -1] is NoRange here.      *)
(***************************************************************************)
EXTENDS Integers, FiniteSetsExt

\* What a layer is to the hardware.  "UI" stands for every kind that an
\* input of the overlay engine reads as it is (UI, DIM and CURSOR), "MM" for
\* a layer that goes through the media data path first; "NONE" is the type of
\* a layer that SurfaceFlinger has not described yet.
LayerTypes == {"NONE", "INVALID", "UI", "MM"}

NoRange == [head |-> 0, tail |-> 0]

\* From the lowest layer that the GPU must compose to the highest one.
findGlesRange(types) ==
  LET client == {i \in DOMAIN types : types[i] = "INVALID"}
  IN  IF client = {} THEN NoRange
                     ELSE [head |-> Min(client), tail |-> Max(client)]

InRange(i, range) == range # NoRange /\ i \in range.head .. range.tail

GlesCount(range) == IF range = NoRange THEN 0 ELSE range.tail - range.head + 1

\* The inputs that n layers need: one for each layer outside the range and
\* one for the client target.
CommittedCount(n, range) ==
  n - GlesCount(range) + (IF range = NoRange THEN 0 ELSE 1)

\* The layers between the lowest and the highest one that stay on an input
\* beneath the client target, in which SurfaceFlinger clears a hole for them.
\* They are taken from the bottom until one input is left; a display that has
\* a single input to begin with never sees that count go by.
ClearLayers(n, clearable, inputs) ==
  LET inner == {i \in clearable : 1 < i /\ i < n}
  IN  IF inputs = 1
      THEN IF 2 \in inner THEN inner ELSE {}
      ELSE {i \in inner : Cardinality({j \in inner : j <= i}) < inputs}

\* The range with over more layers in it: those above it first.
GrownRange(n, range, over) ==
  LET above  == n - range.tail
      excess == IF over > above THEN over - above ELSE 0
  IN  IF range = NoRange THEN [head |-> n - over, tail |-> n]
      ELSE [head |-> range.head - excess,
            tail |-> IF excess = 0 THEN range.tail + over ELSE n]

\* The range and the clear layers for n layers on a number of inputs.  When
\* one layer is cleared the GPU composes all the others.
simpleLayeringRule(n, range, clearable, inputs) ==
  LET clear == ClearLayers(n, clearable, inputs)
      over  == CommittedCount(n, range) - inputs
  IN  IF over <= 0     THEN [range |-> range, clear |-> {}]
      ELSE IF clear # {} THEN [range |-> [head |-> 1, tail |-> n], clear |-> clear]
      ELSE [range |-> GrownRange(n, range, over), clear |-> {}]

\* The layers of the range go to the GPU, but for the clear ones.
updateGlesRangeHwType(types, range, clear) ==
  [i \in DOMAIN types |->
     IF InRange(i, range) /\ i \notin clear THEN "INVALID" ELSE types[i]]

\* Mutant: the topmost layer of the range does not end the shared input.
SlotsOfPastTail(n, range, clear, clearNum) ==
  [i \in 1 .. n |->
     IF clearNum > 0
     THEN LET below == Cardinality({j \in clear : j < i})
          IN  IF i \in clear THEN below ELSE clearNum
     ELSE Cardinality({j \in 1 .. n : j < i /\ (j < range.head \/ j > range.tail)})]

\* The input of each layer.  The layers of the range share the input of the
\* client target; the clear layers come beneath it.
SlotsOf(n, range, clear, clearNum) ==
  [i \in 1 .. n |->
     IF clearNum > 0
     THEN LET below == Cardinality({j \in clear : j < i})
          IN  IF i \in clear THEN below ELSE clearNum
     ELSE Cardinality({j \in 1 .. n : j < i /\ (j < range.head \/ j >= range.tail)})]

=============================================================================
