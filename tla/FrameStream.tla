---------------------------- MODULE FrameStream ----------------------------
(***************************************************************************)
(* What a display buffer queue promises the two sides of a blit: frames    *)
(* are numbered as they are put and taken in that order.  A lossless       *)
(* stream (synchronous mode) hands out every frame; a lossy one keeps only *)
(* the newest.  The mode may become lossy only when nothing waits.         *)
(***************************************************************************)
EXTENDS Integers, Sequences

CONSTANT Limit          \* frames ever put, bounded for the checker

VARIABLES waiting,      \* frame numbers put and not taken, oldest first
          lossless,     \* the mode
          put,          \* the last frame number put
          taken         \* the last frame number taken

vars == <<waiting, lossless, put, taken>>

Init == waiting = <<>> /\ lossless = TRUE /\ put = 0 /\ taken = 0

Put ==
    /\ put < Limit
    /\ put' = put + 1
    /\ waiting' = IF lossless THEN Append(waiting, put + 1) ELSE <<put + 1>>
    /\ UNCHANGED <<lossless, taken>>

Take ==
    /\ waiting # <<>>
    /\ taken' = Head(waiting)
    /\ waiting' = Tail(waiting)
    /\ UNCHANGED <<lossless, put>>

Switch ==
    /\ lossless => waiting = <<>>
    /\ lossless' = ~lossless
    /\ UNCHANGED <<waiting, put, taken>>

Next == Put \/ Take \/ Switch

Spec == Init /\ [][Next]_vars
=============================================================================
