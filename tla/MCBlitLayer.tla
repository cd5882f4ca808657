---------------------------- MODULE MCBlitLayer ----------------------------
(* Two HWLayers let one frame be set while the other is handled.           *)
EXTENDS BlitLayer
=============================================================================
