----------------------------- MODULE MCMediator -----------------------------
(* Four layers on the primary display, one on the external one. *)
EXTENDS Mediator
MCPrimaryLooks == <<{"opaque", "client"}, {"opaque", "alpha"},
                    {"video", "unfit"}, {"video", "opaque"}>>
MCExternalLooks == <<{"opaque", "client"}>>
MCInputs == [d \in Displays |-> IF d = "primary" THEN {2, 3} ELSE {1}]
=============================================================================
