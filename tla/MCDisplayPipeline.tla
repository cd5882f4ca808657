------------------------- MODULE MCDisplayPipeline -------------------------
(* Pools of two make the dispatcher and the main thread wait for objects;  *)
(* one plug-in after a plug-out brings in state of the display before it.  *)
EXTENDS DisplayPipeline

\* Layers, a present fence or none, a picture-quality fence or none; a client
\* target alone, with both of these fences or without.
AllFences == ({"A"} \X BOOLEAN \X BOOLEAN)
               \cup {<<"C", TRUE, TRUE>>, <<"C", FALSE, FALSE>>}

\* Fences decide nothing in the control of the threads: one kind is enough
\* where only that is looked at.
OneKind == {<<"A", TRUE, FALSE>>}
=============================================================================
