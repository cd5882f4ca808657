-------------------------- MODULE MCDispatchThread --------------------------
(* Enough jobs for one to be handled, one to wait in the queue and one to  *)
(* arrive while the loop ends, and a semaphore that VSync may raise above  *)
(* what the jobs need.                                                     *)
EXTENDS DispatchThread
=============================================================================
