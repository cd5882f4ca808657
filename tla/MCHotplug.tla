----------------------------- MODULE MCHotplug -----------------------------
(* Three events: plugged in, out or changed, and in again while answers to *)
(* the first are outstanding.                                              *)
EXTENDS Hotplug
=============================================================================
