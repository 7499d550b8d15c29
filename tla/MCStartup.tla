----------------------------- MODULE MCStartup -----------------------------
(* Instances of Startup for TLC: with one press of a button (MCStartup.cfg) *)
(* and with nobody pressing any (MCStartupSteering.cfg).                    *)
EXTENDS Startup
=============================================================================
