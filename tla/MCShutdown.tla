---------------------------- MODULE MCShutdown ----------------------------
(* Instances of Shutdown for TLC: who runs the server. *)
EXTENDS Shutdown

CONSTANTS h1, h2, g1, g2

As(o, c, r) == [owned |-> o, cancellable |-> c, restarts |-> r]

(* run(), which owns the process, alone or with tasks of its application that *)
(* call stop() and may be cancelled in it. *)
MCRun     == {As(TRUE, FALSE, FALSE)}
MCRunApps == {As(TRUE, TRUE, FALSE)}

(* run_async() in a host that leaves it alone, cancels its tasks, starts the *)
(* server again, or does both. *)
MCServed    == {As(FALSE, FALSE, FALSE)}
MCCancelled == {As(FALSE, TRUE, FALSE)}
MCRestarted == {As(FALSE, FALSE, TRUE)}
MCEmbedded  == {As(FALSE, TRUE, TRUE)}

MCAllModes == MCRun \union MCRunApps \union MCServed \union MCCancelled
                \union MCRestarted \union MCEmbedded
===========================================================================
