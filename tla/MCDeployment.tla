----------------------------- MODULE MCDeployment -----------------------------
(* Two controllers, a release that works, one to update to, one that does not. *)
EXTENDS Deployment

CONSTANTS ann, bob, v1, v2, v3

TheControllers == {ann, bob}
TheVersions == {v1, v2, v3}
TheBroken == {v3}
=============================================================================
