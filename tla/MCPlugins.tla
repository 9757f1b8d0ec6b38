----------------------------- MODULE MCPlugins -----------------------------
(* Two plugins, one signing key; the app makes one refresh after the other. *)
EXTENDS Plugins, TLC

MCSymmetry == Permutations(Plugin)
=============================================================================
