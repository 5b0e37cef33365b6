----------------------- MODULE MCExtensionActivation -----------------------
(* Two activators and two versions of two plugins, interchangeable. *)
EXTENDS ExtensionActivation, TLC

Symmetric == Permutations(Activators) \cup Permutations(Plugins) \cup Permutations(Versions)
=============================================================================
