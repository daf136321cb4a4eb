---------------------------- MODULE MCGooseTunnel ----------------------------
(* Model values for TLC.  Payloads and sessions are interchangeable.        *)
EXTENDS GooseTunnel, TLC

Symmetry == Permutations(Payloads) \union Permutations(Sessions)
==============================================================================
