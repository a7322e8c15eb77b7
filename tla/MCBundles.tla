----------------------------- MODULE MCBundles ------------------------------
(***************************************************************************)
(* Two archives of two chunks, of one bundle or of two; two handlers; a     *)
(* cache with room for one bundle and one abandoned publication.            *)
(***************************************************************************)
EXTENDS Bundles

CONSTANTS a1, a2, b1, b2

\* One archive's bundle may as well be called b1.
MCInit == Init /\ logical[a1] = b1
MCSpec == MCInit /\ [][Next]_vars /\ Fairness
=============================================================================
