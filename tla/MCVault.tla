------------------------------ MODULE MCVault ------------------------------
(***************************************************************************)
(* Two browsers against one panel.                                         *)
(***************************************************************************)
EXTENDS VaultInvariant, TLC

\* The owner changes the password, and resets the panel, with nothing else going on.
ChangesAlone == {"change", "reset"}

\* The panel is stopped for a reset, and otherwise anything overlaps.
ResetAlone == {"reset"}

Symmetry ==
  Permutations(Clients) \cup Permutations(Passwords) \cup
  Permutations(Salts) \cup Permutations(Slots) \cup Permutations(Values)
=============================================================================
