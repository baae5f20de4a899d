----------------------------- MODULE MCIdentity -----------------------------
(* Two processes of one user; two services and two sets of terms.           *)
EXTENDS InstallationIdentity, TLC

Symmetry == Permutations(Processes) \cup Permutations(Services)
            \cup Permutations(Terms) \cup Permutations(Keys)
=============================================================================
