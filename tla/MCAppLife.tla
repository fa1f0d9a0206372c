---- MODULE MCAppLife ----
(* One telephone, with two invitations that only differ by their names. *)
EXTENDS AppLife, TLC

MCSymmetry == Permutations(Url)
====
