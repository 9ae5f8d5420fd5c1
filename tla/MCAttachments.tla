---------------------------- MODULE MCAttachments ----------------------------
(* The instances of Attachments: pages, runs and files are interchangeable. *)
EXTENDS Attachments, TLC

Symmetry == Permutations(Pages) \cup Permutations(Runs) \cup Permutations(Attachments)
=============================================================================
