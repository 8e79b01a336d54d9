------------------------------- MODULE MCJobs -------------------------------
(* Instances of Jobs for TLC: gen is a job that takes the run lock, imp is *)
(* one that does not; handlers are interchangeable.                        *)
EXTENDS Jobs, TLC

CONSTANTS gen, imp

MCJob == {gen, imp}
MCLocking == {gen}
Symmetry == Permutations(Handler)
=============================================================================
