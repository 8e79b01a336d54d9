------------------------------ MODULE MCImports ------------------------------
(* Imports for TLC: the one job imp, its unit, and no lock.                *)
EXTENDS Imports

CONSTANTS imp, u, v

MCJob == {imp}
MCUrl == {u, v}
=============================================================================
