----------------------------- MODULE MCPublishing -----------------------------
(***************************************************************************)
(* Publishing for TLC.  Articles matter only to the properties about       *)
(* repeated ones: an ordinary one, and one of a feed that is always        *)
(* included; the other properties ask which run wrote a file or a row.     *)
(***************************************************************************)
EXTENDS Publishing

CONSTANTS ordinary, auto

MCArticle == {ordinary, auto}
MCAutoInclude == {auto}
MCNoArticle == {}
===============================================================================
