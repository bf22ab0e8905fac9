---------------------------- MODULE MCHashContext ----------------------------
(***************************************************************************)
(* One context and up to two copies, or copies of copies, of it.           *)
(***************************************************************************)
EXTENDS HashContext

MCSignatures == [of : {<< >>, << "a" >>}, whole : BOOLEAN]
==============================================================================
