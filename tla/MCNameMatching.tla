-------------------------- MODULE MCNameMatching --------------------------
(***************************************************************************)
(* Instance of NameMatching: labels of different lengths, in two cases,    *)
(* empty, overlong and illegal ones; addresses of two and of three bits.   *)
(***************************************************************************)
EXTENDS NameMatching

MCLabel == {"com", "x", "X", "long", "*", ""}
MCLabelLen ==
  [l \in MCLabel |-> CASE l = "" -> 0 [] l = "com" -> 3 [] l = "long" -> 4 [] OTHER -> 1]
MCFold == [l \in MCLabel |-> IF l = "X" THEN "x" ELSE l]
MCHostLabel == {"com", "x", "X", "long"}
MCAtomLabel == {"com", "x", "X", "*"}

MCDNSStrings == UNION {[1 .. n -> MCLabel \ {"long"}] : n \in 1 .. 3} \cup {<< "long" >>}

MCBitStrings == UNION {[1 .. n -> {0, 1}] : n \in {1, 2, 3, 4, 6}}

Domains == {<< "com" >>, << "x" >>, << "X" >>, << "x", "com" >>, << "com", "x" >>, << "">>,
            << "x", "x", "com" >>}

MCMailboxes ==
       [dotted : BOOLEAN, at : {FALSE}, local : {<< >>}, domain : Domains]
  \cup [dotted : BOOLEAN, at : {TRUE}, domain : Domains,
        local : {<< "x" >>, << "X" >>, << "x", "*" >>, << "" >>, << "long" >>}]
=============================================================================
