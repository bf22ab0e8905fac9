-------------------------- MODULE MCPolicyBuilder --------------------------
(***************************************************************************)
(* Instance of PolicyBuilder: a lax and a strict validator for the two     *)
(* extensions a policy must require, Python callbacks that accept, raise   *)
(* or return a value, and certificates that break one rule each.           *)
(***************************************************************************)
EXTENDS PolicyBuilder, PkiData

MCAssignments ==
  { << "basic_constraints", MaybePresent("Agnostic", "none") >>,
    << "basic_constraints", Present("Agnostic", "py::returns_none") >>,
    << "subject_alternative_name", NotPresent >>,
    << "subject_alternative_name", Present("Agnostic", "none") >>,
    << "key_usage", MaybePresent("NonCritical", "py::raises") >>,
    << "key_usage", MaybePresent("Critical", "py::returns_value") >>,
    << "certificate_policies", NotPresent >> }

MCSubjects == {DNS(<< "foo", "com" >>), DNS(<< "*", "com" >>), IP(<< 1, 0 >>), IP(<< 1 >>), Directory}

Unknown(critical) == Extension("certificate_policies", critical, "ok", << >>)

FooCom == SAN(<< DNS(<< "FOO", "com" >>), IP(<< 1, 0 >>) >>)

MCTestCerts ==
  << MkCert("L", "A", "k", "k", << AKI, FooCom >>),
     MkCert("L", "A", "k", "k", << AKI, SAN(<< DNS(<< "bar", "com" >>) >>) >>),
     MkCert("L", "A", "k", "k", << AKI >>),
     MkCert("L", "A", "k", "k", << AKI, BadSAN >>),
     MkCert("L", "A", "k", "k", << AKI, FooCom, Unknown(TRUE) >>),
     MkCA("A", "A", "k", "k", {}, << FooCom, Unknown(FALSE) >>),
     MkCA("A", "A", "k", "k", {0}, << >>),
     MkCA("A", "A", "k", "k", {}, << Unknown(TRUE) >>),
     MkCert("A", "A", "k", "k", << BC(FALSE, {}), KU(TRUE) >>),
     MkCert("A", "A", "k", "k", << KU(TRUE) >>) >>
=============================================================================
