---------------------------- MODULE MCCompanies ----------------------------
(* Model values for TLC: two companies, one of them in the directories     *)
(* of an older build.                                                      *)
EXTENDS Companies

OldOnes == {"legacy"}
=============================================================================
