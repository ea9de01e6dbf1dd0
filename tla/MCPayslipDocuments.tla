------------------------- MODULE MCPayslipDocuments -------------------------
(***************************************************************************)
(* Small instances of the documents of one payslip.  The actors of a kind, *)
(* the sources and the profiles differ in name only.                       *)
(***************************************************************************)
EXTENDS PayslipDocuments, TLC

Symmetry ==
  Permutations(Normalizers) \cup Permutations(Signers)
    \cup Permutations(Sources) \cup Permutations(Profiles)
=============================================================================
