--------------------------- MODULE MCPageTableA64 ---------------------------
(* Instances of PageTableA64: three levels of two entries, eight pages.       *)
EXTENDS PageTableA64

CONSTANTS s1, s2, s3


MCSpaces == {s1, s2, s3}
MCMapPages == {1, 6}
MCMapPhys == {50}
MCProts == {{}, {"PROT_WRITE", "PROT_EXEC"}}
MCSymmetry == Permutations(MCSpaces)
=============================================================================
