--------------------------- MODULE MC_Stage2PgTblArm ---------------------------
EXTENDS Stage2PgTblArm

\* HDCR, HCPTR and HSTR out of reset: zero, HPMN only, and bits outside it.
MC_ResetValues == {0, 4, 100}
====
