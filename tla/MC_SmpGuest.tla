---------------------------- MODULE MC_SmpGuest ----------------------------
EXTENDS SmpGuest

\* A BSP and two APs; two distinct SIPI vectors so that a stale or missing
\* vector is told apart from the one sent.
MC_Cpus == {0, 1, 2}
MC_Vectors == {16, 154}
\* A uniprocessor platform.
MC_UpCpus == {0}
=============================================================================
