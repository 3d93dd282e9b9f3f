-------------------------- MODULE MCReleaseCleanup --------------------------
EXTENDS ReleaseCleanup

KeepOne == {1}
KeepOneOrTwo == {1, 2}
=============================================================================
