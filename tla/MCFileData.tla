----------------------------- MODULE MCFileData ------------------------------
EXTENDS DataTests, TLC
==============================================================================
