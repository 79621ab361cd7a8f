---------------------------- MODULE MC_FakeInput ----------------------------
EXTENDS FakeInput, TLC
=============================================================================
