----------------------------- MODULE MCServiceLife -----------------------------
EXTENDS ServiceLife, TLC

==============================================================================
