-------------------------- MODULE MCSignalPipeline --------------------------
EXTENDS SignalPipeline, TLC

CONSTANTS m1, m2

MCMessages == {m1, m2}

\* Some texts are rejected, or none is; which of two is does not matter.
MCFilters  == {{m1}, {m1, m2}}
=============================================================================
