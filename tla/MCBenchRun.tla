------------------------------ MODULE MCBenchRun ------------------------------
EXTENDS BenchRun

CONSTANTS run1, run2, visitor, alice, bob

MCRuns == {run1, run2}
MCOutsiders == {visitor}
MCUsers == {alice, bob}
MCUser == [p \in MCRuns \cup MCOutsiders |-> IF p = run2 THEN bob ELSE alice]
MCPatient == {run2}
=============================================================================
