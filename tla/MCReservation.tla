---------------------------- MODULE MCReservation ----------------------------
EXTENDS Reservation

CONSTANTS fips1, fips2, bolty, FIPS, BOLTY

MCProcs == {fips1, fips2, bolty}
MCProjects == {FIPS, BOLTY}
MCProject == [p \in MCProcs |-> IF p = bolty THEN BOLTY ELSE FIPS]
MCPatient == {bolty}
=============================================================================
