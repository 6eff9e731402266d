---------------------------- MODULE MCStockSwitch ----------------------------
EXTENDS StockSwitch

CONSTANTS driver1, repair1

MCDrivers == {driver1}
MCRepairers == {repair1}

\* Maintenance that goes by the driver's BENCH_LOCK.
MCLockFiles == {"/tmp/amperstrand-bench"}
=============================================================================
