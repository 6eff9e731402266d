----------------------------- MODULE MCPcscdCtl -----------------------------
EXTENDS PcscdCtl

CONSTANTS reader1, restarter1, restarter2, ccidBench

MCReaders == {reader1}
MCDisturbers == {restarter1, restarter2}
MCRestarters == {restarter1, restarter2}
MCPlaces == {ccidBench}

\* The place belongs to the first restarter's lane and is foreign to the second.
MCTokens == [n \in MCRestarters \cup MCPlaces |->
    IF n = restarter2 THEN {"tollgate"} ELSE {"ccid"}]
=============================================================================
