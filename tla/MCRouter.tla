------------------------------ MODULE MCRouter ------------------------------
EXTENDS Router

CONSTANTS testMint, ownMint

MCMints == {testMint, ownMint}
MCMintLists == {{testMint}, {ownMint}}
MCBackup == [mints |-> {ownMint}, price |-> 1]
MCForeign == [mints |-> {testMint}, price |-> 2]

\* The package's BackendConfig, and two descriptions that have has_sessions_json.
MCKinds == {[rust |-> FALSE, sessionsJson |-> "missing"],
            [rust |-> FALSE, sessionsJson |-> "no"],
            [rust |-> TRUE, sessionsJson |-> "yes"]}
=============================================================================
