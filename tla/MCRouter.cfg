CONSTANTS
    testMint = testMint
    ownMint = ownMint
    Mints <- MCMints
    TestMint = testMint
    Prices = {1, 2}
    MintLists <- MCMintLists
    Backup <- MCBackup
    Foreign <- MCForeign
    Kinds <- MCKinds
    MaxPolls = 1
    Torn = Torn
    Nothing = Nothing
SPECIFICATION FairSpec
INVARIANTS PricingKept SuccessIsLoaded ResetIsClean
PROPERTIES CallsEnd
