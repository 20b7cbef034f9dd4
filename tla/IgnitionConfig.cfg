SPECIFICATION FairConfigSpec
CONSTANTS
  MaxConverters = 3
  MaxEntries = 3
  ConverterLists <- MCConverterLists
  Contents <- MCContents
  RawConfigs <- MCRawConfigs
INVARIANTS TypeOK ChainsConnect ConvertNeverMistyped NewestWins RefusedForItsOwnSake
PROPERTIES RegistersAllPairs RegistrationEnds
