SPECIFICATION ConfigSpec
CONSTANTS
  MaxConverters = 0
  MaxEntries = 2
  ConverterLists <- MCConverterLists
  Contents <- MCContents
  RawConfigs <- MCRawConfigs
INVARIANT DuplicationRemoved
