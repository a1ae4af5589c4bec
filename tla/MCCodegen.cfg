SPECIFICATION InspectSpec
CONSTANTS
  Programs <- MCPrograms
  ExternResults <- MCResults
INVARIANTS FrameSizeTrue CallsAligned LineShown ValuesShown
PROPERTIES RefinesMir ProgramsEnd
CHECK_DEADLOCK FALSE
