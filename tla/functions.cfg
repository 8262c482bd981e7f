SPECIFICATION Spec
CONSTANTS
    Documents <- MCDocuments
    RowTexts <- MCRowTexts
    Names <- MCNames
    Ints <- MCInts
    Paths <- MCPaths
    Strings <- MCStrings
    Binaries <- MCBinaries
    HexTexts <- MCHexTexts
    Numbers <- MCNumbers
    Subjects <- MCSubjects
    Patterns <- MCPatterns
    Secrets <- MCSecrets
    KeyLens <- MCKeyLens
    IvLen = 1
    TagLen = 2
    NanosPer <- MCNanosPer
    DaySeconds = 8
    YearSeconds = 20
    MaxNanos = 1000
    Coef <- MCCoef
    MaxI32 = 50
    MaxTicks = 16777215
    ByteStrings <- MCByteStrings
    DecimalTexts <- MCDecimalTexts
    TimeTexts <- MCTimeTexts
    StampTexts <- MCStampTexts
    DateTexts <- MCDateTexts
    Dates <- MCDates
    Zones <- MCZones
    Digits <- MCDigits
    Width <- MCWidth
    DayMillis = 10
    MaxInstant = 16383
    ChronoSecs = 1000
    ResultZones <- MCResultZones
    InstantTicks <- MCInstantTicks
    InputRows <- MCInputRows
    Sorts <- MCSorts
    PlanLeaves <- MCPlanLeaves
    Functions_ <- MCFunctions
    Groups <- MCGroups
    Delimiter <- MCDelimiter
    PctNum = 1
    PctDen = 2
    MaxStates = 2
INVARIANTS
    ColumnsAndLiteralsAgree
    SemiStructuredFunctionsAgree
    FlattenGivesEachPlaceOnce
    TextFunctionsAgree
    ConversionsKeepTheValue
    CalendarFunctionsAgree
    ResultsKeepTheAnswer
    RewritesKeepTheAnswer
    AggregatesIgnoreTheSchedule
