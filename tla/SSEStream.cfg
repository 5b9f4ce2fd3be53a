SPECIFICATION StreamSpec
CONSTANTS
    MaxAnthropic = 5
    MaxGoogle = 2
    MaxOpenAI = 3
INVARIANTS
    ClientFollows
    ToolChoiceRespected
    StreamedAsGenerated
    CallsSentBack
