CONSTANTS
    None = None
    Unknown = Unknown
    Absent = Absent
    Words <- MCWords
    BuiltinSignificant = {"nvim"}
    BuiltinIgnored = {"sh"}
    Runners <- MCRunners
    NodeRunner <- MCNodeRunner
    Name <- MCName
    N = 3
    Session = "here"
    CustomSocket = FALSE
    MaxMaxLength = 128
    DefaultLength = 32
    DefaultSeparator <- MCDefaultSeparator
    PrefixOf <- MCPrefixOf
SPECIFICATION MCSpec
INVARIANTS
    TypeOK
    LoadsWhatIsSound
    NearestWins
    LabelFits
    WholeGraphemes
    ShowsBothEnds
    NothingToSpare
    SidesGrowInTurn
    IgnoredNeverNames
PROPERTIES
    PolicyIsSound
