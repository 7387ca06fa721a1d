SPECIFICATION FairSpec
CONSTANTS
    NoConnection = NoConnection
    Connections = {c1, c2}
    Kinds <- MCKinds
INVARIANTS
    TypeOK
    ParserExclusive
PROPERTIES
    ImplementsExchange
    Completes
