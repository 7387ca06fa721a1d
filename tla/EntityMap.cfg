SPECIFICATION MapSpec
CONSTANTS
    Names <- MCNames
    Rules <- MCRules
    MemberLists <- MCMemberLists
    Meta <- MCMeta
    MaxObjects = 7
    MaxLinks = 2
INVARIANTS
    TypeOK
    StartsUp
    WrittenIsDeclared
    OneBrokerPerEntity
    OrphanOnlyIfNamedTwice
