SPECIFICATION FieldsSpec
CONSTANTS
    QueryNames <- MCQueryNames
    Texts = {"23", "Volts"}
INVARIANTS
    FieldsAreFormatted
    EndsOnForeignTypeOnly
    ShownIsWhole
