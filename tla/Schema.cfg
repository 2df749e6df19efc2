SPECIFICATION SchemaSpec
CHECK_DEADLOCK FALSE
CONSTANTS
    None = None
    Parsed <- Schemas
    enum_member_name <- Names
    field_name <- FieldNames
    Reserved <- Keywords
INVARIANTS
    NamesKept
    MembersKept
    OneClassPerType
    EmitsTheCore
