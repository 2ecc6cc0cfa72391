SPECIFICATION CommandsSpec
CONSTANTS
    Labels = {"", "Coney Island"}
    None = None
    Foreign = Foreign
    NoMessage = NoMessage
    Messages <- BoundedMessages
INVARIANTS
    UnpairedShowsNothing
    ReadAsMeant
PROPERTIES
    RowsAreDurable
