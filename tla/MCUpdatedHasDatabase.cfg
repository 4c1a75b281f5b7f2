SPECIFICATION UpdateSpec
CONSTANTS
    Tasks <- MCTasks
    Newest = 2
    SchemaOf <- MCSchemaOf
    MaxExits = 1
    MaxPower = 1
PROPERTIES
    UpdatedHasDatabase
CHECK_DEADLOCK FALSE
