SPECIFICATION Spec
CONSTANTS
    Addresses <- Three
    MaxAllocations = 4
    MaxFunctions = 3
PROPERTY LeakFound
