CONSTANT Capacity = 3
SPECIFICATION Spec
PROPERTIES
    LegsEnd
    
CHECK_DEADLOCK FALSE
