SPECIFICATION Spec
CONSTANTS MAX_PHILOSOPHERS=4

PROPERTIES MarkedLeaves
CHECK_DEADLOCK FALSE
