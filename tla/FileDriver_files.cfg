SPECIFICATION Spec
CONSTANTS
  s1 = s1
  Scripts = {s1}
  MaxGen = 2
  MaxFaults = 2
 
PROPERTY Swaps
CHECK_DEADLOCK FALSE
