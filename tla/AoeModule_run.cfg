SPECIFICATION FairSpec
  
PROPERTIES RoutinesEnd
CHECK_DEADLOCK FALSE
