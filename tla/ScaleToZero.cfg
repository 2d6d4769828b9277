SPECIFICATION Spec
PROPERTY
  StoppedByHandStaysStopped
CHECK_DEADLOCK FALSE
