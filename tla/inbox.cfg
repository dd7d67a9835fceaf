SPECIFICATION Spec
CONSTANTS
  Callers = {c1, c2, c3}
  Main = Main
  Nobody = Nobody
  MaxActors = 3
  MaxRemovals = 1
CHECK_DEADLOCK FALSE
INVARIANT OneActor
PROPERTIES Answered LockReleased ImplementsSerialServer
