CHECK_DEADLOCK FALSE
SPECIFICATION Spec
CONSTANTS
    Clients = {c1, c2}
    Observers = {o}
    Unwanted <- UsedUnwanted
    Kinds = {"recipe"}
    Tries = 2
    MaxEvents = 1
    MaxMishaps = 1
    NoUI = NoUI
INVARIANTS
  EventsComplete
PROPERTIES
  ClientLearnsEnd
  RequestsAnswered
