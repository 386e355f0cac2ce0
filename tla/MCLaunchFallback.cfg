\* rescue --no-check, with no failing call.
SPECIFICATION Spec
CONSTANTS
  Processes = {"admin", "user"}
  Names = {"auto", "hand"}
  HandWritten <- MCHandWritten
  Machines <- MCMachines
  Commands <- MCCommands
  Absent = Absent
  Torn = Torn
  Stores <- MCStores
  MaxEvents = 3
  MaxFaults = 0
PROPERTIES RescueAlwaysFallsBack
CHECK_DEADLOCK FALSE
