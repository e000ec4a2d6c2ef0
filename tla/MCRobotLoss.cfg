SPECIFICATION Spec
CONSTANTS
  Servers <- MCServers
  Faults = 1
INVARIANT RobotSurvivesLoss
