\* Two dashboards, AutoRunner, two runs, contracts with Graph ids; fair scheduling.
CONSTANTS
  Dashboard = {d1, d2}
  GraphIds = TRUE
  MaxRun = 2
SPECIFICATION FairSpec
CHECK_DEADLOCK FALSE
INVARIANT ShownIsAudited
INVARIANT SolvingUnderWay
PROPERTY DashboardSettles
