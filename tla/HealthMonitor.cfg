SPECIFICATION MonitorSpec
SYMMETRY MC_Symmetry
CONSTANTS
  alerts = alerts
  trips = trips
  v1 = v1
  v2 = v2
  Feeds = {alerts, trips}
  Alerts = alerts
  Signals = {payload}
  Values = {v1, v2}
  Absent = 4
  Interval <- MC_Interval
  Frozen = 3
  MaxAge = 2
  Times <- MC_Times
  MaxFailures = 1
  MaxRestarts = 1
INVARIANTS
  HealthyIsTrue
