\* A fetch may take as long as half the time after which a report is due.
CONSTANTS
  RefreshAge = 2
  FetchTime = 1
  Observed = {"inverter"}
SPECIFICATION AdvisorySpec
INVARIANT EventsTellState
PROPERTY WeatherComesBack
