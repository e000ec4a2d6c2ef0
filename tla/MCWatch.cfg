SPECIFICATION SessionSpec
CONSTANTS
  Metrics = {"ttfb"}
  MaxSamples = 2
  Readings <- MCReadings
  MaxReadings = 3
  Options = {"dns"}
  Schemes = {"http", "https"}
  Attempts = {1}
  MaxRedirects = 3
 
PROPERTIES
  InterruptObeyed
  ImplementsWatch
