CONSTANTS
  f = f
  g = g
  Threads = {t1}
  Main = t1
  Releasers = {t1}
  Poller = poller
  Names = {f, g}
  Finished = f
  GaugeValues = {1, 2}
  Asks <- MCAsks
  Others <- MCOthers
  MaxAdds = 1
  MaxWire = 1
SPECIFICATION Spec
INVARIANTS
  LastGaugeUnlessOverlap
PROPERTIES
  Delivered
