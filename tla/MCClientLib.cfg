CONSTANTS
  f = f
  g = g
  Threads = {t1, t2}
  Main = t1
  Releasers = {t1}
  Poller = poller
  Names = {f, g}
  Finished = f
  GaugeValues = {1}
  Asks <- MCAsks
  Others <- MCOthers
  MaxAdds = 1
  MaxWire = 1
SPECIFICATION Spec
INVARIANTS
  TypeOK
  Conserved
  DescribedFirst
  ExitFlushes
