\* Two instances that may create the stream and one that may not, an
\* administrator and outages; a signal at any time.
SPECIFICATION Spec
CONSTANTS
  old = old
  new = new
  guest = guest
  Instances = {old, new, guest}
  Wanted <- Deployed
  Configs <- ThreeConfigs
  Placeable <- ThreeServers
  Valid <- InOrder
  MaxFaults = 2
INVARIANTS TypeOK HasStream
PROPERTIES NeverMutated EventuallyRuns SignalEnds
