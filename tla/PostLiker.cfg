SPECIFICATION Spec
CONSTANTS
  Posts <- Feed
  AuthorOf <- Authors
  PartOf <- Longer
  Href = {1}
  Promoted = {}
  Kinds = {"Like", "Celebrate"}
  Stride = 1
  Target = 2
  Earlier = 1
  MaxAttempts = 2
  MaxRounds = 2
  StopsShown = {"blocked"}
  Zones = {TRUE, FALSE}
  MaxBlind = 1
  MaxDay = 2
INVARIANTS
  CountedUnderTarget
  StatusIsTrue
PROPERTIES
  NeverUnlikes
