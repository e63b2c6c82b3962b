\* Two choices of each end and two searches at a time, over four plans.
SPECIFICATION Spec
CONSTANTS
  Plans = {1, 2, 3, 4}
  GeoaMin = 2
  GeoaMax = 2
  GeoMax = 2
  MaxChoices = 2
  MaxSearches = 2
INVARIANTS
  LinksLeadToPlans
  OneVerdict
  EndsAgree
  LeavesWhatHeSought
