SPECIFICATION FairSpec
CONSTANTS
  Jobs = {j1, j2, j3}
  MaxAhead = 2
PROPERTY LiveJobsServed
