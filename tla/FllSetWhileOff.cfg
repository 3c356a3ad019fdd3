SPECIFICATION FllSpec
CONSTANTS
  Freqs = {1000, 333333333}
  SocFreq = 100000000
  BootMults={1525}
  BootDivs={1}
INVARIANT UpdatedWhenTurnedOn
