CONSTANTS
  h1 = h1  h2 = h2
  Handlers <- MCHandlers
  Limit = 2
  Window = 2
  Threshold = 2
  Cooldown = 3
  MaxErrors = 2
SPECIFICATION FairGateSpec
INVARIANTS RateBounded CounterExpires
PROPERTY BreakerCloses
