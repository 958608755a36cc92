SPECIFICATION CardSpec
CONSTANTS
  Tempos = {60, 90}
  MaxNow = 1
  MaxTaps = 4
INVARIANT NoCardStuck
CHECK_DEADLOCK FALSE
