SPECIFICATION PreemptibleSpec
CONSTANTS
  MAX_PAGES = 3
  Usable <- MCUsable
  RefLimit = 3
  MaxSharers = 3
  Counts = {1, 2}
INVARIANT FreePagesUnchanged
