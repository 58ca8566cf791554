CONSTANTS
  Targets = {q, r}
  Docs = {a}
  Documents = {r}
  Key <- FirstDoc
  MaxVersion = 2
  Listened <- ListenedTo
  MaxListens <- Listens
  MaxBreaks <- Breaks
SPECIFICATION FairSpec
INVARIANTS SyncedIsExact HonestToken
PROPERTY Syncs
CHECK_DEADLOCK FALSE
