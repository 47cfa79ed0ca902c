SPECIFICATION Spec
CONSTANTS
  ann = ann
  Ann = Ann
  v1 = v1
  v2 = v2
  c = c
  Visitors = {v1, v2}
  Names <- MCNames
  Fold <- MCFold
  Starts <- MCStarts
  Toggles = {t1, t2, t3}
  Coins = {c}
INVARIANTS
  TypeOK
  WelcomedCanLogIn
  LateDeleteSparesNewRow
  ErrorNeedsThree
PROPERTY
  LoneToggleFlips
