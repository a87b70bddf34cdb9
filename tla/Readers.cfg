SPECIFICATION Vaults
CONSTANTS
  Docs = {1, 2, 3}
  None = None
  Absent = Absent
  Elsewhere = Elsewhere
  Unparsed = Unparsed
  Contents <- Few
  Days = {0, 1}
  MaxHops = 2
CHECK_DEADLOCK FALSE
INVARIANTS LintSound HiddenUnseen ChainsMatchSearch ValidAtHonest SuppressionKeepsAll
