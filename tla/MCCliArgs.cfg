SPECIFICATION Spec
CONSTANTS
  Words = {"-s", "-g", "-l", "-c", "-m", "-i", "-gl", "-lm", "-mx", "v", "on"}
  LettersOf <- MCLetters
  Attached <- MCAttached
  NoWord = ""
  On = "on"
  Off = "off"
  MaxWords = 5
INVARIANTS TypeOK ActsAsRead ObeysOrdered
CHECK_DEADLOCK FALSE
