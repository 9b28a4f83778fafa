\* Files with short and long lines of every kind, whose comments fit into the
\* buffer; the last line may lack its newline.
SPECIFICATION Spec
CONSTANTS
  k1 = k1
  k2 = k2
  debug = debug
  warning = warning
  Keys = {k1, k2}
  Levels = {debug, warning}
  Garbled = garbled
  BufSize = 4
  ItemLength = 2
  FirstFiles <- EditedFiles
INVARIANTS TypeOK UpdatesProper
PROPERTIES StaysProper
