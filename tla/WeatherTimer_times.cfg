SPECIFICATION Spec
CONSTANTS
  Tops = {2, 5}
  Limit = 2
  Held = 1
  Word = 2
  Short = 6
  Group = 2
  MinInterval = 1
  Intervals = {0, 1, 2}
INVARIANT MillisExact
INVARIANT GustIsReal
INVARIANT SpeedOfInterval
