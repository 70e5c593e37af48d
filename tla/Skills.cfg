SPECIFICATION Spec
CONSTANTS
  weather = weather
  intro = intro
  d1 = d1
  empty = empty
  Slugs = {weather, intro, empty}
  Within <- MCWithin
  Plain = {weather, intro}
  Learned = {intro, empty}
  Bundled = intro
  Domains = {d1}
  Mentions <- MCMentions
  MaxNodes = 2
  Handlers = {h1, h2}
  MaxFaults = 1
  None = None
SYMMETRY Symmetry
INVARIANTS
  TypeOK
  NodesHaveFiles
  AllowListsAgree
CHECK_DEADLOCK FALSE
