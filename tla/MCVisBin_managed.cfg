SPECIFICATION ClientSpec
CONSTANTS
  NULL = NULL
  p8 = p8
  p32 = p32
  pAny = pAny
  pGL = pGL
  pMix = pMix
  Plugins = {p8, p32, pAny, pGL, pMix}
  PluginDepth <- MCDepth
  FixedSize = {p8}
  Unloadable = {}
  Actors = {a1, a2}
  Videos = {v1, v2}
  Morphs = {m1}
  Screens = {s1}
  MorphDepth = {1, 8}
  MorphNames = {"loads", "refused"}
  MorphFrames = 2
  DepthFlags <- MCFlags
  Preferences = {"lowest", "highest"}
  Styles = {"direct", "morph"}
  Modes = {"set", "time"}
  Calls = {"connect_by_names", "switch_actor_by_name", "set_morph_by_name", "resize", "unknown_name",
           "change_style", "quit"}
  Patient = TRUE
SYMMETRY MCSymmetry
INVARIANTS TypeOK NoBadAccess ManagedInvariant RendersSupported DrawsCaughtUp MorphsAlike DepthAgrees NothingLeaks
PROPERTY KeepsPromise
CHECK_DEADLOCK FALSE
