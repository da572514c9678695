SPECIFICATION FairClientSpec
CONSTANTS
  NULL = NULL
  p8 = p8
  p32 = p32
  pAny = pAny
  pGL = pGL
  pMix = pMix
  Plugins = {p8, p32, pGL}
  PluginDepth <- MCDepth
  FixedSize = {p8}
  Unloadable = {}
  Actors = {a1, a2}
  Videos = {v1, v2}
  Morphs = {m1}
  Screens = {s1}
  MorphDepth = {1, 8}
  MorphNames = {"loads"}
  MorphFrames = 2
  DepthFlags <- MCFlags
  Preferences = {"highest"}
  Styles = {"morph"}
  Modes = {"time"}
  Calls = {"connect_by_names", "switch_actor_by_name", "set_morph_by_name", "resize", "quit"}
  Patient = TRUE
PROPERTY RequestGranted
CHECK_DEADLOCK FALSE
