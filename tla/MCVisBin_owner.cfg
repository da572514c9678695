SPECIFICATION ClientSpec
CONSTANTS
  NULL = NULL
  p8 = p8
  p32 = p32
  pAny = pAny
  pGL = pGL
  pMix = pMix
  Plugins = {p8, p32, pGL}
  PluginDepth <- MCDepth
  FixedSize = {p8}
  Unloadable = {p8}
  Actors = {a1, a2, a3}
  Videos = {v1, v2}
  Morphs = {m1}
  Screens = {s1}
  MorphDepth = {1, 8}
  MorphNames = {"loads", "unknown"}
  MorphFrames = 2
  DepthFlags <- MCFlags
  Preferences = {"highest"}
  Styles = {"direct"}
  Modes = {"time"}
  Calls = {"connect", "switch_actor", "set_morph", "resize",
           "unknown_input", "skip_realize", "switch_finalize", "finalize_idle"}
  Patient = TRUE
SYMMETRY MCSymmetry
INVARIANTS NoBadAccess ClientKeepsActors
CHECK_DEADLOCK FALSE
