SPECIFICATION FairSpec
CONSTANTS
    NULL = NULL
    Plugins <- MCPlugins
    Found <- MCFound
    TypeOf <- MCTypeOf
    NameOf <- MCNameOf
    GL = {"gltest", "madspin"}
    NotReentrant = {"jess"}
    Slots = {s1, s2}
INVARIANTS RefsAreCounted UsesAreCounted
PROPERTY EveryActorComes
CHECK_DEADLOCK FALSE
