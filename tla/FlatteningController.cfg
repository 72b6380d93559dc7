\* Frames of one and several layers, validated or not, against the thread.
SPECIFICATION FlatFairSpec
CHECK_DEADLOCK FALSE
CONSTANT Timeout = 3
INVARIANTS CallbackOnLiveDisplay WakesInTime MixedIsAccountedFor
PROPERTIES IdleSettles ThreadEnds
