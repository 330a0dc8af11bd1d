\* Two frames in flight, the user minimising and changing the window twice.
CONSTANTS
    FramesInFlight = 2
    ImageCount = 3
    Surface <- Surfaces
    FirstSurface <- First
    Zero = 0
    MaxChanges = 2
SPECIFICATION FairSpec
INVARIANTS NothingInUseTouched SignalsPaired SwapchainFollows
PROPERTIES FollowsUser
