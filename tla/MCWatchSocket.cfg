SPECIFICATION Spec
CONSTANTS
    Keys = {pods, widgets}
    Unsupported = {widgets}
    Sockets = {s1, s2}
    MaxListeners = 2
    MaxSubscribes = 2
    MaxPerConn = 1
    MaxTotal = 1
    MaxUp = 2
    MaxDown = 1
    MaxDrops = 1
    None = None
INVARIANTS TypeOK ListsFollowedOrTold PlacesOnlyForScreen LiveWatchHoldsPlace NoPlaceLeaks SocketWillReopen
PROPERTIES ListsComeBack
CHECK_DEADLOCK FALSE
