SPECIFICATION Spec
CONSTANTS
    Frame = 2
    CaptureSize = 6
    CaptureTarget = 4
    CaptureMargin = 2
    PlaybackSize = 6
    PlaybackTarget = 4
    PlaybackMargin = 1
    CallbackSizes = {1, 7}
    MaxCaptured = 10
    Half = 4
    MaxBuffered = 3
    Base = 6
CHECK_DEADLOCK FALSE
INVARIANTS
    MediaInv
    HeardInOrder
    PlayedInPlace
PROPERTY
    BuffersAreFifo
