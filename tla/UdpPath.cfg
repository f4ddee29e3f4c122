SPECIFICATION Spec
CONSTANTS
    SlotCount = 2
    UintMax = 3
    MaxPackets = 2
    Zero = Zero
    LastFrame = 3
    MaxLate = 2
    MaxDataSize = 2
    Size <- MCSize
    Image <- MCImage
INVARIANTS TypeOK WholeFrames EachFrameOnce PictureIsCameras
CHECK_DEADLOCK FALSE
