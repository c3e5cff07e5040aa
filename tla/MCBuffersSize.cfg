SPECIFICATION MCSpec
CONSTANTS
    Depth = 2
    MaxBeats = 2
    SizeFifoCap = 4
    TransferDepth = 4
    TransferBeats = 3
    TransferSizes = 6
INVARIANT AdapterSizeIsOwn
