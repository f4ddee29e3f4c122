SPECIFICATION MCSpec
CONSTANTS
    SeqMod = 3
    MaxNals = 1
    MaxParams = 1
INVARIANTS ReceiverTypeOK NoGapInNal OneStreamPerFrame ParamsLeadAnIdr
