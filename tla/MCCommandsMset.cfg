\* A business that calls mset of BfdJodis (expected to fail).
CONSTANTS
    x = x
    y = y
    z = z
    Sep = Sep
    Bids <- TwoBids
    JavaMset <- JustX
    Keys <- TwoKeys
    Values <- TwoValues
    None = None
SPECIFICATION Spec
PROPERTY MsetIsRead
