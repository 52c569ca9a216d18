\* Two businesses and keys that look like prefixed ones.
CONSTANTS
    x = x
    y = y
    z = z
    Sep = Sep
    Bids <- TwoBids
    JavaMset = {}
    Keys <- SomeKeys
    Values <- TwoValues
    None = None
SPECIFICATION Spec
PROPERTY SeparateMaps
