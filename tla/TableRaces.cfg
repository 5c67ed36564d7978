SPECIFICATION TableSpec
CONSTANTS
    Admins = {a, b}
    Statics <- MCStatics
    Payloads <- MCPayloads
    AskedModes <- MCAllModes
    Lists = {l1, l2}
    ApiKeys <- MCKeys
    Cooldowns = {c1, c2}
    NoKey = NoKey
    EmptyList = EmptyList
    None = None
    ks = ks
    kd = kd
    l1 = l1
    l2 = l2
    c1 = c1
    c2 = c2
INVARIANTS StaticKeyStaysOut ResetShowsOldOrStatic
SYMMETRY MCSymmetry
