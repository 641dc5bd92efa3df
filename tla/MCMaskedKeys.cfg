SPECIFICATION KeysSpec
CONSTANTS
    a = a
    b = b
    k1 = k1
    k2 = k2
    k3 = k3
    similar = similar
    stars = stars
    Tabs = {t1, t2}
    NoTab = NoTab
    Profiles = {a, b}
    Keys = {k1, k2, k3}
    MaskOf <- MCMaskOf
    Initial <- MCInitial
    MaxLength = 3
    MaxSaves = 3
SYMMETRY TabSymmetry
PROPERTIES StoredAsMeant
