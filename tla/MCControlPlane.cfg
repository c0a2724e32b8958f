CONSTANTS
    Admins = {a1, a2}
    Pools = {1, 2}
    Flavors = {f}
    Groups = {g}
    u1 = u1
    u2 = u2
    Uris <- MCUris
    Caps <- MCCaps
    None = none
SYMMETRY Symmetry
SPECIFICATION Spec
 
PROPERTIES LastPoolKept PatchCreatesNothing PoolsListed
