CONSTANTS
    b1 = b1
    b2 = b2
    None = None
    Keys = {alice, bob}
    Builder <- MCBuilder
    Hosts <- MCHosts
    Environments <- MCHttpProxy
SPECIFICATION Spec
INVARIANT NamedHostsBypassProxy
SYMMETRY Symmetry
