CONSTANTS
    b1 = b1
    b2 = b2
    None = None
    Keys = {alice, bob}
    Builder <- MCBuilder
    Hosts <- MCHosts
    Environments <- MCEnvironments
SPECIFICATION Spec
INVARIANTS TypeOK RequestsMatchCredentials DirectOnlyIfNamed
SYMMETRY Symmetry
