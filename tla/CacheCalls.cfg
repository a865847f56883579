SPECIFICATION Spec
CONSTANTS
    Instances = {i1, i2, i3}
    Keys = {k1, k2, k3}
    NoInstance = NoInstance
    NoKey = NoKey
    Client = Client
    Session = Session
    Nobody = Nobody
INVARIANTS
    TypeOK
    IdentityMap
    OneInstancePerRow
    ChangesNoticed
