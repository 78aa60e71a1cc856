CONSTANTS
    Exchange = {Binance, Okx, Unknown}
    Unsupported = {Unknown}
    Stream = {s1, s2, s3}
    Caller = {k1, k2}
    Creds = {alice, bob}
    NoCreds = NoCreds
    NoClient = NoClient
    Unspecified = Unspecified
    MaxClients = 3
SYMMETRY Symmetry
SPECIFICATION Spec
INVARIANTS TypeOK RefsCountHolders HoldersUsePooledClient CredentialsStayPrivate
PROPERTY SharedClientPromise
