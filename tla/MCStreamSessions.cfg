CONSTANTS
    Binance = Binance
    Exchange = {Binance, Unknown}
    Unsupported = {Unknown}
    Caller = {k1}
    Creds = {}
    NoCreds = NoCreds
    NoClient = NoClient
    Unspecified = Unspecified
    MaxClients = 2
    WebSocket = {w1}
    GrpcStream = {g1}
    Setting <- MCSetting
SPECIFICATION Spec
INVARIANTS TypeOK NothingAfterError
PROPERTIES SessionsUseThePool SessionEndsAfterPeer ReaderDoesNotLeak
