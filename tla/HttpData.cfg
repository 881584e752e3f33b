\* Two clients share the object; any read of MCReads may follow any other.
SPECIFICATION HandlerSpec
CONSTANTS
    Root = Root
    Icon = Icon
    OtherPaths = {nopage}
    None = None
    Reads <- MCReads
    MaxClients = 2
INVARIANTS
    AnswersItsRequest
PROPERTIES
    EveryReadIsHandled
