CONSTANTS
    Ids = {"r", "q", "p", "d"}
    IdOrder <- MCIdOrder
    Models = {"", "m", "n"}
    EmptyModel = ""
    None = None
    Catalogue <- MCCatalogue
    StaticEntries <- MCStatics
    Admins = {"alice", "bob"}
    MaxEdits = 2
SPECIFICATION Spec
CONSTRAINT MCOneAdminWhileWalking
INVARIANTS ChainIsSimple FirstUsableMemberServes CyclesAreReal ScansAreExact
PROPERTIES WalksEnd CyclesEnterUnchecked
