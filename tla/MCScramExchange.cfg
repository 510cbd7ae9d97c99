SPECIFICATION Spec
CONSTANTS
    Passwords = {"secret", "sec-ret", "other"}
    Users = {"ann", "ann,x", "eve"}
    Accounts <- AccountTable
    SaltOf <- SaltTable
    Prep <- PrepTable
    Cut <- CutTable
    MaxCalls = 9
INVARIANTS
    ServerTrustsHolder
    ClientTrustsServer
    HonestSucceeds
CHECK_DEADLOCK FALSE
