\* One client is careful, the other also uses the files it has locked; comm.act
\* wraps where it does in the code, beyond the bound on traffic.
SPECIFICATION FairSpec
CONSTANTS
    s1 = s1
    Sessions = {s1, s2}
    Files = {f1, f2}
    NoProc = NoProc
    NETLOCK_LEN = 2
    ActMod = 256
    MaxIO <- Traffic
    FreeUse = {s2}
INVARIANTS GrantedIsOwned NoOrphanLock
PROPERTIES  WaitEnds
