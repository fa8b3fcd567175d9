\* Two threads that connect, fail and destroy over shared descriptor numbers.
CONSTANTS
    Threads = {t1, t2}
    TlsThreads = {t1}
    SqlThreads = {t2}
    Fds <- TwoFds
    MaxAddresses = 2
    HeaderLimit = 2
    MaxSent = 5
    MaxUnread = 2
    MaxCalls = 2
SPECIFICATION Spec
INVARIANT TypeOK
INVARIANT HeldByItsConnection
INVARIANT AnswersInOrder
INVARIANT SlotIsTheThreadsOwn
PROPERTY ConnectReturns
\* The application may be done.
CHECK_DEADLOCK FALSE
