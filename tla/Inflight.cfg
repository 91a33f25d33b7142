\* The backend on a host of its own, scheduler and worker on another; the chat turn is a
\* channel's, which may begin before the startup sweep: who is taken by which sweep, and
\* what is settled.
CONSTANTS
    chat = chat
    flow = flow
    backend = backend
    scheduler = scheduler
    worker = worker
    Run = {chat, flow}
    OneShot = {flow}
    Early = {chat}
    Proc = {backend, scheduler, worker}
    Api = {backend}
    Cron = worker
    Host <- JobsHost
    At <- Placement
    BatchLimit = 1
    MaxNow = 1
    MaxCrash = 1
SPECIFICATION FairSpec
INVARIANTS TypeOK DoneMeansSettled
PROPERTIES LiveLostUnseen RestsForGood OrphanSettles
\* The runs are finite in number: the system may rest.
CHECK_DEADLOCK FALSE
