\* The compose deployment: the backend restarts while the scheduler works on a flow run.
CONSTANTS
    chat = chat
    flow = flow
    backend = backend
    scheduler = scheduler
    worker = worker
    Run = {chat, flow}
    OneShot = {flow}
    Early = {}
    Proc = {backend, scheduler, worker}
    Api = {backend}
    Cron = worker
    Host <- Containers
    At <- Placement
    BatchLimit = 1
    MaxNow = 0
    MaxCrash = 1
SPECIFICATION Spec
INVARIANTS LostMeansOrphaned
\* The runs are finite in number: the system may rest.
CHECK_DEADLOCK FALSE
