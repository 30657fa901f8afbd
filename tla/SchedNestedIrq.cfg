CONSTANTS
    idle = idle
    worker = worker
    compositor = compositor
    demo = demo
    None = None
    Idle = idle
    Kernel = {worker, compositor}
    User = {demo}
    Order <- MCOrder
    Exiting = {worker}
SPECIFICATION Spec
INVARIANTS YieldIsSafe
