SPECIFICATION Spec
CONSTANTS
    Ports = {0, 1000, 1001, 4532, 5555, 32767, 32768, 40000, 65534, 65535, 65536, 70000}
    Busy = {1001}
    MaxOptions = 4
INVARIANT TableReady
CHECK_DEADLOCK FALSE
