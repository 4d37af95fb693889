\* Three containers opened and mounted against an unmount and a lookup.
SPECIFICATION Spec
CONSTANTS
    Opens = {o1, o2, o3}
    Unmounts = {u1}
    Lookups = {l1}
    None = None
CHECK_DEADLOCK FALSE
INVARIANTS
    MountedIsOpen
    KeysOnlyOfMounted
PROPERTIES
    SuccessIsMounted
    ReplacedIsDestroyed
