CONSTANTS
    Helpers = {h1, h2}
    Devices = {d1, d2}
    MaxDevices = 2
    MaxInbox = 2
    Requests <- MCRequests
SYMMETRY Symmetric
SPECIFICATION Spec
INVARIANT GrantsExclusive
