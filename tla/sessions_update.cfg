SPECIFICATION Spec
CONSTANTS
    c1 = c1
    c2 = c2
    Caller = {c1, c2}
    Flows <- Configured
    Claims <- Granted
    Entitlement = {full_text}
    Kid <- KeyIds
    MaxSecrets = 2
    MaxFaults = 1
INVARIANT
    UpdateTakes
