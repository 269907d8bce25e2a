CONSTANTS
    ConfigMaps = {"configmap"}
    Secrets = {"secret"}
    Sets = {"set"}
    Callers = {c1}
    MaxResources = 1
    MaxData = 1
    MaxRev = 3
SPECIFICATION Spec
PROPERTIES
    ToolsKeepTheirClass
CHECK_DEADLOCK FALSE
