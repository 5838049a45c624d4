SPECIFICATION Spec
CONSTANTS
  None = None
  MaxPort = 4
  Pods <- MCPods
  Sizes = {1, 2}
  ClipboardText <- MCText
  InitialBackoff = 1
  MaxBackoff = 3
  MaxConnections = 3
  MaxPastes = 2
  DefaultName = "default"
  ConfigMaps <- MCConfigMaps
  Nodes <- MCNodes
  Usernames = {"user"}
  Zone = "zone"
  Columns = {1, 2}
  MaxRuns = 2
  PodFor <- getDebugPod
  DataStream <- MCData
  ErrorStream <- MCError
  Header = 2
\* A user may leave a tab alone at any time.
CHECK_DEADLOCK FALSE
INVARIANTS ServedAsChosen PodAsConfigured SessionsWork DebugSession StreamIntact
