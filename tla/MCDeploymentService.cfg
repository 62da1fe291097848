\* Projects, deployments and stops of a server and the command line.
SPECIFICATION Spec
CONSTANTS
  request1 = request1
  request2 = request2
  command = command
  server = server
  cli = cli
  Thread <- MCThread
  Process = {server, cli}
  ProcessOf <- MCProcessOf
  Name = {"blog", "shop"}
  MaxProjects = 2
  MaxDeployments = 2
  MaxTrouble = 2
  None = None
SYMMETRY RequestSymmetry
CHECK_DEADLOCK FALSE
INVARIANTS TypeOK StateSound ContainersKnown ActiveServes
PROPERTIES RecordsKept
