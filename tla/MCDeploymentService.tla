------------------------ MODULE MCDeploymentService ------------------------
(* A server that handles two requests at a time, and the command line.     *)
EXTENDS DeploymentService, TLC

CONSTANTS request1, request2, command, server, cli

MCThread == {request1, request2, command}

MCProcessOf == request1 :> server @@ request2 :> server @@ command :> cli

RequestSymmetry == Permutations({request1, request2})
============================================================================
