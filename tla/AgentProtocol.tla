--------------------------- MODULE AgentProtocol ---------------------------
(***************************************************************************)
(* The agent protocol: the credentials of a node and the validator of      *)
(* src/agent_protocol.rs, the agent of src/agent_server.rs and             *)
(* src/bin/platform-agent.rs, the client of src/agent_client.rs.           *)
(*                                                                         *)
(* One node and one release.  An envelope may be delivered any number of   *)
(* times and any time after it was sent, and several are handled at a      *)
(* time; what the validator does under one lock is one step.  Time is      *)
(* counted in half seconds, so that truncating to whole seconds loses      *)
(* something.  The clock of the sender may differ from the agent's.        *)
(***************************************************************************)
EXTENDS Integers, Sequences

CONSTANTS
  MaxSkew,      \* max_skew of the validator in seconds, 300 in the code
  Drift,        \* how far the sender's clock may be ahead, in half seconds
  Lag,          \* longest time from the check of the timestamp to the
                \* check for a replay, in half seconds
  Commands,     \* commands the client may send
  Handler,      \* envelopes that may be handled at a time
  MaxTime,      \* bound on the time, in half seconds
  MaxCalls,     \* bound on the calls of the client
  MaxTrouble    \* bound on changes of credentials, calls given up, envelopes
                \* delivered as a copy and shutdowns together

Second == 2

\* Commands that change the runtime, those that only report, and those the
\* agent refuses: unreadable, unsafe or meant for the scheduler.
Command == {"create", "start", "stop", "report", "forbidden"}

ASSUME AgentProtocolAssumption ==
  /\ MaxSkew \in Nat /\ Lag \in Nat /\ Drift \subseteq Int
  /\ MaxTime \in Nat /\ MaxCalls \in Nat /\ MaxTrouble \in Nat
  /\ Commands \subseteq Command

VARIABLES
  now,         \* time of the agent's clocks
  token,       \* the node's entry of NodeTokenManager
  keys,        \* keys generated
  retired,     \* history: credentials that were valid once and are not any more
  sent,        \* history: the envelopes sent, and when; the index is the
               \* operation id
  client,      \* what the client knows of each call
  registered,  \* key in the validator's credentials_store
  revoked,     \* the node is in revoked_nodes
  remembered,  \* processed_operations: time by operation id
  handler,     \* envelopes being handled
  draining,    \* is_draining
  runtime,     \* created_releases and running_containers of the adapter
  executed,    \* history: how often each command reached the runtime since
               \* the agent started
  restarts,    \* history: how often the agent was restarted
  trouble      \* history: what MaxTrouble bounds

vars == <<now, token, keys, retired, sent, client, registered, revoked, remembered,
          handler, draining, runtime, executed, restarts, trouble>>
agentVars == <<registered, revoked, remembered, handler, draining, runtime, executed,
               restarts>>
tokenVars == <<token, keys, retired>>

CallState == {"waiting", "done", "refused", "lost"}

Free == [pc |-> "free", op |-> 0, since |-> 0, own |-> FALSE]

Init ==
  /\ now = 0
  /\ token = [key |-> 1, epoch |-> 1, active |-> TRUE]
  /\ keys = 1
  /\ retired = {}
  /\ sent = <<>>
  /\ client = <<>>
  /\ registered = 1
  /\ revoked = FALSE
  /\ remembered = [op \in {} |-> 0]
  /\ handler = [h \in Handler |-> Free]
  /\ draining = FALSE
  /\ runtime = [created |-> FALSE, running |-> FALSE]
  /\ executed = <<>>
  /\ restarts = 0
  /\ trouble = 0

Troubles == trouble' = trouble + 1

---------------------------------------------------------------------------
(* NodeTokenManager.                                                       *)

Credentials == [key |-> token.key, epoch |-> token.epoch]

\* Mutant: credentials are compared by epoch alone.
ValidByEpoch(c) == token.active /\ token.epoch = c.epoch

\* is_valid
IsValid(c) == token.active /\ token.epoch = c.epoch /\ token.key = c.key

\* issue_token starts again at epoch 1, with a new key.
IssueToken ==
  /\ keys' = keys + 1
  /\ token' = [key |-> keys', epoch |-> 1, active |-> TRUE]
  /\ retired' = retired \cup {Credentials}
  /\ Troubles
  /\ UNCHANGED <<now, sent, client, agentVars>>

\* rotate_token; a revoked node gets no new token.
RotateToken ==
  /\ token.active
  /\ keys' = keys + 1
  /\ token' = [key |-> keys', epoch |-> token.epoch + 1, active |-> TRUE]
  /\ retired' = retired \cup {Credentials}
  /\ Troubles
  /\ UNCHANGED <<now, sent, client, agentVars>>

RevokeToken ==
  /\ token.active
  /\ token' = [token EXCEPT !.active = FALSE]
  /\ retired' = retired \cup {Credentials}
  /\ Troubles
  /\ UNCHANGED <<now, keys, sent, client, agentVars>>

---------------------------------------------------------------------------
(* AgentClient.                                                            *)

\* execute signs a new operation with the credentials the client was given; it
\* makes one call at a time.
Send(command, timestamp) ==
  /\ Len(sent) < MaxCalls
  /\ \A op \in DOMAIN client : client[op] # "waiting"
  /\ token.active
  /\ sent' = Append(sent, [command |-> command, timestamp |-> timestamp,
                           key |-> token.key, at |-> now])
  /\ client' = Append(client, "waiting")
  /\ executed' = Append(executed, 0)
  /\ UNCHANGED <<now, tokenVars, registered, revoked, remembered, handler, draining,
                 runtime, restarts, trouble>>

\* The call times out, or its connection breaks.
GiveUp(op) ==
  /\ client[op] = "waiting"
  /\ client' = [client EXCEPT ![op] = "lost"]
  /\ Troubles
  /\ UNCHANGED <<now, tokenVars, sent, agentVars>>

---------------------------------------------------------------------------
(* AgentProtocolValidator and AgentServer.                                 *)

\* register_credentials
RegisterCredentials ==
  /\ registered # token.key
  /\ registered' = token.key
  /\ UNCHANGED <<now, tokenVars, sent, client, revoked, remembered, handler, draining,
                 runtime, executed, restarts, trouble>>

\* revoke_node; nothing takes a node out of revoked_nodes again.
RevokeNode ==
  /\ ~ token.active /\ ~ revoked
  /\ revoked' = TRUE
  /\ UNCHANGED <<now, tokenVars, sent, client, registered, remembered, handler,
                 draining, runtime, executed, restarts, trouble>>

Abs(x) == IF x < 0 THEN -x ELSE x

\* Age of a timestamp in whole seconds, truncated towards zero.
WholeSeconds(x) == IF x < 0 THEN -((-x) \div Second) ELSE x \div Second

\* Steps 1 to 3: version, size and timestamp.
InWindow(timestamp) == Abs(WholeSeconds(now - timestamp)) <= MaxSkew

\* Steps 4 to 6: the node is not revoked, and the envelope is signed with the
\* key that is registered.
Authentic(key) == ~ revoked /\ key = registered

\* Steps 1 to 6 only read, and no two of them read the same state: one step.
Accepted(op) == InWindow(sent[op].timestamp) /\ Authentic(sent[op].key)

\* An envelope arrives, by the client's connection or as a copy.
Arrive(h, op, own) ==
  /\ handler[h].pc = "free"
  /\ own => /\ client[op] = "waiting"
            /\ \A g \in Handler : ~ (handler[g].op = op /\ handler[g].own)
  /\ Accepted(op)
  /\ handler' = [handler EXCEPT ![h] =
                  [pc |-> "replay", op |-> op, since |-> now, own |-> own]]
  /\ IF own THEN UNCHANGED trouble ELSE Troubles
  /\ UNCHANGED <<now, tokenVars, sent, client, registered, revoked, remembered,
                 draining, runtime, executed, restarts>>

\* An envelope that is not accepted; a copy of it has no effect at all.
ArriveRefused(op) ==
  /\ ~ Accepted(op)
  /\ client[op] = "waiting"
  /\ \A g \in Handler : ~ (handler[g].op = op /\ handler[g].own)
  /\ client' = [client EXCEPT ![op] = "refused"]
  /\ UNCHANGED <<now, tokenVars, sent, agentVars, trouble>>

\* The answer goes to the connection the envelope came by.
Answer(h, state) ==
  client' = IF handler[h].own /\ client[handler[h].op] = "waiting"
            THEN [client EXCEPT ![handler[h].op] = state]
            ELSE client

Proceed(h, pc) ==
  /\ handler' = [handler EXCEPT ![h] =
                  [pc |-> pc, op |-> handler[h].op, since |-> 0, own |-> handler[h].own]]
  /\ UNCHANGED client

Finish(h, state) == handler' = [handler EXCEPT ![h] = Free] /\ Answer(h, state)

\* Mutant: operation ids are kept for one max_skew only.
KeptTooShort == {op \in DOMAIN remembered : now - remembered[op] < Second * MaxSkew}

\* The operation ids that are not pruned.
Kept == {op \in DOMAIN remembered : now - remembered[op] < 2 * Second * MaxSkew}

\* Mutant: the time remembered is the envelope's.
TimeOfEnvelope(op) == sent[op].timestamp

\* The time an operation id is remembered with.
RememberedTime(op) == now

\* Mutant: a repeated operation is answered as if it had been executed.
CheckReplayAnswersDone(h) ==
  LET op == handler[h].op IN
  /\ handler[h].pc = "replay"
  /\ remembered' = [o \in Kept \cup {op} |->
                     IF o \in Kept THEN remembered[o] ELSE RememberedTime(o)]
  /\ IF op \in Kept THEN Finish(h, "done") ELSE Proceed(h, "execute")
  /\ UNCHANGED <<now, tokenVars, sent, registered, revoked, draining, runtime,
                 executed, restarts, trouble>>

\* Step 7, under one lock.
CheckReplay(h) ==
  LET op == handler[h].op IN
  /\ handler[h].pc = "replay"
  /\ remembered' = [o \in Kept \cup {op} |->
                     IF o \in Kept THEN remembered[o] ELSE RememberedTime(o)]
  /\ IF op \in Kept THEN Finish(h, "refused") ELSE Proceed(h, "execute")
  /\ UNCHANGED <<now, tokenVars, sent, registered, revoked, draining, runtime,
                 executed, restarts, trouble>>

\* Steps 8 and 9 and the check for draining in execute_command_direct.
Refused(command) == command = "forbidden" \/ (draining /\ command = "create")

\* The adapter's part of a command.
Effect(command) ==
  CASE command = "create" -> [runtime EXCEPT !.created = TRUE]
    [] command = "start" -> [runtime EXCEPT !.running = TRUE]
    [] command = "stop" -> [runtime EXCEPT !.running = FALSE]
    [] OTHER -> runtime

\* execute_command_direct
Execute(h) ==
  LET op == handler[h].op
      command == sent[op].command IN
  /\ handler[h].pc = "execute"
  /\ IF Refused(command)
     THEN Finish(h, "refused") /\ UNCHANGED <<runtime, executed>>
     ELSE /\ Finish(h, "done")
          /\ runtime' = Effect(command)
          /\ executed' = [executed EXCEPT ![op] = @ + 1]
  /\ UNCHANGED <<now, tokenVars, sent, registered, revoked, remembered, draining,
                 restarts, trouble>>

\* main of platform-agent: a signal makes the agent drain, then it ends.
SetDraining ==
  /\ ~ draining
  /\ draining' = TRUE
  /\ Troubles
  /\ UNCHANGED <<now, tokenVars, sent, client, registered, revoked, remembered,
                 handler, runtime, executed, restarts>>

\* The agent is started again and remembers nothing.
Restart ==
  /\ draining
  /\ registered' = token.key
  /\ revoked' = FALSE
  /\ remembered' = [op \in {} |-> 0]
  /\ handler' = [h \in Handler |-> Free]
  /\ draining' = FALSE
  /\ runtime' = [created |-> FALSE, running |-> FALSE]
  /\ executed' = [op \in DOMAIN sent |-> 0]
  /\ restarts' = restarts + 1
  /\ UNCHANGED <<now, tokenVars, sent, client, trouble>>

\* Half a second passes, counted from the first call; the validator does not
\* hold an envelope for longer than Lag before it has looked for a replay.
Tick ==
  /\ now < MaxTime /\ sent # <<>>
  /\ \A h \in Handler :
       handler[h].pc = "replay" => now - handler[h].since < Lag
  /\ now' = now + 1
  /\ UNCHANGED <<tokenVars, sent, client, agentVars, trouble>>

Step ==
  \/ IssueToken \/ RotateToken \/ RevokeToken
  \/ \E command \in Commands, drift \in Drift : Send(command, now + drift)
  \/ \E op \in DOMAIN sent : GiveUp(op) \/ ArriveRefused(op)
  \/ RegisterCredentials \/ RevokeNode
  \/ \E h \in Handler, op \in DOMAIN sent, own \in BOOLEAN : Arrive(h, op, own)
  \/ \E h \in Handler : CheckReplay(h) \/ Execute(h)
  \/ SetDraining \/ Restart \/ Tick

Next == Step /\ trouble' <= MaxTrouble

Spec == Init /\ [][Next]_vars

---------------------------------------------------------------------------
(* Properties.                                                             *)

\* Every variable has its type; operation ids are remembered with a time of the
\* agent's own clock that has been.
TypeOK ==
  /\ now \in 0 .. MaxTime
  /\ keys \in Nat
  /\ token \in [key : 1 .. keys, epoch : 1 .. keys, active : BOOLEAN]
  /\ retired \subseteq [key : 1 .. keys, epoch : 1 .. keys]
  /\ sent \in Seq([command : Command, timestamp : Int, key : 1 .. keys, at : Int])
  /\ Len(sent) <= MaxCalls
  /\ client \in [DOMAIN sent -> CallState]
  /\ executed \in [DOMAIN sent -> Nat]
  /\ registered \in 1 .. keys /\ revoked \in BOOLEAN
  /\ DOMAIN remembered \subseteq DOMAIN sent
  /\ \A op \in DOMAIN remembered : remembered[op] \in 0 .. now
  /\ handler \in [Handler ->
       [pc : {"free", "replay", "execute"},
        op : DOMAIN sent \cup {0}, since : 0 .. MaxTime, own : BOOLEAN]]
  /\ \A h \in Handler : handler[h].pc # "free" => handler[h].op \in DOMAIN sent
  /\ draining \in BOOLEAN
  /\ runtime \in [created : BOOLEAN, running : BOOLEAN]
  /\ restarts \in Nat /\ trouble \in 0 .. MaxTrouble

\* The envelope of op was sent by a clock that was less than max_skew ahead of
\* the agent's, up to the time in the validator and one tick of rounding.
Timely(op) == sent[op].timestamp - sent[op].at + Lag + 1 < Second * MaxSkew

\* An operation whose envelope is timely is executed at most once while the agent
\* runs, however often and whenever it is delivered: its id is forgotten only when
\* its timestamp is refused (the 2 * max_skew of validate_and_unpack against its
\* max_skew), whatever the other envelopes are stamped with.
ExecutedOnce == \A op \in DOMAIN executed : Timely(op) => executed[op] <= 1

\* A client that saw all its earlier calls done and then a stop done can rely on
\* it if its starts were timely: the release does not run, whatever copies of
\* earlier envelopes arrive.
StopHolds ==
  ( /\ restarts = 0 /\ ~ draining
    /\ sent # <<>> /\ sent[Len(sent)].command = "stop"
    /\ \A op \in DOMAIN sent : sent[op].command = "start" => Timely(op)
    /\ \A op \in DOMAIN client : client[op] = "done" ) => ~ runtime.running

\* Credentials that were replaced or revoked are never valid again, although
\* issue_token starts at epoch 1 again (is_valid compares key and epoch).
RetiredStayInvalid == \A c \in retired : ~ IsValid(c)
=============================================================================
