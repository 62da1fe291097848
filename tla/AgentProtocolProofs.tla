------------------------ MODULE AgentProtocolProofs ------------------------
(***************************************************************************)
(* Proofs about AgentProtocol, for every window, clock difference, number  *)
(* of envelopes handled at a time and number of calls: types, credentials, *)
(* that no operation is executed twice, and that a stop holds.             *)
(***************************************************************************)
EXTENDS AgentProtocol, SequenceTheorems, TLAPS

---------------------------------------------------------------------------
(* Steps                                                                   *)

\* A step is one of the actions, with its arguments.
LEMMA StepCases ==
  ASSUME TypeOK, Next, NEW P,
         IssueToken \/ RotateToken \/ RevokeToken => P,
         \A command \in Commands, timestamp \in Int : Send(command, timestamp) => P,
         \A op \in DOMAIN sent : GiveUp(op) \/ ArriveRefused(op) => P,
         RegisterCredentials \/ RevokeNode \/ SetDraining \/ Tick => P,
         \A h \in Handler, op \in DOMAIN sent, own \in BOOLEAN : Arrive(h, op, own) => P,
         \A h \in Handler : CheckReplay(h) => P,
         \A h \in Handler : Execute(h) => P,
         Restart => P
  PROVE  P
  <1>1. \A drift \in Drift : now + drift \in Int
    BY AgentProtocolAssumption DEF TypeOK
  <1> QED  BY <1>1 DEF Next, Step

\* Append, for a sequence given as a function.
LEMMA AppendFunction ==
  ASSUME NEW S, NEW n \in Nat, NEW f \in [1 .. n -> S], NEW e \in S
  PROVE  /\ Append(f, e) \in [1 .. (n + 1) -> S]
         /\ \A i \in 1 .. n : Append(f, e)[i] = f[i]
         /\ Append(f, e)[n + 1] = e
  <1>1. f \in Seq(S) /\ Len(f) = n
    BY SeqDef
  <1>2. /\ Append(f, e) \in Seq(S)
        /\ Len(Append(f, e)) = n + 1
        /\ \A i \in 1 .. n : Append(f, e)[i] = f[i]
        /\ Append(f, e)[n + 1] = e
    BY <1>1, AppendProperties
  <1>3. Append(f, e) \in [1 .. Len(Append(f, e)) -> S]
    BY <1>2, LenProperties
  <1> QED  BY <1>2, <1>3

---------------------------------------------------------------------------
(* Types                                                                   *)

\* TypeOK in parts: tokens, calls, the agent, its memory and its handlers.
TokenType ==
  /\ keys \in Nat
  /\ token \in [key : 1 .. keys, epoch : 1 .. keys, active : BOOLEAN]
  /\ retired \subseteq [key : 1 .. keys, epoch : 1 .. keys]

CallType ==
  /\ sent \in Seq([command : Command, timestamp : Int, key : 1 .. keys, at : Int])
  /\ Len(sent) <= MaxCalls
  /\ client \in [DOMAIN sent -> CallState]
  /\ executed \in [DOMAIN sent -> Nat]

AgentType ==
  /\ registered \in 1 .. keys /\ revoked \in BOOLEAN
  /\ draining \in BOOLEAN
  /\ runtime \in [created : BOOLEAN, running : BOOLEAN]
  /\ restarts \in Nat

RememberedType ==
  /\ DOMAIN remembered \subseteq DOMAIN sent
  /\ \A op \in DOMAIN remembered : remembered[op] \in 0 .. now

HandlerRecord ==
  [pc : {"free", "replay", "execute"}, op : DOMAIN sent \cup {0},
   since : 0 .. MaxTime, own : BOOLEAN]

HandlerType ==
  /\ handler \in [Handler -> HandlerRecord]
  /\ \A h \in Handler : handler[h].pc # "free" => handler[h].op \in DOMAIN sent

\* TypeOK is its parts.
LEMMA Parts ==
  TypeOK <=> /\ now \in 0 .. MaxTime /\ trouble \in 0 .. MaxTrouble
             /\ TokenType /\ CallType /\ AgentType /\ RememberedType /\ HandlerType
  BY Zenon DEF TypeOK, TokenType, CallType, AgentType, RememberedType, HandlerType, HandlerRecord

\* The same after a step.
LEMMA PartsNext ==
  TypeOK' <=> /\ now' \in 0 .. MaxTime /\ trouble' \in 0 .. MaxTrouble
             /\ TokenType' /\ CallType' /\ AgentType' /\ RememberedType' /\ HandlerType'
  BY Zenon DEF TypeOK, TokenType, CallType, AgentType, RememberedType, HandlerType, HandlerRecord

\* Issuing, rotating and revoking a token keep the types.
LEMMA TokenStep ==
  ASSUME TypeOK, IssueToken \/ RotateToken \/ RevokeToken, trouble' <= MaxTrouble
  PROVE  TypeOK'
  <1> USE AgentProtocolAssumption
  <1>0. /\ keys \in Nat /\ token.key \in 1 .. keys /\ token.epoch \in 1 .. keys
        /\ token.active \in BOOLEAN /\ trouble \in Nat
    BY DEF TypeOK
  <1>a. keys' = keys \/ keys' = keys + 1
    BY DEF IssueToken, RotateToken, RevokeToken
  <1>b. trouble' \in 0 .. MaxTrouble
    BY <1>0 DEF IssueToken, RotateToken, RevokeToken, Troubles
  <1>c. keys' \in Nat /\ keys <= keys'
    BY <1>0, <1>a
  <1>1. TokenType'
    <2>1. Credentials \in [key : 1 .. keys, epoch : 1 .. keys]
      BY <1>0 DEF Credentials
    <2>2. token' \in [key : 1 .. keys', epoch : 1 .. keys', active : BOOLEAN]
      <3>1. IssueToken => /\ token' = [key |-> keys', epoch |-> 1, active |-> TRUE]
                          /\ keys' = keys + 1
        BY DEF IssueToken
      <3>2. RotateToken =>
              /\ token' = [key |-> keys', epoch |-> token.epoch + 1, active |-> TRUE]
              /\ keys' = keys + 1
        BY DEF RotateToken
      <3>3. RevokeToken => token' = [token EXCEPT !.active = FALSE] /\ keys' = keys
        BY DEF RevokeToken
      <3>4. RevokeToken => token' \in [key : 1 .. keys', epoch : 1 .. keys', active : BOOLEAN]
        BY <3>3 DEF TypeOK
      <3> DEFINE Token(k) == [key : 1 .. k, epoch : 1 .. k, active : BOOLEAN]
      <3>a. \A k \in Nat, e \in Int :
              1 <= e /\ e <= k => [key |-> k, epoch |-> e, active |-> TRUE] \in Token(k)
        OBVIOUS
      <3>5. IssueToken => token' \in Token(keys')
        <4>1. [key |-> keys + 1, epoch |-> 1, active |-> TRUE] \in Token(keys + 1)
          BY <1>0, <3>a
        <4> QED  BY <3>1, <4>1
      <3>6. RotateToken => token' \in Token(keys')
        <4>1. token.epoch + 1 \in Int /\ 1 <= token.epoch + 1 /\ token.epoch + 1 <= keys + 1
          BY <1>0
        <4>2. [key |-> keys + 1, epoch |-> token.epoch + 1, active |-> TRUE] \in Token(keys + 1)
          BY <1>0, <3>a, <4>1
        <4> QED  BY <3>2, <4>2
      <3> QED  BY <3>4, <3>5, <3>6
    <2>3. retired' \subseteq [key : 1 .. keys', epoch : 1 .. keys']
      <3>1. [key : 1 .. keys, epoch : 1 .. keys]
              \subseteq [key : 1 .. keys', epoch : 1 .. keys']
        BY <1>0, <1>c
      <3> QED  BY <2>1, <3>1 DEF TypeOK, IssueToken, RotateToken, RevokeToken
    <2> QED  BY <1>c, <2>2, <2>3 DEF TokenType
  <1>2. UNCHANGED <<now, sent, client, agentVars>>
    BY DEF IssueToken, RotateToken, RevokeToken
  <1>3. CallType'
    <2>1. [command : Command, timestamp : Int, key : 1 .. keys, at : Int]
            \subseteq [command : Command, timestamp : Int, key : 1 .. keys', at : Int]
      BY <1>0, <1>c
    <2>2. sent' \in Seq([command : Command, timestamp : Int, key : 1 .. keys', at : Int])
      BY <1>2, <2>1, SeqMonotonic DEF TypeOK
    <2> QED  BY <1>2, <2>2 DEF TypeOK, CallType, agentVars
  <1>4. AgentType'
    BY <1>0, <1>c, <1>2 DEF TypeOK, AgentType, agentVars
  <1>5. RememberedType' /\ HandlerType'
    BY <1>2 DEF TypeOK, RememberedType, HandlerType, HandlerRecord, agentVars
  <1> QED  BY <1>b, <1>1, <1>2, <1>3, <1>4, <1>5, PartsNext DEF TypeOK

\* So does a new call,
LEMMA SendType ==
  ASSUME TypeOK, NEW command \in Commands, NEW timestamp \in Int, Send(command, timestamp)
  PROVE  TypeOK'
  <1> USE AgentProtocolAssumption
  <1> DEFINE e == [command |-> command, timestamp |-> timestamp, key |-> token.key,
                   at |-> now]
  <1>1. e \in [command : Command, timestamp : Int, key : 1 .. keys, at : Int]
    BY DEF TypeOK
  <1>2. /\ sent \in Seq([command : Command, timestamp : Int, key : 1 .. keys, at : Int])
        /\ sent' = Append(sent, e)
    BY DEF TypeOK, Send
  <1> HIDE DEF e
  <1>3. /\ sent' \in Seq([command : Command, timestamp : Int, key : 1 .. keys, at : Int])
        /\ Len(sent') = Len(sent) + 1 /\ Len(sent) \in Nat
        /\ DOMAIN sent = 1 .. Len(sent) /\ DOMAIN sent' = 1 .. Len(sent) + 1
    BY <1>1, <1>2
  <1>4. client \in [1 .. Len(sent) -> CallState] /\ executed \in [1 .. Len(sent) -> Nat]
    BY <1>3 DEF TypeOK
  <1>5. client' \in [DOMAIN sent' -> CallState]
    <2>1. client' = Append(client, "waiting") /\ "waiting" \in CallState
      BY DEF Send, CallState
    <2> QED  BY <1>3, <1>4, <2>1, AppendFunction
  <1>6. executed' \in [DOMAIN sent' -> Nat]
    <2>1. executed' = Append(executed, 0)
      BY DEF Send
    <2> QED  BY <1>3, <1>4, <2>1, AppendFunction
  <1>7. UNCHANGED <<now, tokenVars, registered, revoked, remembered, handler, draining,
                    runtime, restarts, trouble>> /\ Len(sent) < MaxCalls
    BY DEF Send
  <1>8. CallType'
    BY <1>3, <1>5, <1>6, <1>7 DEF CallType, tokenVars
  <1>9. TokenType' /\ AgentType'
    BY <1>7 DEF TypeOK, TokenType, AgentType, tokenVars
  <1>10. DOMAIN sent \subseteq DOMAIN sent'
    BY <1>3
  <1>11. RememberedType' /\ HandlerType'
    BY <1>7, <1>10 DEF TypeOK, RememberedType, HandlerType, HandlerRecord
  <1> QED  BY <1>7, <1>8, <1>9, <1>11, PartsNext DEF TypeOK

\* a call whose state changes,
LEMMA ClientType ==
  ASSUME TypeOK, NEW op \in DOMAIN sent, NEW state \in CallState,
         client' = [client EXCEPT ![op] = state],
         UNCHANGED <<now, tokenVars, sent, agentVars>>, trouble' \in 0 .. MaxTrouble
  PROVE  TypeOK'
  BY DEF TypeOK, tokenVars, agentVars

\* trouble counted or not,
LEMMA TroubleType ==
  ASSUME TypeOK, trouble' <= MaxTrouble, trouble' = trouble \/ trouble' = trouble + 1
  PROVE  trouble' \in 0 .. MaxTrouble
  <1>1. trouble \in 0 .. MaxTrouble /\ MaxTrouble \in Nat
    BY AgentProtocolAssumption DEF TypeOK
  <1> QED  BY <1>1

\* a call given up or refused,
LEMMA CallSteps ==
  ASSUME TypeOK, NEW op \in DOMAIN sent, trouble' <= MaxTrouble,
         GiveUp(op) \/ ArriveRefused(op)
  PROVE  TypeOK'
  <1>1. trouble' \in 0 .. MaxTrouble
    BY TroubleType DEF GiveUp, ArriveRefused, Troubles
  <1>2. PICK state \in CallState : client' = [client EXCEPT ![op] = state]
    BY DEF GiveUp, ArriveRefused, CallState
  <1>3. UNCHANGED <<now, tokenVars, sent, agentVars>>
    BY DEF GiveUp, ArriveRefused
  <1> QED  BY <1>1, <1>2, <1>3, ClientType

\* the actions that change one variable of the agent or the time,
LEMMA ControlSteps ==
  ASSUME TypeOK, trouble' <= MaxTrouble,
         RegisterCredentials \/ RevokeNode \/ SetDraining \/ Tick
  PROVE  TypeOK'
  <1> USE AgentProtocolAssumption
  <1>1. RegisterCredentials => TypeOK'
    BY DEF TypeOK, RegisterCredentials, tokenVars
  <1>2. RevokeNode => TypeOK'
    BY DEF TypeOK, RevokeNode, tokenVars
  <1>3. SetDraining => TypeOK'
    BY DEF TypeOK, SetDraining, tokenVars, Troubles
  <1>4. Tick => TypeOK'
    BY DEF TypeOK, Tick, tokenVars, agentVars
  <1> QED  BY <1>1, <1>2, <1>3, <1>4

\* and a restart.
LEMMA RestartType ==
  ASSUME TypeOK, Restart
  PROVE  TypeOK'
  <1> USE AgentProtocolAssumption
  <1>1. UNCHANGED <<now, tokenVars, sent, client, trouble>>
    BY DEF Restart
  <1>2. CallType'
    BY <1>1 DEF TypeOK, CallType, Restart, tokenVars
  <1>3. TokenType' /\ AgentType'
    <2>1. TokenType'
      BY <1>1 DEF TypeOK, TokenType, tokenVars
    <2>2. token.key \in 1 .. keys /\ restarts \in Nat
      BY DEF TypeOK
    <2>3. /\ registered' = token.key /\ revoked' = FALSE /\ draining' = FALSE
          /\ runtime' = [created |-> FALSE, running |-> FALSE] /\ restarts' = restarts + 1
          /\ keys' = keys
      BY DEF Restart, tokenVars
    <2>4. revoked' \in BOOLEAN /\ draining' \in BOOLEAN
      BY <2>3, Zenon
    <2>5. runtime' \in [created : BOOLEAN, running : BOOLEAN]
      BY <2>3
    <2>6. registered' \in 1 .. keys' /\ restarts' \in Nat
      BY <2>2, <2>3
    <2> QED  BY <2>1, <2>4, <2>5, <2>6 DEF AgentType
  <1>4. RememberedType'
    BY DEF RememberedType, Restart
  <1>5. HandlerType'
    BY DEF HandlerType, HandlerRecord, Restart, Free
  <1> QED  BY <1>1, <1>2, <1>3, <1>4, <1>5, PartsNext DEF TypeOK

\* The handlers stay well typed when one gets a well typed record.
LEMMA HandlerChange ==
  ASSUME HandlerType, NEW h \in Handler, NEW r \in HandlerRecord,
         r.pc # "free" => r.op \in DOMAIN sent,
         handler' = [handler EXCEPT ![h] = r], UNCHANGED sent
  PROVE  HandlerType'
  BY DEF HandlerType, HandlerRecord

\* An envelope that arrives keeps the types.
LEMMA ArriveType ==
  ASSUME TypeOK, NEW h \in Handler, NEW op \in DOMAIN sent, NEW own \in BOOLEAN,
         Arrive(h, op, own), trouble' <= MaxTrouble
  PROVE  TypeOK'
  <1> USE AgentProtocolAssumption
  <1>1. UNCHANGED <<now, tokenVars, sent, client, registered, revoked, remembered,
                 draining, runtime, executed, restarts>>
    BY DEF Arrive
  <1>2. trouble' \in 0 .. MaxTrouble
    <2>1. trouble' = trouble \/ trouble' = trouble + 1
      BY DEF Arrive, Troubles
    <2> QED  BY <2>1, TroubleType
  <1>3. HandlerType'
    <2>1. [pc |-> "replay", op |-> op, since |-> now, own |-> own] \in HandlerRecord
      BY DEF TypeOK, HandlerRecord
    <2> QED  BY <1>1, <2>1, Parts, HandlerChange DEF Arrive
  <1> QED  BY <1>1, <1>2, <1>3 DEF TypeOK, HandlerType, HandlerRecord, tokenVars

\* An answer leaves the calls well typed.
LEMMA AnswerType ==
  ASSUME TypeOK, NEW h \in Handler, NEW state \in CallState, handler[h].pc # "free",
         Answer(h, state)
  PROVE  client' \in [DOMAIN sent -> CallState]
  <1>1. handler[h].op \in DOMAIN sent /\ client \in [DOMAIN sent -> CallState]
    BY DEF TypeOK
  <1> QED  BY <1>1 DEF Answer

\* A free handler has a well typed record.
LEMMA FreeRecord == Free \in HandlerRecord /\ Free.pc = "free"
  BY AgentProtocolAssumption DEF Free, HandlerRecord

\* The check for a replay keeps the types,
LEMMA CheckReplayType ==
  ASSUME TypeOK, NEW h \in Handler, CheckReplay(h)
  PROVE  TypeOK'
  <1> USE AgentProtocolAssumption
  <1> DEFINE op == handler[h].op
  <1>1. /\ UNCHANGED <<now, tokenVars, sent, registered, revoked, draining, runtime,
                 executed, restarts, trouble>>
        /\ handler[h].pc = "replay"
    BY DEF CheckReplay
  <1>2. op \in DOMAIN sent
    BY <1>1 DEF TypeOK
  <1>3. RememberedType'
    <2>1. remembered' = [o \in Kept \cup {op} |->
                     IF o \in Kept THEN remembered[o] ELSE now]
      BY DEF CheckReplay, RememberedTime
    <2>2. Kept \subseteq DOMAIN remembered
      BY DEF Kept
    <2> HIDE DEF op
    <2> QED  BY <1>1, <1>2, <2>1, <2>2 DEF TypeOK, RememberedType
  <1>4. client' \in [DOMAIN sent -> CallState]
    <2>1. CASE op \in Kept
      BY <1>1, <2>1, AnswerType DEF CheckReplay, Finish, CallState
    <2>2. CASE op \notin Kept
      BY <2>2 DEF CheckReplay, Proceed, TypeOK
    <2> QED  BY <2>1, <2>2
  <1>5. HandlerType'
    <2>1. CASE op \in Kept
      BY <1>1, <2>1, Parts, FreeRecord, HandlerChange DEF CheckReplay, Finish
    <2>2. CASE op \notin Kept
      <3> DEFINE r == [pc |-> "execute", op |-> handler[h].op, since |-> 0,
                       own |-> handler[h].own]
      <3>1. r \in HandlerRecord /\ r.op \in DOMAIN sent
        BY <1>2 DEF TypeOK, HandlerRecord
      <3>2. handler' = [handler EXCEPT ![h] = r]
        BY <2>2 DEF CheckReplay, Proceed
      <3> HIDE DEF r
      <3> QED  BY <1>1, <3>1, <3>2, Parts, HandlerChange
    <2> QED  BY <2>1, <2>2
  <1> QED  BY <1>1, <1>3, <1>4, <1>5 DEF TypeOK, HandlerType, HandlerRecord, RememberedType, tokenVars

\* and so does the execution of a command.
LEMMA ExecuteType ==
  ASSUME TypeOK, NEW h \in Handler, Execute(h)
  PROVE  TypeOK'
  <1> USE AgentProtocolAssumption
  <1>1. /\ UNCHANGED <<now, tokenVars, sent, registered, revoked, remembered, draining,
                 restarts, trouble>>
        /\ handler[h].pc = "execute"
    BY DEF Execute
  <1>2. handler[h].op \in DOMAIN sent
    BY <1>1, Parts DEF HandlerType
  <1>3. PICK state \in CallState : Finish(h, state)
    BY DEF Execute, CallState
  <1>4. client' \in [DOMAIN sent -> CallState]
    BY <1>1, <1>3, AnswerType DEF Finish
  <1>5. HandlerType'
    BY <1>1, <1>3, Parts, FreeRecord, HandlerChange DEF Finish
  <1>6. executed' \in [DOMAIN sent -> Nat]
    <2>0. executed \in [DOMAIN sent -> Nat]
      BY Zenon DEF TypeOK
    <2>1. executed[handler[h].op] + 1 \in Nat
      BY <1>2, <2>0
    <2>2. \/ executed' = executed
          \/ executed' = [executed EXCEPT ![handler[h].op] = executed[handler[h].op] + 1]
      BY DEF Execute
    <2> QED  BY <2>0, <2>1, <2>2
  <1>7. runtime' \in [created : BOOLEAN, running : BOOLEAN]
    BY DEF Execute, TypeOK, Effect
  <1> QED  BY <1>1, <1>4, <1>5, <1>6, <1>7 DEF TypeOK, HandlerType, HandlerRecord, tokenVars

\* Every step keeps the types.
LEMMA TypeStep ==
  ASSUME TypeOK, Next
  PROVE  TypeOK'
  <1>1. trouble' <= MaxTrouble
    BY DEF Next
  <1> QED
    BY <1>1, StepCases, TokenStep, SendType, CallSteps, ControlSteps, ArriveType,
       CheckReplayType, ExecuteType, RestartType

\* Every state of the agent, its clients and its tokens is well typed; operation
\* ids are remembered with a time that has been (validate_and_unpack).
THEOREM AgentTypeCorrect == Spec => []TypeOK
  <1>1. Init => TypeOK
    <2> SUFFICES ASSUME Init PROVE TypeOK
      OBVIOUS
    <2> USE AgentProtocolAssumption DEF Init
    <2>1. CallType
      BY EmptySeq DEF CallType
    <2>2. TokenType /\ RememberedType
      BY DEF TokenType, RememberedType
    <2>a. revoked \in BOOLEAN /\ draining \in BOOLEAN
      BY Zenon
    <2>b. AgentType
      BY <2>a DEF AgentType
    <2>3. HandlerType
      BY DEF HandlerType, HandlerRecord, Free
    <2> QED  BY <2>1, <2>2, <2>b, <2>3, Parts
  <1>2. TypeOK /\ [Next]_vars => TypeOK'
    <2>1. CASE UNCHANGED vars
      BY <2>1 DEF TypeOK, vars
    <2> QED  BY <2>1, TypeStep
  <1> QED  BY <1>1, <1>2, PTL DEF Spec

---------------------------------------------------------------------------
(* Credentials                                                             *)

\* The newest key is the token's; a retired key is older, or the token is
\* revoked.
KeyInv ==
  /\ token.key = keys
  /\ \A c \in retired : c.key < keys \/ ~ token.active

\* Every step keeps KeyInv: a key is made only by issue_token and rotate_token.
LEMMA KeyStep ==
  ASSUME TypeOK, KeyInv, Next
  PROVE  KeyInv'
  <1>0. /\ keys \in Nat /\ \A c \in retired : c.key \in Nat /\ c.key <= keys
        /\ Credentials.key = keys
    BY DEF TypeOK, KeyInv, Credentials
  <1>1. CASE IssueToken
    BY <1>0, <1>1 DEF KeyInv, IssueToken
  <1>2. CASE RotateToken
    BY <1>0, <1>2 DEF KeyInv, RotateToken
  <1>3. CASE RevokeToken
    <2>1. /\ token' = [token EXCEPT !.active = FALSE] /\ keys' = keys
          /\ token \in [key : 1 .. keys, epoch : 1 .. keys, active : BOOLEAN]
      BY <1>3 DEF RevokeToken, TypeOK
    <2>2. token'.key = token.key /\ ~ token'.active
      BY <2>1
    <2> QED  BY <2>1, <2>2 DEF KeyInv
  <1>4. CASE UNCHANGED tokenVars
    BY <1>4 DEF KeyInv, tokenVars
  <1>5. IssueToken \/ RotateToken \/ RevokeToken \/ UNCHANGED tokenVars
    <2>1. \A op \in DOMAIN sent : GiveUp(op) \/ ArriveRefused(op) => UNCHANGED tokenVars
      BY DEF GiveUp, ArriveRefused
    <2>2. \A h \in Handler : CheckReplay(h) \/ Execute(h) => UNCHANGED tokenVars
      BY DEF CheckReplay, Execute
    <2>3. RegisterCredentials \/ RevokeNode \/ SetDraining \/ Tick \/ Restart
            => UNCHANGED tokenVars
      BY DEF RegisterCredentials, RevokeNode, SetDraining, Tick, Restart
    <2>4. \A h \in Handler, op \in DOMAIN sent, own \in BOOLEAN :
            Arrive(h, op, own) => UNCHANGED tokenVars
      BY DEF Arrive
    <2>5. \A command \in Commands, timestamp \in Int :
            Send(command, timestamp) => UNCHANGED tokenVars
      BY DEF Send
    <2> QED  BY <2>1, <2>2, <2>3, <2>4, <2>5, StepCases
  <1> QED  BY <1>1, <1>2, <1>3, <1>4, <1>5

\* Credentials that were replaced or revoked are never valid again, for any
\* number of tokens issued and rotated (NodeTokenManager::is_valid).
THEOREM RetiredNeverValid == Spec => []RetiredStayInvalid
  <1>1. Init => KeyInv
    BY DEF Init, KeyInv
  <1>2. TypeOK /\ KeyInv /\ [Next]_vars => KeyInv'
    <2>1. CASE UNCHANGED vars
      BY <2>1 DEF KeyInv, vars
    <2> QED  BY <2>1, KeyStep
  <1>3. TypeOK /\ KeyInv => RetiredStayInvalid
    BY DEF TypeOK, KeyInv, RetiredStayInvalid, IsValid
  <1> QED  BY <1>1, <1>2, <1>3, AgentTypeCorrect, PTL DEF Spec

---------------------------------------------------------------------------
(* Time                                                                    *)

\* An envelope was sent before now, and one that waits to be looked up was young
\* enough a short time ago.
SentInv == \A op \in DOMAIN sent : sent[op].at <= now

WaitInv ==
  \A h \in Handler :
    handler[h].pc = "replay" =>
      /\ handler[h].since <= now
      /\ now - handler[h].since <= Lag
      /\ handler[h].since - sent[handler[h].op].timestamp <= Second * MaxSkew + 1

TimeInv == SentInv /\ WaitInv

\* An envelope whose timestamp is accepted is not older than the window and the
\* second that truncation hides.
LEMMA WindowBound ==
  ASSUME NEW timestamp \in Int, now \in Int, InWindow(timestamp)
  PROVE  now - timestamp <= Second * MaxSkew + 1
  BY AgentProtocolAssumption DEF InWindow, WholeSeconds, Abs, Second

\* The integers of the invariants.
LEMMA Numbers ==
  ASSUME TypeOK
  PROVE  /\ now \in Nat
         /\ \A op \in DOMAIN sent : /\ sent[op].timestamp \in Int /\ sent[op].at \in Int
                                    /\ executed[op] \in Nat
         /\ \A op \in DOMAIN remembered : remembered[op] \in Int
         /\ \A h \in Handler : handler[h].since \in Int
         /\ \A h \in Handler : handler[h].pc # "free" => handler[h].op \in DOMAIN sent
         /\ restarts \in Nat
  <1> DEFINE S == [command : Command, timestamp : Int, key : 1 .. keys, at : Int]
  <1>1. \A op \in DOMAIN sent : sent[op] \in S
    <2>1. sent \in Seq(S)
      BY DEF TypeOK
    <2> HIDE DEF S
    <2>2. sent \in [1 .. Len(sent) -> S] /\ DOMAIN sent = 1 .. Len(sent)
      BY <2>1, LenProperties
    <2> QED  BY <2>2
  <1>2. \A op \in DOMAIN sent : sent[op].timestamp \in Int /\ sent[op].at \in Int
    BY <1>1
  <1> QED  BY <1>2, AgentProtocolAssumption DEF TypeOK

\* What Send appends; the calls made before stay as they are.
LEMMA SendAppends ==
  ASSUME TypeOK, NEW command \in Commands, NEW timestamp \in Int,
         Send(command, timestamp)
  PROVE  /\ Len(sent) \in Nat /\ DOMAIN sent = 1 .. Len(sent)
         /\ Len(sent') = Len(sent) + 1 /\ DOMAIN sent' = 1 .. (Len(sent) + 1)
         /\ \A op \in DOMAIN sent : /\ sent'[op] = sent[op] /\ client'[op] = client[op]
                                    /\ executed'[op] = executed[op]
         /\ sent'[Len(sent) + 1].timestamp = timestamp /\ sent'[Len(sent) + 1].at = now
         /\ client'[Len(sent) + 1] = "waiting" /\ executed'[Len(sent) + 1] = 0
  <1> DEFINE e == [command |-> command, timestamp |-> timestamp, key |-> token.key,
                   at |-> now]
             S == [command : Command, timestamp : Int, key : 1 .. keys, at : Int]
  <1>1. e \in S /\ e.timestamp = timestamp /\ e.at = now
    BY AgentProtocolAssumption DEF TypeOK
  <1>2. sent \in Seq(S) /\ sent' = Append(sent, e)
    BY DEF TypeOK, Send
  <1>a. /\ client' = Append(client, "waiting") /\ executed' = Append(executed, 0)
        /\ "waiting" \in CallState
    BY DEF Send, CallState
  <1> HIDE DEF e, S
  <1>3. Len(sent) \in Nat /\ DOMAIN sent = 1 .. Len(sent)
    BY <1>2, LenProperties
  <1>4. /\ sent' \in Seq(S) /\ Len(sent') = Len(sent) + 1
        /\ \A i \in 1 .. Len(sent) : sent'[i] = sent[i]
        /\ sent'[Len(sent) + 1] = e
    BY <1>1, <1>2, AppendProperties
  <1>5. DOMAIN sent' = 1 .. (Len(sent) + 1)
    BY <1>4, LenProperties
  <1>6. client \in [1 .. Len(sent) -> CallState] /\ executed \in [1 .. Len(sent) -> Nat]
    BY <1>3 DEF TypeOK
  <1>7. /\ \A i \in 1 .. Len(sent) : client'[i] = client[i]
        /\ client'[Len(sent) + 1] = "waiting"
    BY <1>3, <1>6, <1>a, AppendFunction
  <1>8. /\ \A i \in 1 .. Len(sent) : executed'[i] = executed[i]
        /\ executed'[Len(sent) + 1] = 0
    BY <1>3, <1>6, <1>a, AppendFunction
  <1> QED  BY <1>1, <1>3, <1>4, <1>5, <1>7, <1>8

\* Every step keeps TimeInv; Tick waits for the envelopes in the validator.
LEMMA TimeStep ==
  ASSUME TypeOK, TimeInv, Next
  PROVE  TimeInv'
  <1>0. /\ now \in Nat
        /\ \A op \in DOMAIN sent : sent[op].timestamp \in Int /\ sent[op].at \in Int
        /\ \A h \in Handler : handler[h].since \in Int
        /\ \A h \in Handler : handler[h].pc # "free" => handler[h].op \in DOMAIN sent
        /\ DOMAIN handler = Handler
    BY Numbers DEF TypeOK
  <1>1. UNCHANGED <<now, sent, handler>> => TimeInv'
    BY DEF TimeInv, SentInv, WaitInv
  <1>2. ASSUME NEW command \in Commands, NEW timestamp \in Int, Send(command, timestamp)
        PROVE  TimeInv'
    <2>1. now' = now /\ handler' = handler
      BY <1>2 DEF Send
    <2>2. SentInv'
      BY <1>0, <1>2, <2>1, SendAppends DEF TimeInv, SentInv
    <2>3. \A op \in DOMAIN sent : sent'[op] = sent[op]
      BY <1>2, SendAppends
    <2>4. WaitInv'
      BY <1>0, <2>1, <2>3 DEF TimeInv, WaitInv
    <2> QED  BY <2>2, <2>4 DEF TimeInv
  <1>3. ASSUME NEW h \in Handler, NEW op \in DOMAIN sent, NEW own \in BOOLEAN,
               Arrive(h, op, own)
        PROVE  TimeInv'
    <2>1. /\ now' = now /\ sent' = sent
          /\ handler' = [handler EXCEPT ![h] =
                          [pc |-> "replay", op |-> op, since |-> now, own |-> own]]
      BY <1>3 DEF Arrive
    <2>2. now - sent[op].timestamp <= Second * MaxSkew + 1
      BY <1>0, <1>3, WindowBound DEF Arrive, Accepted
    <2>3. SentInv'
      BY <2>1 DEF TimeInv, SentInv
    <2>4. WaitInv'
      BY <1>0, <2>1, <2>2, AgentProtocolAssumption DEF TimeInv, WaitInv
    <2> QED  BY <2>3, <2>4 DEF TimeInv
  <1>4. ASSUME NEW h \in Handler, NEW r, r.pc # "replay",
               handler' = [handler EXCEPT ![h] = r], UNCHANGED <<now, sent>>
        PROVE  TimeInv'
    BY <1>0, <1>4 DEF TimeInv, SentInv, WaitInv
  <1>5. ASSUME NEW h \in Handler, CheckReplay(h)
        PROVE  TimeInv'
    <2>1. UNCHANGED <<now, sent>>
      BY <1>5 DEF CheckReplay
    <2>2. CASE handler[h].op \in Kept
      BY <1>4, <1>5, <2>1, <2>2, FreeRecord DEF CheckReplay, Finish
    <2>3. CASE handler[h].op \notin Kept
      BY <1>4, <1>5, <2>1, <2>3 DEF CheckReplay, Proceed
    <2> QED  BY <2>2, <2>3
  <1>6. ASSUME NEW h \in Handler, Execute(h)
        PROVE  TimeInv'
    <2>1. UNCHANGED <<now, sent>> /\ handler' = [handler EXCEPT ![h] = Free]
      BY <1>6 DEF Execute, Finish
    <2> QED  BY <1>4, <2>1, FreeRecord
  <1>7. Restart => TimeInv'
    BY DEF Restart, TimeInv, SentInv, WaitInv, Free
  <1>8. Tick => TimeInv'
    <2>1. SUFFICES ASSUME Tick PROVE TimeInv'
      OBVIOUS
    <2>2. /\ now' = now + 1 /\ sent' = sent /\ handler' = handler
          /\ \A h \in Handler : handler[h].pc = "replay" => now - handler[h].since < Lag
      BY <2>1 DEF Tick, agentVars
    <2>3. SentInv'
      BY <1>0, <2>2, AgentProtocolAssumption DEF TimeInv, SentInv
    <2>4. WaitInv'
      BY <1>0, <2>2, AgentProtocolAssumption DEF TimeInv, WaitInv
    <2> QED  BY <2>3, <2>4 DEF TimeInv
  <1>9. /\ IssueToken \/ RotateToken \/ RevokeToken => TimeInv'
        /\ RegisterCredentials \/ RevokeNode \/ SetDraining => TimeInv'
        /\ \A op \in DOMAIN sent : GiveUp(op) \/ ArriveRefused(op) => TimeInv'
    BY <1>1 DEF IssueToken, RotateToken, RevokeToken, RegisterCredentials, RevokeNode,
       SetDraining, GiveUp, ArriveRefused, agentVars
  <1> QED
    BY <1>2, <1>3, <1>5, <1>6, <1>7, <1>8, <1>9, StepCases

---------------------------------------------------------------------------
(* No operation is executed twice                                          *)

\* Handler h has passed the check for a replay with operation op.
Executing(h, op) == handler[h].pc = "execute" /\ handler[h].op = op

\* Operation op has been let through.
Taken(op) == executed[op] # 0 \/ \E h \in Handler : Executing(h, op)

\* No envelope of op passes the check of its timestamp any more, and none that
\* passed it still waits to be looked up.
Closed(op) == now - sent[op].timestamp > Second * MaxSkew + 1 + Lag

\* The id of op is remembered, with a time after it was sent.
Barred(op) == op \in DOMAIN remembered /\ sent[op].at <= remembered[op]

\* What was let through is barred or closed, if it was timely.
TakenInv ==
  \A op \in DOMAIN sent : Timely(op) /\ Taken(op) => Barred(op) \/ Closed(op)

\* What is about to be executed was not executed, and no other handler is about
\* to execute it, if it was timely.
ExecutingInv ==
  \A op \in DOMAIN sent, h \in Handler :
    Timely(op) /\ Executing(h, op) =>
      /\ executed[op] = 0
      /\ \A g \in Handler : Executing(g, op) => g = h

OnceInv == TakenInv /\ ExecutingInv /\ ExecutedOnce

\* An id that is pruned belongs to an envelope that is closed if it was timely:
\* then 2 * max_skew is long enough.
LEMMA PrunedIsClosed ==
  ASSUME TypeOK, NEW op \in DOMAIN sent, Timely(op), Barred(op), op \notin Kept
  PROVE  Closed(op)
  <1>1. /\ remembered[op] \in Int /\ now \in Int /\ sent[op].timestamp \in Int
        /\ sent[op].at \in Int
    BY Numbers DEF Barred
  <1>2. ~ (now - remembered[op] < 2 * Second * MaxSkew)
    BY DEF Kept, Barred
  <1>3. /\ sent[op].at <= remembered[op]
        /\ sent[op].timestamp - sent[op].at + Lag + 1 < Second * MaxSkew
    BY DEF Barred, Timely
  <1> QED  BY <1>1, <1>2, <1>3, AgentProtocolAssumption DEF Closed, Second

\* An envelope that waits to be looked up is not closed.
LEMMA WaitingIsOpen ==
  ASSUME TypeOK, TimeInv, NEW h \in Handler, handler[h].pc = "replay"
  PROVE  ~ Closed(handler[h].op)
  <1> DEFINE op == handler[h].op
  <1>1. /\ op \in DOMAIN sent /\ now \in Int /\ sent[op].timestamp \in Int
        /\ handler[h].since \in Int
    BY Numbers
  <1>2. /\ now - handler[h].since <= Lag
        /\ handler[h].since - sent[op].timestamp <= Second * MaxSkew + 1
    BY DEF TimeInv, WaitInv
  <1> QED  BY <1>1, <1>2, AgentProtocolAssumption DEF Closed, Second

\* OnceInv is kept when nothing is let through or forgotten and no count grows.
LEMMA OnceFrame ==
  ASSUME TypeOK, OnceInv, UNCHANGED <<now, sent, remembered, executed>>,
         \A h \in Handler, op \in DOMAIN sent : Executing(h, op)' => Executing(h, op)
  PROVE  OnceInv'
  <1>0. DOMAIN executed = DOMAIN sent
    BY DEF TypeOK
  <1>1. TakenInv'
    BY DEF OnceInv, TakenInv, Taken, Barred, Closed, Timely
  <1>2. ExecutingInv'
    BY DEF OnceInv, ExecutingInv, Timely
  <1>3. ExecutedOnce'
    BY <1>0 DEF OnceInv, ExecutedOnce, Timely
  <1> QED  BY <1>1, <1>2, <1>3 DEF OnceInv

\* A new operation was not let through.
LEMMA SendOnce ==
  ASSUME TypeOK, OnceInv, NEW command \in Commands, NEW timestamp \in Int,
         Send(command, timestamp)
  PROVE  OnceInv'
  <1>1. now' = now /\ remembered' = remembered /\ handler' = handler
    BY DEF Send
  <1>2. PICK n \in Nat :
          /\ DOMAIN sent = 1 .. n /\ DOMAIN sent' = 1 .. (n + 1)
          /\ \A op \in DOMAIN sent : sent'[op] = sent[op] /\ executed'[op] = executed[op]
          /\ executed'[n + 1] = 0
    BY SendAppends
  <1>3. DOMAIN executed = DOMAIN sent /\ DOMAIN executed' = DOMAIN sent'
    BY SendType DEF TypeOK
  <1>4. \A op \in DOMAIN sent' : op \in DOMAIN sent \/ op = n + 1
    BY <1>2
  <1>5. \A h \in Handler : ~ Executing(h, n + 1)'
    BY <1>1, <1>2, Numbers DEF Executing
  <1>6. \A h \in Handler, op \in DOMAIN sent : Executing(h, op)' <=> Executing(h, op)
    BY <1>1 DEF Executing
  <1>7. TakenInv'
    <2> SUFFICES ASSUME NEW op \in DOMAIN sent', Timely(op)', Taken(op)'
                 PROVE  Barred(op)' \/ Closed(op)'
      BY DEF TakenInv
    <2>1. op \in DOMAIN sent
      BY <1>2, <1>4, <1>5 DEF Taken
    <2>2. Taken(op) /\ Timely(op)
      BY <1>2, <1>6, <2>1 DEF Taken, Timely
    <2> QED  BY <1>1, <1>2, <2>1, <2>2 DEF OnceInv, TakenInv, Barred, Closed
  <1>a. \A op \in DOMAIN sent : Timely(op)' => Timely(op)
    BY <1>2 DEF Timely
  <1>8. ExecutingInv'
    BY <1>2, <1>4, <1>5, <1>6, <1>a DEF OnceInv, ExecutingInv
  <1>9. ExecutedOnce'
    BY <1>2, <1>3, <1>4, <1>a DEF OnceInv, ExecutedOnce
  <1> QED  BY <1>7, <1>8, <1>9 DEF OnceInv

\* The check for a replay lets an operation through only the first time.
LEMMA CheckReplayOnce ==
  ASSUME TypeOK, TimeInv, OnceInv, NEW h \in Handler, CheckReplay(h)
  PROVE  OnceInv'
  <1>0. PICK op \in DOMAIN sent : op = handler[h].op
    BY Numbers DEF CheckReplay
  <1>1. /\ now' = now /\ sent' = sent /\ executed' = executed
        /\ handler[h].pc = "replay"
        /\ remembered' = [o \in Kept \cup {op} |->
                           IF o \in Kept THEN remembered[o] ELSE now]
    BY <1>0 DEF CheckReplay, RememberedTime
  <1>2. /\ DOMAIN handler = Handler /\ Kept \subseteq DOMAIN remembered
        /\ DOMAIN executed = DOMAIN sent
    BY DEF TypeOK, Kept
  <1>a. \A o \in DOMAIN sent : Timely(o)' <=> Timely(o)
    BY <1>1 DEF Timely
  <1>3. \A o \in DOMAIN sent :
          Timely(o) /\ (Barred(o) \/ Closed(o)) => Barred(o)' \/ Closed(o)'
    <2> SUFFICES ASSUME NEW o \in DOMAIN sent, Timely(o), Barred(o) \/ Closed(o)
                 PROVE  Barred(o)' \/ Closed(o)'
      OBVIOUS
    <2>1. CASE o \in Kept /\ Barred(o)
      BY <1>1, <2>1 DEF Barred
    <2>2. CASE Closed(o)
      BY <1>1, <2>2 DEF Closed
    <2> QED  BY <2>1, <2>2, PrunedIsClosed
  <1>4. CASE op \in Kept
    <2>1. handler' = [handler EXCEPT ![h] = Free]
      BY <1>0, <1>4 DEF CheckReplay, Finish
    <2>2. \A g \in Handler, o \in DOMAIN sent : Executing(g, o)' => Executing(g, o)
      BY <1>2, <2>1, FreeRecord DEF Executing
    <2>3. TakenInv'
      BY <1>1, <1>a, <1>3, <2>2 DEF OnceInv, TakenInv, Taken
    <2>4. ExecutingInv'
      BY <1>1, <1>a, <2>2 DEF OnceInv, ExecutingInv
    <2> QED  BY <1>1, <1>2, <1>a, <2>3, <2>4 DEF OnceInv, ExecutedOnce
  <1>5. CASE op \notin Kept
    <2>1. handler' = [handler EXCEPT ![h] =
                       [pc |-> "execute", op |-> op, since |-> 0, own |-> handler[h].own]]
      BY <1>0, <1>5 DEF CheckReplay, Proceed
    <2>2. \A g \in Handler, o \in DOMAIN sent :
            Executing(g, o)' => Executing(g, o) \/ (g = h /\ o = op)
      BY <1>2, <2>1 DEF Executing
    <2>3. Timely(op) => ~ Taken(op)
      <3>1. ~ Closed(op)
        BY <1>0, <1>1, WaitingIsOpen
      <3>2. Timely(op) => ~ Barred(op)
        BY <1>1, <1>5, <3>1, PrunedIsClosed
      <3> QED  BY <1>1, <3>1, <3>2 DEF OnceInv, TakenInv
    <2>4. Barred(op)'
      <3>1. op \in DOMAIN remembered' /\ remembered'[op] = now
        BY <1>1, <1>5
      <3>2. sent[op].at <= now
        BY <1>1 DEF TimeInv, SentInv
      <3> QED  BY <1>1, <3>1, <3>2 DEF Barred
    <2>5. Timely(op) => \A g \in Handler : ~ Executing(g, op)
      BY <2>3 DEF Taken
    <2>6. Timely(op) => executed[op] = 0
      BY <2>3 DEF Taken
    <2>7. TakenInv'
      BY <1>1, <1>a, <1>3, <2>2, <2>4 DEF OnceInv, TakenInv, Taken
    <2>8. ExecutingInv'
      BY <1>1, <1>a, <2>2, <2>5, <2>6 DEF OnceInv, ExecutingInv
    <2> QED  BY <1>1, <1>2, <1>a, <2>7, <2>8 DEF OnceInv, ExecutedOnce
  <1> QED  BY <1>4, <1>5

\* Executing uses up what was let through.
LEMMA ExecuteOnce ==
  ASSUME TypeOK, OnceInv, NEW h \in Handler, Execute(h)
  PROVE  OnceInv'
  <1> DEFINE op == handler[h].op
  <1>1. /\ now' = now /\ sent' = sent /\ remembered' = remembered
        /\ Executing(h, op) /\ op \in DOMAIN sent
        /\ handler' = [handler EXCEPT ![h] = Free]
    BY Numbers DEF Execute, Finish, Executing
  <1>2. /\ DOMAIN handler = Handler /\ DOMAIN executed = DOMAIN sent
        /\ executed[op] \in Nat /\ (Timely(op) => executed[op] = 0)
    BY <1>1 DEF TypeOK, OnceInv, ExecutingInv
  <1>a. \A o \in DOMAIN sent : Timely(o)' <=> Timely(o)
    BY <1>1 DEF Timely
  <1>3. executed' = executed \/ executed' = [executed EXCEPT ![op] = executed[op] + 1]
    BY DEF Execute
  <1>4. /\ DOMAIN executed' = DOMAIN sent
        /\ Timely(op) => executed'[op] \in {0, 1}
        /\ \A o \in DOMAIN sent : o # op => executed'[o] = executed[o]
    BY <1>1, <1>2, <1>3
  <1>5. \A g \in Handler, o \in DOMAIN sent : Executing(g, o)' => Executing(g, o) /\ g # h
    BY <1>1, <1>2, FreeRecord DEF Executing
  <1> HIDE DEF op
  <1>6. \A g \in Handler, o \in DOMAIN sent : Timely(o) /\ Executing(g, o)' => o # op
    BY <1>1, <1>5 DEF OnceInv, ExecutingInv
  <1>7. TakenInv'
    <2> SUFFICES ASSUME NEW o \in DOMAIN sent, Timely(o), Taken(o)'
                 PROVE  Barred(o) \/ Closed(o)
      BY <1>1, <1>a DEF TakenInv, Barred, Closed
    <2>1. Taken(o)
      BY <1>1, <1>4, <1>5 DEF Taken
    <2> QED  BY <2>1 DEF OnceInv, TakenInv
  <1>8. ExecutingInv'
    BY <1>1, <1>a, <1>4, <1>5, <1>6 DEF OnceInv, ExecutingInv
  <1>9. ExecutedOnce'
    BY <1>1, <1>2, <1>a, <1>4 DEF OnceInv, ExecutedOnce
  <1> QED  BY <1>7, <1>8, <1>9 DEF OnceInv

\* Every step keeps OnceInv.
LEMMA OnceStep ==
  ASSUME TypeOK, TimeInv, OnceInv, Next
  PROVE  OnceInv'
  <1>1. ASSUME UNCHANGED <<now, sent, remembered, executed, handler>>
        PROVE  OnceInv'
    BY <1>1, OnceFrame DEF Executing
  <1>2. ASSUME NEW h \in Handler, NEW op \in DOMAIN sent, NEW own \in BOOLEAN,
               Arrive(h, op, own)
        PROVE  OnceInv'
    <2>1. /\ UNCHANGED <<now, sent, remembered, executed>>
          /\ handler' = [handler EXCEPT ![h] =
                          [pc |-> "replay", op |-> op, since |-> now, own |-> own]]
          /\ DOMAIN handler = Handler
      BY <1>2 DEF Arrive, TypeOK
    <2>2. \A g \in Handler, o \in DOMAIN sent : Executing(g, o)' => Executing(g, o)
      BY <2>1 DEF Executing
    <2> QED  BY <2>1, <2>2, OnceFrame
  <1>3. Restart => OnceInv'
    <2> SUFFICES ASSUME Restart PROVE OnceInv'
      OBVIOUS
    <2>1. /\ sent' = sent /\ executed' = [op \in DOMAIN sent |-> 0]
          /\ handler' = [h \in Handler |-> Free]
      BY DEF Restart
    <2>2. \A h \in Handler, op \in DOMAIN sent : ~ Executing(h, op)'
      BY <2>1, FreeRecord DEF Executing
    <2> QED
      BY <2>1, <2>2 DEF OnceInv, TakenInv, ExecutingInv, ExecutedOnce, Taken
  <1>4. Tick => OnceInv'
    <2> SUFFICES ASSUME Tick PROVE OnceInv'
      OBVIOUS
    <2>1. now' = now + 1 /\ UNCHANGED <<sent, remembered, executed, handler>>
      BY DEF Tick, agentVars
    <2>2. \A op \in DOMAIN sent : Closed(op) => Closed(op)'
      BY <2>1, Numbers, AgentProtocolAssumption DEF Closed, Second
    <2>3. TakenInv'
      BY <2>1, <2>2 DEF OnceInv, TakenInv, Taken, Executing, Barred, Timely
    <2> QED  BY <2>1, <2>3 DEF OnceInv, ExecutingInv, Executing, ExecutedOnce, Timely
  <1>5. /\ IssueToken \/ RotateToken \/ RevokeToken => OnceInv'
        /\ RegisterCredentials \/ RevokeNode \/ SetDraining => OnceInv'
        /\ \A op \in DOMAIN sent : GiveUp(op) \/ ArriveRefused(op) => OnceInv'
    BY <1>1 DEF IssueToken, RotateToken, RevokeToken, RegisterCredentials, RevokeNode,
       SetDraining, GiveUp, ArriveRefused, agentVars
  <1> QED
    BY <1>2, <1>3, <1>4, <1>5, SendOnce, CheckReplayOnce, ExecuteOnce, StepCases

\* What holds at first.
LEMMA InitOnce ==
  ASSUME Init
  PROVE  TimeInv /\ OnceInv
  <1>1. DOMAIN sent = {} /\ DOMAIN executed = {}
    BY DEF Init
  <1>2. \A h \in Handler : handler[h].pc = "free"
    BY FreeRecord DEF Init
  <1> QED
    BY <1>1, <1>2 DEF TimeInv, SentInv, WaitInv, OnceInv, TakenInv, ExecutingInv,
       ExecutedOnce

\* No operation whose envelope is timely is executed twice while the agent runs, for
\* every max_skew, any sender's clock and every number of envelopes handled at a
\* time: 2 * max_skew covers the window of validate_and_unpack but for envelopes
\* stamped about max_skew ahead.
THEOREM NeverTwice == Spec => []ExecutedOnce
  <1>1. Init => TimeInv /\ OnceInv
    BY InitOnce
  <1>2. TypeOK /\ TimeInv /\ OnceInv /\ [Next]_vars => (TimeInv /\ OnceInv)'
    <2>1. CASE UNCHANGED vars
      BY <2>1 DEF vars, TimeInv, SentInv, WaitInv, OnceInv, TakenInv, ExecutingInv,
         ExecutedOnce, Taken, Executing, Barred, Closed, Timely
    <2> QED  BY <2>1, TimeStep, OnceStep
  <1>3. OnceInv => ExecutedOnce
    BY DEF OnceInv
  <1> QED  BY <1>1, <1>2, <1>3, AgentTypeCorrect, PTL DEF Spec

---------------------------------------------------------------------------
(* A stop holds                                                            *)

\* Only the last call can be under way.
LastInv == \A op \in DOMAIN sent : op # Len(sent) => client[op] # "waiting"

\* What was answered as done was executed, unless the agent was restarted.
AnswerInv ==
  restarts = 0 => \A op \in DOMAIN sent : client[op] = "done" => executed[op] # 0

StopInv == LastInv /\ AnswerInv /\ StopHolds

\* StopInv is kept when no call becomes waiting or done and nothing is executed.
LEMMA StopFrame ==
  ASSUME TypeOK, StopInv, UNCHANGED <<sent, executed, restarts, runtime>>,
         draining' \/ ~ draining,
         DOMAIN client' = DOMAIN sent,
         \A op \in DOMAIN sent :
           client'[op] = client[op] \/ client'[op] \in {"refused", "lost"}
  PROVE  StopInv'
  <1>1. DOMAIN client = DOMAIN sent
    BY DEF TypeOK
  <1>2. LastInv'
    BY DEF StopInv, LastInv
  <1>3. AnswerInv'
    BY DEF StopInv, AnswerInv
  <1>4. StopHolds'
    BY <1>1 DEF StopInv, StopHolds, Timely
  <1> QED  BY <1>2, <1>3, <1>4 DEF StopInv

\* A new call is waiting, so not all calls are done.
LEMMA SendStop ==
  ASSUME TypeOK, StopInv, NEW command \in Commands, NEW timestamp \in Int,
         Send(command, timestamp)
  PROVE  StopInv'
  <1>1. PICK n \in Nat :
          /\ DOMAIN sent = 1 .. n /\ DOMAIN sent' = 1 .. (n + 1) /\ Len(sent') = n + 1
          /\ \A op \in DOMAIN sent : /\ client'[op] = client[op]
                                     /\ executed'[op] = executed[op]
          /\ client'[n + 1] = "waiting"
    BY SendAppends
  <1>2. DOMAIN client = DOMAIN sent /\ DOMAIN client' = DOMAIN sent'
    BY SendType DEF TypeOK
  <1>3. restarts' = restarts /\ \A op \in DOMAIN sent : client[op] # "waiting"
    BY <1>2 DEF Send
  <1>4. \A op \in DOMAIN sent' : op \in DOMAIN sent \/ op = n + 1
    BY <1>1
  <1>5. LastInv'
    BY <1>1, <1>3, <1>4 DEF LastInv
  <1>6. AnswerInv'
    BY <1>1, <1>3, <1>4 DEF StopInv, AnswerInv
  <1>7. StopHolds'
    BY <1>1, <1>2 DEF StopHolds
  <1> QED  BY <1>5, <1>6, <1>7 DEF StopInv

\* The answer of a handler changes at most the call of its operation.
LEMMA AnswerChange ==
  ASSUME TypeOK, NEW h \in Handler, handler[h].pc # "free", NEW state \in CallState,
         Answer(h, state)
  PROVE  /\ DOMAIN client' = DOMAIN sent
         /\ \A op \in DOMAIN sent :
              \/ client'[op] = client[op]
              \/ op = handler[h].op /\ client[op] = "waiting" /\ client'[op] = state
  <1>1. DOMAIN client = DOMAIN sent /\ handler[h].op \in DOMAIN sent
    BY Numbers DEF TypeOK
  <1> QED  BY <1>1 DEF Answer

\* The check for a replay never answers done.
LEMMA CheckReplayStop ==
  ASSUME TypeOK, StopInv, NEW h \in Handler, CheckReplay(h)
  PROVE  StopInv'
  <1>1. UNCHANGED <<sent, executed, restarts, runtime, draining>> /\ handler[h].pc = "replay"
    BY DEF CheckReplay
  <1>2. CASE handler[h].op \in Kept
    <2>1. Answer(h, "refused") /\ "refused" \in CallState
      BY <1>2 DEF CheckReplay, Finish, CallState
    <2>2. /\ DOMAIN client' = DOMAIN sent
          /\ \A op \in DOMAIN sent : client'[op] = client[op] \/ client'[op] = "refused"
      BY <1>1, <2>1, AnswerChange
    <2> QED  BY <1>1, <2>2, StopFrame
  <1>3. CASE handler[h].op \notin Kept
    <2>1. client' = client /\ DOMAIN client = DOMAIN sent
      BY <1>3 DEF CheckReplay, Proceed, TypeOK
    <2> QED  BY <1>1, <2>1, StopFrame
  <1> QED  BY <1>2, <1>3

\* A start that is executed was not answered before, so a call is still waiting.
LEMMA ExecuteStop ==
  ASSUME TypeOK, OnceInv, StopInv, NEW h \in Handler, Execute(h)
  PROVE  StopInv'
  <1>0. PICK op \in DOMAIN sent : op = handler[h].op
    BY Numbers DEF Execute
  <1>1. /\ sent' = sent /\ restarts' = restarts /\ draining' = draining
        /\ handler[h].pc = "execute" /\ (Timely(op) => executed[op] = 0)
    BY <1>0 DEF Execute, OnceInv, ExecutingInv, Executing
  <1>2. DOMAIN client = DOMAIN sent /\ DOMAIN executed = DOMAIN sent /\ executed[op] \in Nat
    BY DEF TypeOK
  <1>3. CASE Refused(sent[op].command)
    <2>1. Answer(h, "refused") /\ UNCHANGED <<runtime, executed>> /\ "refused" \in CallState
      BY <1>0, <1>3 DEF Execute, Finish, CallState
    <2>2. /\ DOMAIN client' = DOMAIN sent
          /\ \A o \in DOMAIN sent : client'[o] = client[o] \/ client'[o] = "refused"
      BY <1>1, <2>1, AnswerChange
    <2> QED  BY <1>1, <2>1, <2>2, StopFrame
  <1>4. CASE ~ Refused(sent[op].command)
    <2>1. /\ Answer(h, "done") /\ runtime' = Effect(sent[op].command) /\ "done" \in CallState
          /\ executed' = [executed EXCEPT ![op] = executed[op] + 1]
      BY <1>0, <1>4 DEF Execute, Finish, CallState
    <2>2. /\ DOMAIN client' = DOMAIN sent
          /\ \A o \in DOMAIN sent :
               \/ client'[o] = client[o]
               \/ o = op /\ client[o] = "waiting" /\ client'[o] = "done"
      BY <1>0, <1>1, <2>1, AnswerChange
    <2>3. executed'[op] # 0 /\ \A o \in DOMAIN sent : o # op => executed'[o] = executed[o]
      BY <1>1, <1>2, <2>1
    <2>4. LastInv'
      BY <1>1, <2>2 DEF StopInv, LastInv
    <2>5. AnswerInv'
      BY <1>1, <2>2, <2>3 DEF StopInv, AnswerInv
    <2>6. StopHolds'
      <3> SUFFICES ASSUME restarts = 0, sent[Len(sent)].command = "stop",
                          sent # <<>>, ~ draining,
                          \A o \in DOMAIN sent : sent[o].command = "start" => Timely(o),
                          \A o \in DOMAIN sent : client'[o] = "done"
                   PROVE  ~ runtime'.running
        BY <1>1, <2>2 DEF StopHolds, Timely
      <3>1. CASE client[op] = "waiting"
        <4>1. op = Len(sent)
          BY <3>1 DEF StopInv, LastInv
        <4>2. runtime' = [runtime EXCEPT !.running = FALSE]
          BY <2>1, <4>1 DEF Effect
        <4> QED  BY <4>2 DEF TypeOK
      <3>2. CASE client[op] # "waiting"
        <4>1. \A o \in DOMAIN sent : client[o] = "done"
          BY <2>2, <3>2
        <4>2. ~ runtime.running
          BY <1>2, <4>1 DEF StopInv, StopHolds
        <4>3. executed[op] # 0
          BY <4>1 DEF StopInv, AnswerInv
        <4>4. sent[op].command # "start"
          BY <1>1, <4>3
        <4> QED  BY <2>1, <4>2, <4>4 DEF Effect, TypeOK
      <3> QED  BY <3>1, <3>2
    <2> QED  BY <2>4, <2>5, <2>6 DEF StopInv
  <1> QED  BY <1>3, <1>4

\* Every step keeps StopInv.
LEMMA StopStep ==
  ASSUME TypeOK, OnceInv, StopInv, Next
  PROVE  StopInv'
  <1>0. DOMAIN client = DOMAIN sent
    BY DEF TypeOK
  <1>1. ASSUME UNCHANGED <<sent, executed, restarts, runtime, client>>, draining' \/ ~ draining
        PROVE  StopInv'
    BY <1>0, <1>1, StopFrame
  <1>2. ASSUME NEW op \in DOMAIN sent, GiveUp(op) \/ ArriveRefused(op)
        PROVE  StopInv'
    <2>1. /\ UNCHANGED <<sent, executed, restarts, runtime, draining>>
          /\ \/ client' = [client EXCEPT ![op] = "lost"]
             \/ client' = [client EXCEPT ![op] = "refused"]
      BY <1>2 DEF GiveUp, ArriveRefused, agentVars
    <2>2. /\ DOMAIN client' = DOMAIN sent
          /\ \A o \in DOMAIN sent :
               client'[o] = client[o] \/ client'[o] \in {"refused", "lost"}
      BY <1>0, <2>1
    <2> QED  BY <2>1, <2>2, StopFrame
  <1>3. Restart => StopInv'
    <2> SUFFICES ASSUME Restart PROVE StopInv'
      OBVIOUS
    <2>1. sent' = sent /\ client' = client /\ restarts' = restarts + 1 /\ restarts \in Nat
      BY Numbers DEF Restart
    <2>2. restarts' # 0
      BY <2>1
    <2> QED  BY <2>1, <2>2 DEF StopInv, LastInv, AnswerInv, StopHolds
  <1>4. IssueToken \/ RotateToken \/ RevokeToken => StopInv'
    BY <1>1 DEF IssueToken, RotateToken, RevokeToken, agentVars
  <1>5. RegisterCredentials \/ RevokeNode \/ SetDraining \/ Tick => StopInv'
    BY <1>1 DEF RegisterCredentials, RevokeNode, SetDraining, Tick, agentVars
  <1>6. \A h \in Handler, op \in DOMAIN sent, own \in BOOLEAN :
          Arrive(h, op, own) => StopInv'
    BY <1>1 DEF Arrive
  <1> QED
    BY <1>2, <1>3, <1>4, <1>5, <1>6, SendStop, CheckReplayStop, ExecuteStop, StepCases

\* A client whose calls were all answered as done, the last one a stop, can rely
\* on it if its starts were timely: no copy of an earlier envelope starts the release again
\* (execute_command_direct behind validate_and_unpack).
THEOREM StopIsKept == Spec => []StopHolds
  <1>1. Init => TimeInv /\ OnceInv /\ StopInv
    <2>1. Init => StopInv
      BY DEF Init, StopInv, LastInv, AnswerInv, StopHolds
    <2> QED  BY <2>1, InitOnce
  <1>2. TypeOK /\ TimeInv /\ OnceInv /\ StopInv /\ [Next]_vars
          => (TimeInv /\ OnceInv /\ StopInv)'
    <2>1. CASE UNCHANGED vars
      BY <2>1 DEF vars, TimeInv, SentInv, WaitInv, OnceInv, TakenInv, ExecutingInv,
         ExecutedOnce, Taken, Executing, Barred, Closed, Timely, StopInv, LastInv, AnswerInv,
         StopHolds
    <2> QED  BY <2>1, TimeStep, OnceStep, StopStep
  <1>3. StopInv => StopHolds
    BY DEF StopInv
  <1> QED  BY <1>1, <1>2, <1>3, AgentTypeCorrect, PTL DEF Spec
=============================================================================
