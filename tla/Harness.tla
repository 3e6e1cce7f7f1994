------------------------------- MODULE Harness -------------------------------
(***************************************************************************)
(* The Python harness (clared-python/clared/harness.py) as a client of the *)
(* session manager.                                                        *)
(*                                                                         *)
(* A client is one `async with harness.session(...)` block: it proposes an *)
(* envelope, runs the workflow of the user, seals when the workflow ends   *)
(* and aborts when it raises.  It awaits one answer at a time.  A request  *)
(* reaches a worker late, after its client gave up on it, or never; an     *)
(* answer that nobody waits for is lost.  httpx sends nothing twice.  The  *)
(* guard may be restarted meanwhile.                                       *)
(***************************************************************************)
EXTENDS GuardFaults

CONSTANTS
  Clients,
  Asks,       \* client -> what it passes to session()
  ToolKeys,   \* keys that workflows pass to call_tool, or that it draws
  SealKey,    \* _seal_idempotency_key (a key belongs to one session)
  AbortKey,   \* _abort_idempotency_key
  MaxRpcs     \* bound: after so many requests a workflow makes no more

(* create_delegation_token: the nonce is fresh, and the expiry is written  *)
(* as the MAC has it.                                                      *)
Delegation(c, expires_at_ms, n) ==
  [identity |-> Asks[c].identity, expires_at_ms |-> expires_at_ms, nonce |-> <<c, n>>,
   spelling |-> "canonical"]

(* How long the delegation of a proposal is good for.                      *)
DelegationTtl(c) == Max({Asks[c].ttl_ms, 60000})

(* What clients say is among what the guard can be told.                   *)
ASSUME HarnessAssumption ==
  /\ Asks \in [Clients -> Proposals]
  /\ ToolKeys \cup {SealKey, AbortKey} \subseteq Keys
  /\ MaxRpcs \in Nat \ {0}
  /\ 1..MaxRpcs \subseteq Generations
  /\ \A c \in Clients, t \in Clock, n \in 1..MaxRpcs :
       {Delegation(c, t + DelegationTtl(c), n), Delegation(c, t + Asks[c].ttl_ms, n)}
         \subseteq Delegations

VARIABLES
  client,     \* client -> where its block is and what it knows
  wire,       \* requests that were sent and that no worker took
  serving     \* worker -> the message it serves

harnessVars == <<vars, faultVars, client, wire, serving>>

guardVars == <<vars, faultVars>>

Ended == {"returned", "raised", "cancelled"}

Phases == {"outside", "proposing", "working", "sealing", "aborting"} \cup Ended

(* `unanswered` is a history variable: the methods of the requests that    *)
(* the client gave up on.                                                  *)
NewClient ==
  [phase |-> "outside", rpc |-> 0, waiting |-> None, answer |-> None,
   capability_token |-> None, acknowledged |-> [k \in ToolKeys |-> None],
   settlement_receipt |-> None, abort_receipt |-> None, unanswered |-> {}]

HarnessInit ==
  /\ FaultInit
  /\ client = [c \in Clients |-> NewClient]
  /\ wire = {}
  /\ serving = [w \in Workers |-> None]

Message(c, r) == [from |-> c, rpc |-> client[c].rpc + 1, request |-> r]

(* The block sends r and awaits the answer.                                *)
Send(c, phase, r) ==
  /\ wire' = wire \cup {Message(c, r)}
  /\ client' = [client EXCEPT ![c].phase = phase, ![c].rpc = client[c].rpc + 1,
                              ![c].waiting = r, ![c].answer = None]

Mint(c, expires_at_ms) == Delegation(c, expires_at_ms, client[c].rpc + 1)

(* session(), up to its first await.                                       *)
Enter(c) ==
  /\ client[c].phase = "outside"
  /\ Send(c, "proposing",
          [method |-> "intent/propose", proposal |-> Asks[c],
           delegation |-> Mint(c, now + DelegationTtl(c))])
  /\ UNCHANGED <<guardVars, serving>>
-----------------------------------------------------------------------------
(* What the workflow may do: any sequence of calls, also after one failed. *)
Working(c) == client[c].phase = "working" /\ client[c].waiting = None

MayAsk(c) == Working(c) /\ client[c].rpc < MaxRpcs

CallTool(c) ==
  LET token == client[c].capability_token IN
  /\ MayAsk(c)
  /\ \E key \in ToolKeys, call \in Calls :
       Send(c, "working",
            [method |-> "tools/call", session_id |-> token.session_id,
             capability_token |-> token, generation |-> token.generation,
             idempotency_key |-> key, call |-> call])
  /\ UNCHANGED <<guardVars, serving>>

AmendBudget(c) ==
  LET token == client[c].capability_token IN
  /\ MayAsk(c)
  /\ \E additions \in Additions :
       Send(c, "working",
            [method |-> "intent/amend", session_id |-> token.session_id,
             capability_token |-> token, delegation |-> Mint(c, token.expires_at_ms),
             budget_additions |-> additions])
  /\ UNCHANGED <<guardVars, serving>>

CloseRequest(c, method, key) ==
  [method |-> method, session_id |-> client[c].capability_token.session_id,
   capability_token |-> client[c].capability_token, idempotency_key |-> key]

(* A workflow may call seal() and abort() by itself.                       *)
CloseEarly(c) ==
  /\ MayAsk(c)
  /\ \/ \E key \in ToolKeys \cup {SealKey} :
            Send(c, "working", CloseRequest(c, "intent/seal", key))
     \/ \E key \in ToolKeys \cup {AbortKey} :
            Send(c, "working", CloseRequest(c, "intent/abort", key))
  /\ UNCHANGED <<guardVars, serving>>

(* The body of the block ends: `await session.seal()`.                     *)
Finish(c) ==
  /\ Working(c)
  /\ Send(c, "sealing", CloseRequest(c, "intent/seal", SealKey))
  /\ UNCHANGED <<guardVars, serving>>

(* It raises: `await session.abort(...)`.                                  *)
Fail(c) ==
  /\ Working(c)
  /\ Send(c, "aborting", CloseRequest(c, "intent/abort", AbortKey))
  /\ UNCHANGED <<guardVars, serving>>

(* The task is cancelled, wherever it is.  `except Exception` does not see *)
(* that: only close() follows.                                             *)
Cancel(c) ==
  /\ client[c].phase \in Phases \ (Ended \cup {"outside"})
  /\ client' = [client EXCEPT
       ![c].phase = "cancelled", ![c].waiting = None, ![c].answer = None,
       ![c].unanswered = IF client[c].waiting = None THEN client[c].unanswered
                         ELSE client[c].unanswered \cup {client[c].waiting.method}]
  /\ UNCHANGED <<guardVars, wire, serving>>
-----------------------------------------------------------------------------
(* An awaited request ends.                                                *)

(* Mutant of Learned: amend() returns its result and keeps the old token.  *)
LearnedNoToken(c, r, result) ==
  CASE r.method = "intent/propose" -> [client[c] EXCEPT !.capability_token = result]
    [] r.method = "tools/call" ->
         [client[c] EXCEPT !.acknowledged =
            [client[c].acknowledged EXCEPT ![r.idempotency_key] = result]]
    [] r.method = "intent/seal"  -> [client[c] EXCEPT !.settlement_receipt = result]
    [] r.method = "intent/abort" -> [client[c] EXCEPT !.abort_receipt = result]
    [] OTHER -> client[c]

(* What the client keeps of a result.                                      *)
Learned(c, r, result) ==
  CASE r.method \in {"intent/propose", "intent/amend"} ->
         [client[c] EXCEPT !.capability_token = result]
    [] r.method = "tools/call" ->
         [client[c] EXCEPT !.acknowledged =
            [client[c].acknowledged EXCEPT ![r.idempotency_key] = result]]
    [] r.method = "intent/seal"  -> [client[c] EXCEPT !.settlement_receipt = result]
    [] r.method = "intent/abort" -> [client[c] EXCEPT !.abort_receipt = result]

(* Where the block is after its own request was answered.                  *)
PhaseAfter(phase) ==
  CASE phase = "sealing"  -> "returned"
    [] phase = "aborting" -> "raised"
    [] OTHER              -> "working"

Returns(c) ==
  /\ client[c].answer # None
  /\ client[c].answer.code = "OK"
  /\ client' = [client EXCEPT ![c] =
       [Learned(c, client[c].waiting, client[c].answer.result) EXCEPT
          !.phase = PhaseAfter(client[c].phase), !.waiting = None, !.answer = None]]
  /\ UNCHANGED <<guardVars, wire, serving>>

(* Mutant of Raises: what seal() raises ends the block normally.           *)
RaisesQuietly(c, unanswered) ==
  /\ client' = [client EXCEPT
       ![c].phase = CASE client[c].phase = "sealing" -> "returned"
                      [] client[c].phase = "working" -> "working"
                      [] OTHER                       -> "raised",
       ![c].waiting = None, ![c].answer = None,
       ![c].unanswered = client[c].unanswered \cup unanswered]
  /\ UNCHANGED wire

(* The request raises: seal() makes the block abort, abort() makes it give *)
(* up, and a workflow may catch the exception (or not: then Fail follows). *)
Raises(c, unanswered) ==
  IF client[c].phase = "sealing"
  THEN /\ wire' = wire \cup {Message(c, CloseRequest(c, "intent/abort", AbortKey))}
       /\ client' = [client EXCEPT
            ![c].phase = "aborting", ![c].rpc = client[c].rpc + 1, ![c].answer = None,
            ![c].waiting = CloseRequest(c, "intent/abort", AbortKey),
            ![c].unanswered = client[c].unanswered \cup unanswered]
  ELSE /\ client' = [client EXCEPT
            ![c].phase = IF client[c].phase = "working" THEN "working" ELSE "raised",
            ![c].waiting = None, ![c].answer = None,
            ![c].unanswered = client[c].unanswered \cup unanswered]
       /\ UNCHANGED wire

Rejected(c) ==
  /\ client[c].answer # None
  /\ client[c].answer.code # "OK"
  /\ Raises(c, {})
  /\ UNCHANGED <<guardVars, serving>>

(* Mutant of TimesOut: nothing ends the wait for the last answer.          *)
TimesOutWorking(c) ==
  /\ client[c].waiting # None
  /\ client[c].answer = None
  /\ client[c].phase = "working"
  /\ Raises(c, {client[c].waiting.method})
  /\ UNCHANGED <<guardVars, serving>>

(* httpx gives up after 5 or 10 seconds, or the connection breaks.         *)
TimesOut(c) ==
  /\ client[c].waiting # None
  /\ client[c].answer = None
  /\ Raises(c, {client[c].waiting.method})
  /\ UNCHANGED <<guardVars, serving>>
-----------------------------------------------------------------------------
(* The guard's side.                                                       *)
(* Mutant of Awaits: also when the client gave up.                         *)
AwaitsAnyway(m) == client[m.from].rpc = m.rpc

Awaits(m) ==
  /\ client[m.from].waiting # None
  /\ client[m.from].rpc = m.rpc

(* The reply of this step goes to the client that sent m, if it waits.     *)
Respond(m) ==
  client' = IF Awaits(m) /\ reply'.code # "none"
            THEN [client EXCEPT ![m.from].answer =
                    [code |-> reply'.code,
                     result |-> IF reply'.code = "OK" THEN reply'.result ELSE None]]
            ELSE client

(* A token of an earlier start does not verify.                            *)
Presented(r) ==
  IF r.method # "intent/propose" /\ lost[r.session_id] # None
  THEN [r EXCEPT !.capability_token = None] ELSE r

Take(w) ==
  \E m \in wire :
    /\ wire' = wire \ {m}
    /\ Accept(w, Presented(m.request)) \/ Decline(w, Presented(m.request))
    /\ serving' = IF pending'[w] = Idle THEN serving ELSE [serving EXCEPT ![w] = m]
    /\ Respond(m)
    /\ UNCHANGED faultVars

Process(w) ==
  /\ Serve(w)
  /\ FreshIds
  /\ Respond(serving[w])
  /\ serving' = IF pending'[w] = Idle THEN [serving EXCEPT ![w] = None] ELSE serving
  /\ UNCHANGED <<wire, faultVars>>

TimePasses == Tick /\ UNCHANGED <<faultVars, client, wire, serving>>

(* Whoever waits for an answer of the old process will time out.           *)
GuardRestarts ==
  /\ Restart
  /\ serving' = [w \in Workers |-> None]
  /\ UNCHANGED <<client, wire>>

Await(c) == Returns(c) \/ Rejected(c) \/ TimesOut(c)

HarnessNext ==
  \/ TimePasses \/ GuardRestarts
  \/ \E w \in Workers : Take(w) \/ Process(w)
  \/ \E c \in Clients :
       \/ Enter(c)
       \/ CallTool(c) \/ AmendBudget(c) \/ CloseEarly(c)
       \/ Finish(c) \/ Fail(c) \/ Cancel(c)
       \/ Await(c)

HarnessSpec == HarnessInit /\ [][HarnessNext]_harnessVars

(* What was sent is answered or times out.  Nothing forces the network to  *)
(* deliver, the guard to answer or the workflow to end.                    *)
HarnessFairSpec == HarnessSpec /\ \A c \in Clients : WF_harnessVars(Await(c))
=============================================================================
