------------------------- MODULE HarnessProperties -------------------------
(***************************************************************************)
(* What a block of the harness may believe, against what the guard did.    *)
(***************************************************************************)
EXTENDS Harness

(* What a client sends; the guard may know no such tool.                   *)
SentRequests ==
  CheckedRequests \cup
  [method : {"tools/call"}, session_id : SessionIds, capability_token : Tokens,
   generation : Generations, idempotency_key : Keys, call : Calls]

Messages == [from : Clients, rpc : Nat, request : SentRequests]

Responses == [tool : {c.name : c \in Calls}, staged_id : Nat]

Codes ==
  {"OK", "INVALID_PARAMS", "MISSING_ADAPTER", "RESOURCE_OUTSIDE_ENVELOPE",
   "INVALID_DELEGATION", "UNKNOWN_SESSION", "INVALID_CAPABILITY", "INVALID_LIFECYCLE",
   "TOOL_OUTSIDE_ENVELOPE", "POLICY_VIOLATION", "INSUFFICIENT_BUDGET",
   "IDEMPOTENCY_CONFLICT", "INTERNAL_ERROR"}

Answers ==
  [code : Codes, result : Tokens \cup Responses \cup SealReceipts \cup AbortReceipts
                             \cup {None}]

ASSUME NoneIsNotSent == None \notin SentRequests \cup Messages \cup Answers

Blocks ==
  [phase : Phases, rpc : Nat, waiting : SentRequests \cup {None},
   answer : Answers \cup {None}, capability_token : Tokens \cup {None},
   acknowledged : [ToolKeys -> Responses \cup {None}],
   settlement_receipt : SealReceipts \cup {None},
   abort_receipt : AbortReceipts \cup {None}, unanswered : SUBSET Methods]

(* The variables of the clients and of the network have their types; a     *)
(* client has an answer only while it waits for one.                       *)
HarnessTypeOK ==
  /\ client \in [Clients -> Blocks]
  /\ wire \subseteq Messages
  /\ serving \in [Workers -> Messages \cup {None}]
  /\ \A c \in Clients : client[c].answer # None => client[c].waiting # None

Holds(c) == client[c].capability_token # None

(* A session, or what it was when a restart wiped it out.                  *)
Record(sid) == IF lost[sid] # None THEN lost[sid] ELSE sessions[sid]

(* The session of a client that got that far.                              *)
SessionOf(c) == Record(client[c].capability_token.session_id)

Numbers(actions) == {actions[i].staged_id : i \in DOMAIN actions}

(* A block that ends normally: its session is settled, the receipt in the  *)
(* client's hands is the one on record, and everything that was ever       *)
(* acknowledged to the workflow is in it.                                  *)
SuccessIsSettled ==
  \A c \in Clients : client[c].phase = "returned" =>
    /\ client[c].settlement_receipt # None
    /\ SessionOf(c).settlement_result = client[c].settlement_receipt
    /\ \A k \in ToolKeys : client[c].acknowledged[k] # None =>
         client[c].acknowledged[k].staged_id \in
           Numbers(client[c].settlement_receipt.settled_actions)

(* Receipts in hand stay true, whatever arrives late: what a client was    *)
(* told is settled is never taken back, and the other way round.           *)
ReceiptsInHandStand ==
  \A c \in Clients : Holds(c) =>
    /\ client[c].settlement_receipt # None =>
         /\ SessionOf(c).settlement_result = client[c].settlement_receipt
         /\ SessionOf(c).abort_result = None
    /\ client[c].abort_receipt # None =>
         /\ SessionOf(c).abort_result = client[c].abort_receipt
         /\ SessionOf(c).settlement_result = None

(* A block that raised or was cancelled leaves nothing settled behind its  *)
(* back: then it has the receipt, or it gave up on an answer to seal().    *)
NeverSettledUnawares ==
  \A c \in Clients :
    Holds(c) /\ client[c].phase \in {"aborting", "raised", "cancelled"} =>
      \/ SessionOf(c).settlement_result = None
      \/ client[c].settlement_receipt # None
      \/ "intent/seal" \in client[c].unanswered

(* The client's token is not the one that is active for its session.       *)
Fenced(c) == Holds(c) /\ client[c].capability_token # SessionOf(c).capability_token

(* A client is fenced out of its own session by one thing only: an answer  *)
(* to amend() that it does not have (yet).                                 *)
FencedByLostAmendOnly ==
  \A c \in Clients : Fenced(c) =>
    \/ "intent/amend" \in client[c].unanswered
    \/ client[c].waiting # None /\ client[c].waiting.method = "intent/amend"

(* While a client is fenced out, nothing it sent before or sends now gets  *)
(* through, its seal() and abort() included: its session can only expire.  *)
FencedClientStrands ==
  [][ \A c \in Clients : Fenced(c) =>
        \/ SessionOf(c)' = SessionOf(c)
        \/ SessionOf(c)' = [SessionOf(c) EXCEPT !.status = "EXPIRED"] ]_harnessVars

(* The answer that a client holds is a success of one of these methods.    *)
Succeeded(k, methods) ==
  /\ k.answer # None
  /\ k.answer.code = "OK"
  /\ k.waiting.method \in methods

Opening == {"intent/propose", "intent/amend"}

(* The last token that a client was given, read or yet to be read.         *)
Latest(k) == IF Succeeded(k, Opening) THEN k.answer.result ELSE k.capability_token

(* The session of a block: the one it was given a token of.                *)
Owns(c) == Latest(client[c]) # None

OwnSession(c) == Latest(client[c]).session_id

(* A session that was admitted changes only when a request of its own block*)
(* is answered.  One that no block was told of, since the answer to its    *)
(* intent/propose was lost, stays as it was admitted; and no block reaches *)
(* the session of another.                                                 *)
OwnRequestsOnly ==
  [][ \A sid \in SessionIds : Record(sid) # None /\ Record(sid)' # Record(sid) =>
        \E w \in Workers :
          /\ serving[w] # None
          /\ serving'[w] = None
          /\ Owns(serving[w].from)
          /\ OwnSession(serving[w].from) = sid ]_harnessVars

(* Leaving a block takes its time but ends, also when the guard is silent. *)
BlockEnds ==
  \A c \in Clients :
    client[c].phase \in {"sealing", "aborting"} ~> client[c].phase \in Ended
=============================================================================
