----------------------------- MODULE GuardFaults -----------------------------
(***************************************************************************)
(* The session manager in a process that may be restarted, on a machine    *)
(* whose clock may be set back.                                            *)
(*                                                                         *)
(* main() builds everything anew: an empty table of sessions, no consumed  *)
(* delegations and a random signing key, so no token of an earlier start   *)
(* verifies.  The secret of the delegations comes from the environment and *)
(* stays what it was.                                                      *)
(***************************************************************************)
EXTENDS SessionProperties

CONSTANTS
  MaxRestarts,   \* bound on restarts
  MaxStepsBack   \* bound on how often the clock is set back

VARIABLES
  restarts,      \* how often the guard was restarted
  stepsBack,     \* how often the clock was set back
  lost,          \* history: the sessions that restarts wiped out
  spentBefore    \* history: the tokens spent before the last restart

faultVars == <<restarts, stepsBack, lost, spentBefore>>

FaultInit ==
  /\ Init
  /\ restarts = 0
  /\ stepsBack = 0
  /\ lost = [sid \in SessionIds |-> None]
  /\ spentBefore = {}

(* The process dies, with whatever it is serving, and main() runs again.   *)
Restart ==
  /\ restarts < MaxRestarts
  /\ restarts' = restarts + 1
  /\ lost' = [sid \in SessionIds |-> IF sid \in Live THEN sessions[sid] ELSE lost[sid]]
  /\ spentBefore' = spentBefore \cup {d \in Delegations : backing[d] # None}
  /\ sessions' = [sid \in SessionIds |-> None]
  /\ used_delegations' = {}
  /\ pending' = [w \in Workers |-> Idle]
  /\ backing' = [d \in Delegations |-> None]
  /\ reply' = NoReply
  /\ UNCHANGED <<now, uuids, stepsBack>>

(* chrono::Utc::now reads the wall clock, which may be set back.           *)
StepBack ==
  /\ stepsBack < MaxStepsBack
  /\ stepsBack' = stepsBack + 1
  /\ now' \in {t \in Clock : t < now}
  /\ reply' = NoReply
  /\ UNCHANGED <<sessions, used_delegations, pending, uuids, backing,
                 restarts, lost, spentBefore>>

(* A session id is random and is not drawn again.                          *)
FreshIds == \A sid \in SessionIds : lost[sid] # None => sessions'[sid] = None

FaultNext ==
  \/ Next /\ FreshIds /\ UNCHANGED faultVars
  \/ Restart
  \/ StepBack

FaultSpec == FaultInit /\ [][FaultNext]_<<vars, faultVars>>
-----------------------------------------------------------------------------
(* As long as the process lives, what is closed stays closed: a session    *)
(* marked EXPIRED does not come back when its deadline is ahead again.     *)
ClosedUnlessLost ==
  [][ restarts' = restarts => StaysClosed ]_<<vars, faultVars>>

(* specs/execution-envelope.md: "A consumed token cannot admit or amend    *)
(* another session", also when a restart comes in between: the same token, *)
(* presented as before.                                                    *)
SingleUse == \A d \in spentBefore : backing[d] = None
=============================================================================
