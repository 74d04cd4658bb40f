----------------------------- MODULE PowerControl -----------------------------
(***************************************************************************)
(* OS and handlePowerCommand: what each power request calls, how each call *)
(* can fail, and what the client is told.  An error message is the request *)
(* and the call it is about; s_lastError keeps the last one for ever.      *)
(***************************************************************************)
EXTENDS Naturals

CONSTANTS MaxPower     \* bound: power requests

ASSUME PowerBoundsAssumption == MaxPower \in Nat

VARIABLES
  lastError,           \* OS::s_lastError
  powerPc, action,     \* the request in progress
  powerAnswer,
  powerCount,
  (* ghost *)
  tokens               \* token handles that are open

powerVars == <<lastError, powerPc, action, powerAnswer, powerCount, tokens>>

NoError == [request |-> 0, call |-> ""]

\* Requests that need the shutdown privilege, and all.
Privileged == {"shutdown", "restart", "cancel"}
Actions    == Privileged \cup {"sleep", "hibernate", "logoff", "lock", "unknown"}

PowerInit ==
  /\ lastError = NoError /\ powerPc = "idle" /\ action = "unknown"
  /\ powerAnswer = [request |-> 0, result |-> 0, error |-> NoError]
  /\ powerCount = 0 /\ tokens = 0

-----------------------------------------------------------------------------
(* An operator named ..Fault is a plausible bug in the one that follows it; no *)
(* specification uses it.                                                      *)

\* The call sets s_lastError (the fault: not when Windows says that it adjusted
\* the privileges, but not all of them).
ErrorFault(call) == IF call = "assigned" THEN lastError
                    ELSE [request |-> powerCount, call |-> call]
Error(call) == [request |-> powerCount, call |-> call]

\* The request is answered; the message of a success is empty.
Succeeds == /\ powerPc' = "idle" /\ UNCHANGED lastError
            /\ powerAnswer' = [request |-> powerCount, result |-> 0, error |-> NoError]
FailsAt(call) ==
  /\ powerPc' = "idle" /\ lastError' = Error(call)
  /\ powerAnswer' = [request |-> powerCount, result |-> 1, error |-> lastError']

PowerRequest(a) ==
  /\ powerPc = "idle" /\ powerCount < MaxPower /\ powerCount' = powerCount + 1
  /\ action' = a
  /\ powerPc' = CASE a \in Privileged  -> "token"
                  [] a = "hibernate"   -> "available"
                  [] OTHER             -> "call"
  /\ UNCHANGED <<lastError, powerAnswer, tokens>>

\* enableShutdownPrivilege: OpenProcessToken.
OpenToken(ok) ==
  /\ powerPc = "token"
  /\ IF ok THEN /\ tokens' = tokens + 1 /\ powerPc' = "adjust"
                /\ UNCHANGED <<lastError, powerAnswer>>
           ELSE FailsAt("token") /\ UNCHANGED tokens
  /\ UNCHANGED <<action, powerCount>>

\* The handles left after CloseHandle (the fault: it is missing on the path of a
\* privilege that was not assigned).
TokensLeftFault(outcome) == IF outcome = "assigned" THEN tokens ELSE tokens - 1
TokensLeft(outcome) == tokens - 1

\* The rest of it: LookupPrivilegeValue, AdjustTokenPrivileges, the test that the
\* privilege was assigned, and CloseHandle.
AdjustToken(outcome) ==
  /\ powerPc = "adjust"
  /\ IF outcome = "ok" THEN powerPc' = "call" /\ UNCHANGED <<lastError, powerAnswer>>
                       ELSE FailsAt(outcome)
  /\ tokens' = TokensLeft(outcome)
  /\ UNCHANGED <<action, powerCount>>

HibernateAvailable(ok) ==
  /\ powerPc = "available"
  /\ IF ok THEN powerPc' = "call" /\ UNCHANGED <<lastError, powerAnswer>>
           ELSE FailsAt("available")
  /\ UNCHANGED <<action, powerCount, tokens>>

\* The call into Windows; that there is nothing to cancel is no failure.  An
\* unknown action makes no call, and has a message of its own.
CallWindows(ok) ==
  /\ powerPc = "call"
  /\ CASE action = "unknown" ->
            /\ powerPc' = "idle" /\ UNCHANGED lastError
            /\ powerAnswer' = [request |-> powerCount, result |-> 1,
                               error |-> [request |-> powerCount, call |-> "unknown"]]
       [] OTHER -> IF ok THEN Succeeds ELSE FailsAt("windows")
  /\ UNCHANGED <<action, powerCount, tokens>>

PowerStep ==
  \/ \E ok \in BOOLEAN : OpenToken(ok) \/ HibernateAvailable(ok) \/ CallWindows(ok)
  \/ \E outcome \in {"luid", "adjusted", "assigned", "ok"} : AdjustToken(outcome)

-----------------------------------------------------------------------------
(* Properties *)

Errors == [request : 0..MaxPower,
           call : {"", "token", "luid", "adjusted", "assigned", "available", "windows"}]

PowerTypeOK ==
  /\ lastError \in Errors
  /\ powerPc \in {"idle", "token", "adjust", "available", "call"} /\ action \in Actions
  /\ powerAnswer.request \in 0..MaxPower /\ powerAnswer.result \in 0..1
  /\ powerCount \in 0..MaxPower /\ tokens \in 0..1

\* A client whose power request failed is told why this request failed, never
\* why an earlier one did, although s_lastError is shared and never reset.
ErrorIsOwn == powerAnswer.result = 1 => powerAnswer.error.request = powerAnswer.request
=============================================================================
