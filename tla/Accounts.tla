------------------------------ MODULE Accounts ------------------------------
(***************************************************************************)
(* The two ways in which an account is entered: the sessions of a user,    *)
(* and the one-time codes of an address, of which each purpose has its     *)
(* own.  They share nothing but the requests that arrive.                  *)
(***************************************************************************)
EXTENDS AuthSessions

CONSTANTS MaxCodes, MaxTime, Expires, Cooldown, Window, MaxPerWindow, MaxAttempts

VARIABLES now, code, codeReq, sentAt, tried, accepted, overlap

codeVars == <<now, code, codeReq, sentAt, tried, accepted, overlap>>

Otp == INSTANCE OneTimeCodes WITH req <- codeReq

ASSUME CodeBounds == Otp!CodesAssumption

(* A code is used once, tried and sent a limited number of times, and one  *)
(* that has been consumed stays so; each part is explained in OneTimeCodes.*)
CodesLimited ==
    /\ [](Otp!TypeOK /\ Otp!CodeUsedOnce /\ Otp!AttemptsLimited /\ Otp!SendsLimited)
    /\ Otp!ConsumedForGood
=============================================================================
