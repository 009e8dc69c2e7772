----------------------------- MODULE MCAccounts -----------------------------
(***************************************************************************)
(* A run over two things that share nothing: the sessions of a user, and   *)
(* the one-time codes of an address.  part says what a behaviour is about; *)
(* for the sessions, rather refreshes (more of them when nothing fails) or *)
(* rather changes of the password, when nothing fails.                     *)
(***************************************************************************)
EXTENDS Accounts, TLC

CONSTANTS h1, h2, s1, s2

VARIABLE part

ASSUME Otp!SendAssumption

(* The first session is refreshed more often than the second.              *)
Tokens(n) == [s \in Sessions |-> IF s = s1 THEN n ELSE 1]
MCMaxToken == Tokens(4)

Rotations == INSTANCE AuthSessions WITH MaxPassword <- 1, MaxToken <- Tokens(3)
Refreshes == INSTANCE AuthSessions WITH MaxPassword <- 1, MaxFaults <- 0
Changes == INSTANCE AuthSessions WITH MaxToken <- Tokens(2), MaxFaults <- 0

AccountsInit == part \in {"rotations", "refreshes", "changes", "codes"} /\ Init /\ Otp!Init

AccountsNext ==
    \/ part = "rotations" /\ Rotations!Next /\ UNCHANGED <<part, codeVars>>
    \/ part = "refreshes" /\ Refreshes!Next /\ UNCHANGED <<part, codeVars>>
    \/ part = "changes" /\ Changes!Next /\ UNCHANGED <<part, codeVars>>
    \/ part = "codes" /\ Otp!Next /\ UNCHANGED <<part, vars>>

AccountsSpec == AccountsInit /\ [][AccountsNext]_<<part, vars, codeVars>>

Symmetry == Permutations(Handlers)
============================================================================
