------------------------------- MODULE SignIn -------------------------------
(***************************************************************************)
(* Signing in to one account (app/auth.py, app/access.py): passwords, codes*)
(* of an authenticator app, recovery codes, and the count of wrong ones.   *)
(*                                                                         *)
(* Every transaction locks the account's row, so each is one action.  A    *)
(* code is the time step it belongs to; steps stand for the clock as well. *)
(***************************************************************************)
EXTENDS Integers, FiniteSets

CONSTANTS
  MaxFailures,  \* MAX_FAILURES
  Lockout,      \* LOCKOUT_SECONDS, in steps
  ChallengeTtl, \* CHALLENGE_TTL, in steps
  Skew,         \* TOTP_SKEW
  Recovery,     \* recovery codes
  MaxSteps,     \* bound on the clock
  MaxSecrets,   \* bound on the secrets and the passwords
  MaxHeld       \* bound on the challenges that somebody still has

VARIABLES
  clock,
  row,       \* the account's row
  held,      \* challenges given out, with what they are tied to
  spent,     \* the codes accepted of each secret
  again,     \* a code was accepted that had been before
  streak     \* wrong answers since the last sign-in, lock or unlock

vars == <<clock, row, held, spent, again, streak>>

NoStep == -1 - Skew
Steps == (-Skew) .. (MaxSteps + Skew)
Secrets == 1 .. MaxSecrets
Wrong == MaxSteps + Skew + 1
Codes == Steps \cup Recovery \cup {Wrong}

TypeOK ==
  /\ clock \in 0 .. MaxSteps
  /\ row \in [password : 1 .. MaxSecrets, secret : {0} \cup Secrets, made : {0} \cup Secrets,
              on : BOOLEAN, since : 0 .. MaxSteps, last : Steps \cup {NoStep}, left : SUBSET Recovery,
              failures : 0 .. MaxFailures - 1, locked : 0 .. MaxSteps + Lockout]
  /\ held \subseteq [until : 0 .. MaxSteps + ChallengeTtl, password : 1 .. MaxSecrets, since : 0 .. MaxSteps]
  /\ spent \in [Secrets -> SUBSET (Steps \cup Recovery)]
  /\ again \in BOOLEAN
  /\ streak \in 0 .. MaxFailures

Init ==
  /\ clock = 0
  /\ row = [password |-> 1, secret |-> 0, made |-> 0, on |-> FALSE, since |-> 0, last |-> NoStep,
            left |-> {}, failures |-> 0, locked |-> 0]
  /\ held = {} /\ spent = [s \in Secrets |-> {}] /\ again = FALSE /\ streak = 0

\* A wrong answer counts, and every MAX_FAILURES of them lock the account.
CountsFailure(r) ==
  IF r.failures + 1 = MaxFailures
    THEN [r EXCEPT !.failures = 0, !.locked = clock + Lockout]
    ELSE [r EXCEPT !.failures = @ + 1]
Fails ==
  /\ row' = CountsFailure(row)
  /\ streak' = IF row'.failures = 0 THEN 0 ELSE streak + 1
Cleared(r) == [r EXCEPT !.failures = 0, !.locked = 0]
Locked == row.locked > clock
Spends(code) ==
  /\ again' = (again \/ code \in spent[row.secret])
  /\ spent' = [spent EXCEPT ![row.secret] = @ \cup {code}]

\* match_code(): steps near the clock, after the last one that was used.
Matches(code, last) == code \in (clock - Skew) .. (clock + Skew) /\ code > last

\* _check_second(): what the row becomes, for a code that is right.
SecondRight(code) ==
  \/ code \in Recovery /\ code \in row.left
  \/ code \in Steps /\ Matches(code, row.last)
Used(r, code) ==
  IF code \in Recovery THEN [r EXCEPT !.left = @ \ {code}] ELSE [r EXCEPT !.last = code]

-----------------------------------------------------------------------------
(* The password step.                                                      *)

\* A bug: the right password forgets the wrong codes.
RightPasswordClears ==
  /\ ~Locked /\ row' = Cleared(row) /\ streak' = IF row.on THEN streak ELSE 0
  /\ IF row.on THEN held' = held \cup {[until |-> clock + ChallengeTtl, password |-> row.password,
                                        since |-> row.since]}
     ELSE UNCHANGED held
  /\ Cardinality(held') <= MaxHeld
  /\ UNCHANGED <<clock, spent, again>>

\* authenticate() with the right password: with two factors the sign-in is not
\* done, and there is a challenge in its place.
RightPassword ==
  /\ ~Locked
  /\ IF row.on
       THEN /\ held' = held \cup {[until |-> clock + ChallengeTtl, password |-> row.password,
                                   since |-> row.since]}
            /\ Cardinality(held') <= MaxHeld
            /\ UNCHANGED <<row, streak>>
       ELSE row' = Cleared(row) /\ streak' = 0 /\ UNCHANGED held
  /\ UNCHANGED <<clock, spent, again>>

WrongPassword == ~Locked /\ Fails /\ UNCHANGED <<clock, held, spent, again>>

\* finish_login(): the challenge is of this password and of this setup.
Answers(challenge, code) ==
  /\ challenge \in held /\ clock <= challenge.until
  /\ row.on /\ challenge.password = row.password /\ challenge.since = row.since
  /\ ~Locked
  /\ IF SecondRight(code)
       THEN row' = Cleared(Used(row, code)) /\ streak' = 0 /\ Spends(code)
       ELSE Fails /\ UNCHANGED <<spent, again>>
  /\ UNCHANGED <<clock, held>>

-----------------------------------------------------------------------------
(* The account's own settings; the password was typed once more.           *)

Setting == UNCHANGED <<clock, held, streak>>

\* begin_setup(): a secret that is not in force yet.
BeginsSetup ==
  /\ ~row.on /\ row.made < MaxSecrets
  /\ row' = [row EXCEPT !.secret = row.made + 1, !.made = @ + 1, !.last = NoStep]
  /\ Setting /\ UNCHANGED <<spent, again>>

\* A bug: the code that turned it on is not remembered.
EnablesForgetting(code) ==
  /\ ~row.on /\ row.secret # 0 /\ code \in Steps /\ Matches(code, NoStep)
  /\ row' = [row EXCEPT !.on = TRUE, !.since = clock, !.left = Recovery]
  /\ Spends(code) /\ Setting

\* enable(): in force once a code from it has been typed back.
Enables(code) ==
  /\ ~row.on /\ row.secret # 0 /\ code \in Steps /\ Matches(code, NoStep)
  /\ row' = [row EXCEPT !.on = TRUE, !.since = clock, !.last = code, !.left = Recovery]
  /\ Spends(code) /\ Setting

Clear(r) == [r EXCEPT !.secret = 0, !.on = FALSE, !.since = 0, !.last = NoStep, !.left = {}]

\* disable(), with a code; an abandoned setup needs none.
Disables(code) ==
  /\ IF row.on THEN SecondRight(code) /\ row' = Clear(row) /\ Spends(code)
     ELSE /\ row.secret # 0 /\ code = Wrong
          /\ row' = [row EXCEPT !.secret = 0] /\ UNCHANGED <<spent, again>>
  /\ Setting

\* regenerate_recovery(): all recovery codes are new ones, and none was used.
Regenerates(code) ==
  /\ row.on /\ SecondRight(code)
  /\ row' = [Used(row, code) EXCEPT !.left = Recovery]
  /\ again' = (again \/ code \in spent[row.secret])
  /\ spent' = [spent EXCEPT ![row.secret] = (@ \cup {code}) \ Recovery]
  /\ Setting

\* set_password(); an administrator's admin_reset(), and "unlock" of update_user().
SetsPassword ==
  /\ row.password < MaxSecrets /\ row' = [Cleared(row) EXCEPT !.password = @ + 1] /\ streak' = 0
  /\ UNCHANGED <<clock, held, spent, again>>
AdminResets == row' = Clear(row) /\ Setting /\ UNCHANGED <<spent, again>>
Unlocks == row' = Cleared(row) /\ streak' = 0 /\ UNCHANGED <<clock, held, spent, again>>

TimePasses ==
  /\ clock < MaxSteps /\ clock' = clock + 1
  /\ held' = {h \in held : h.until >= clock'}
  /\ row' = IF row.locked <= clock' THEN [row EXCEPT !.locked = 0] ELSE row
  /\ UNCHANGED <<spent, again, streak>>

Next ==
  \/ RightPassword \/ WrongPassword \/ BeginsSetup
  \/ SetsPassword \/ AdminResets \/ Unlocks \/ TimePasses
  \/ \E code \in Codes :
       \/ Enables(code) \/ Disables(code) \/ Regenerates(code)
       \/ \E challenge \in held : Answers(challenge, code)

Spec == Init /\ [][Next]_vars

-----------------------------------------------------------------------------
(* Properties.                                                             *)

\* match_code(): "a code works once", wherever it is typed: to turn two factors
\* on or off, to sign in, for new recovery codes.
CodeOnce == ~again

\* authenticate(): "Clearing it here would let 'password, seven wrong codes,
\* password, ...' run for ever": wrong answers that no sign-in came between lock
\* the account, whichever step they were given to.
WrongAnswersLock == streak < MaxFailures

\* begin_setup(): "a half-scanned QR code locks nobody out": the second factor
\* is asked for only while some code of it is known to have worked.
NobodyLockedOut == row.on => row.secret # 0 /\ spent[row.secret] # {}

\* The three together: a code lets somebody in once, guessing does not, and the owner can get in.
AccountsHold == CodeOnce /\ WrongAnswersLock /\ NobodyLockedOut
=============================================================================
