---------------------------- MODULE MpinLockout ----------------------------
(***************************************************************************)
(* The MPIN of an account and its lock-out: services/auth_service.go.      *)
(*                                                                         *)
(* A handler reads the row of the account, compares the MPIN (bcrypt takes *)
(* a while), and saves the whole row as it read it with its own change in  *)
(* it. Nothing keeps two handlers from reading the same row, and gorm's    *)
(* Save inserts a row that is gone. The same goes for every other handler  *)
(* that saves the row.                                                     *)
(*                                                                         *)
(* Time is the time a lock has left, here and in the rows handlers hold.   *)
(***************************************************************************)
EXTENDS Integers

CONSTANTS
  Accounts,
  Clients,      \* requests in progress at once
  Pins,
  NoPin,        \* the MPIN of an account that has set none
  MaxAttempts,  \* maxMPINAttempts
  Window        \* mpinLockoutWindow, in ticks

ASSUME LockoutAssumption ==
  /\ NoPin \notin Pins
  /\ MaxAttempts \in Nat \ {0} /\ Window \in Nat \ {0}

VARIABLES
  accounts,  \* the columns of the users rows that matter here
  request,   \* what each handler has read and is about to save
  wrong,     \* wrong MPINs an account was told of since the last right one,
             \* lock or new start
  chosen,    \* the MPIN last acknowledged
  overrun    \* accounts whose row lost a change: a save wrote over one that was
             \* made after its read, or was needed and failed

lockoutVars == <<accounts, request, wrong, chosen, overrun>>

-----------------------------------------------------------------------------
NoRequest == [op |-> "none"]
Gone == [live |-> FALSE, mpin |-> NoPin, failed |-> 0, lock |-> 0]
Fresh(pin) == [live |-> TRUE, mpin |-> pin, failed |-> 0, lock |-> 0]

LockoutInit ==
  /\ \E pin \in [Accounts -> Pins \cup {NoPin}] :
       /\ accounts = [a \in Accounts |-> Fresh(pin[a])]
       /\ chosen = pin
  /\ request = [c \in Clients |-> NoRequest]
  /\ wrong = [a \in Accounts |-> 0]
  /\ overrun = {}

ReadRow(c, op, a, row) ==
  /\ request[c] = NoRequest
  /\ accounts[a].live
  /\ request' = [request EXCEPT ![c] =
       [op |-> op, who |-> a, read |-> accounts[a], save |-> row]]
  /\ UNCHANGED <<accounts, wrong, chosen, overrun>>

-----------------------------------------------------------------------------
(* Requests                                                                *)

Locked(row) == row.lock > 0

GuessOn(row) == FALSE                                      \* faulty variant
Refused(row) == Locked(row)
CheckMPIN(stored, candidate) == stored # NoPin /\ stored = candidate

\* A right MPIN clears the failures. Storing it again as a hash, where it was
\* still plain text, changes nothing of what it accepts.
LoginClears(row) == [row EXCEPT !.failed = 0, !.lock = 0]

OneTooMany(row) ==                                         \* faulty variant
  IF row.failed + 1 > MaxAttempts THEN [row EXCEPT !.failed = 0, !.lock = Window]
  ELSE [row EXCEPT !.failed = @ + 1]
CountFailure(row) ==
  IF row.failed + 1 >= MaxAttempts THEN [row EXCEPT !.failed = 0, !.lock = Window]
  ELSE [row EXCEPT !.failed = @ + 1]

RehashFirst(row, pin) ==                                   \* faulty variant
  IF CheckMPIN(row.mpin, pin) THEN LoginClears(row)
  ELSE [CountFailure(row) EXCEPT !.mpin = pin]
CheckedRow(row, pin) ==
  IF CheckMPIN(row.mpin, pin) THEN LoginClears(row) ELSE CountFailure(row)

Answer(row, pin) ==
  IF CheckMPIN(row.mpin, pin) THEN "right"
  ELSE IF Locked(CheckedRow(row, pin)) THEN "locks" ELSE "wrong"

VerifyMPIN(c, a, pin) ==
  /\ accounts[a].mpin # NoPin
  /\ ~Refused(accounts[a])
  /\ ReadRow(c, Answer(accounts[a], pin), a, CheckedRow(accounts[a], pin))

SetMPIN(c, a, pin) ==
  ReadRow(c, "set", a, [accounts[a] EXCEPT !.mpin = pin])

\* A profile update, or a sign-in with Google that links the account.
SaveProfile(c, a) == ReadRow(c, "profile", a, accounts[a])

\* The person identified by Google gives a number and an MPIN: a new start.
CompleteGoogleSignup(c, a, pin) == ReadRow(c, "complete", a, Fresh(pin))

\* The row is removed for good; a new registration has another id.
RemoveAccount(a) ==
  /\ accounts[a].live
  /\ accounts' = [accounts EXCEPT ![a] = Gone]
  /\ UNCHANGED <<request, wrong, chosen, overrun>>

-----------------------------------------------------------------------------
(* The row is saved                                                        *)

End(c) == request' = [request EXCEPT ![c] = NoRequest]
Capped(n) == IF n < MaxAttempts THEN n ELSE MaxAttempts

\* What the save of request q makes of the count of wrong MPINs.
Told(q) ==
  CASE q.op = "wrong" -> Capped(wrong[q.who] + 1)
    [] q.op \in {"right", "locks", "complete"} -> 0
    [] OTHER -> wrong[q.who]

SaveRow(c) ==
  LET q == request[c]
  IN /\ q # NoRequest
     /\ accounts' = [accounts EXCEPT ![q.who] = q.save]
     /\ overrun' = IF accounts[q.who] = q.read THEN overrun ELSE overrun \cup {q.who}
     /\ wrong' = [wrong EXCEPT ![q.who] = Told(q)]
     /\ chosen' = IF q.op \in {"set", "complete"} THEN [chosen EXCEPT ![q.who] = q.save.mpin]
                  ELSE chosen
     /\ End(c)

\* VerifyMPIN ignores the error and answers; the others report it.
SaveRowFails(c) ==
  LET q == request[c]
  IN /\ q # NoRequest
     /\ IF q.op \in {"right", "wrong", "locks"}
        THEN /\ overrun' = overrun \cup {q.who}
             /\ wrong' = [wrong EXCEPT ![q.who] = Told(q)]
        ELSE UNCHANGED <<overrun, wrong>>
     /\ End(c)
     /\ UNCHANGED <<accounts, chosen>>

\* The process dies before it answers.
RequestDies(c) ==
  /\ request[c] # NoRequest
  /\ End(c)
  /\ UNCHANGED <<accounts, wrong, chosen, overrun>>

LessThanNothing(row) == [row EXCEPT !.lock = @ - 1]        \* faulty variant
Less(row) == [row EXCEPT !.lock = IF @ = 0 THEN 0 ELSE @ - 1]
Waited(q) ==
  IF q = NoRequest THEN q ELSE [q EXCEPT !.read = Less(@), !.save = Less(@)]

\* Time passes for every lock, also in the rows handlers hold.
Tick ==
  /\ accounts' = [a \in Accounts |-> Less(accounts[a])]
  /\ request' = [c \in Clients |-> Waited(request[c])]
  /\ UNCHANGED <<wrong, chosen, overrun>>

-----------------------------------------------------------------------------
Serving(c) ==
  \E a \in Accounts :
    \/ SaveProfile(c, a)
    \/ \E pin \in Pins : VerifyMPIN(c, a, pin) \/ SetMPIN(c, a, pin)
                         \/ CompleteGoogleSignup(c, a, pin)

LockoutNext ==
  \/ \E c \in Clients : Serving(c) \/ SaveRow(c) \/ SaveRowFails(c) \/ RequestDies(c)
  \/ \E a \in Accounts : RemoveAccount(a)
  \/ Tick

LockoutSpec == LockoutInit /\ [][LockoutNext]_lockoutVars

\* Time passes. Nothing else has to happen.
LockoutFairSpec == LockoutSpec /\ WF_lockoutVars(Tick)

-----------------------------------------------------------------------------
(* Properties                                                              *)

Row == [live : BOOLEAN, mpin : Pins \cup {NoPin}, failed : 0..MaxAttempts, lock : 0..Window]
Pending == [op : {"right", "wrong", "locks", "set", "profile", "complete"}, who : Accounts,
            read : Row, save : Row]

\* The type invariant of the MPIN columns and the requests on them.
LockoutTypeOK ==
  /\ accounts \in [Accounts -> Row]
  /\ request \in [Clients -> {NoRequest} \cup Pending]
  /\ wrong \in [Accounts -> 0..MaxAttempts]
  /\ chosen \in [Accounts -> Pins \cup {NoPin}]
  /\ overrun \subseteq Accounts

\* "Failed attempts are counted and the account is locked out" (models/user.go):
\* whatever handlers overlap, an account whose row lost no change counts exactly
\* the wrong MPINs it answered, and the one that makes maxMPINAttempts locks it.
WrongMPINsAreCounted ==
  \A a \in Accounts \ overrun :
    accounts[a].live => accounts[a].failed = wrong[a] /\ wrong[a] < MaxAttempts

\* The MPIN that counts is the one VerifyMPIN, SetMPIN and CompleteGoogleSignup
\* last acknowledged: no check, count or upgrade of another request replaces it.
ChosenMPINCounts ==
  \A a \in Accounts \ overrun : accounts[a].live => accounts[a].mpin = chosen[a]

Completes(a) ==
  \E c \in Clients : request[c] # NoRequest /\ request[c].op = "complete"
                     /\ request[c].who = a /\ request'[c] = NoRequest

\* A lock ends by time only. No right MPIN, new MPIN or profile update ends it
\* early; a new start through Google does.
LocksLast ==
  [][\A a \in Accounts :
       Locked(accounts[a]) /\ accounts'[a].live /\ a \notin overrun' =>
         accounts'[a].lock \in {accounts[a].lock, accounts[a].lock - 1} \/ Completes(a)]_lockoutVars

\* "Locked out temporarily" (models/user.go): nobody can keep an account locked
\* by guessing on, not even with requests that overlap.
LocksEnd == \A a \in Accounts : []<>(~Locked(accounts[a]))

=============================================================================
