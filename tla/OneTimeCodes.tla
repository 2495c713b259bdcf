---------------------------- MODULE OneTimeCodes ----------------------------
(***************************************************************************)
(* Registration and sign-in by one-time code: services/auth_service.go     *)
(* over repositories/otp_repository.go and pending_user_repository.go.     *)
(*                                                                         *)
(* A registration waits in pending_users while its code is on the way; the *)
(* code is a row of otp_verifications, one per e-mail and purpose as long  *)
(* as nobody inserts a second one (no index forbids it). Handlers read     *)
(* rows, decide and write them one statement after the other, without a    *)
(* transaction; a row that is saved after its deletion is inserted again.  *)
(*                                                                         *)
(* Codes are random; here they are numbered in the order they were drawn,  *)
(* so that no two are equal, and a row has the number of the code it was   *)
(* first inserted with. Which of two matching rows First returns is open.  *)
(***************************************************************************)
EXTENDS Integers, Sequences

CONSTANTS
  Emails,
  Mobiles,
  Visitors,   \* requests in progress at once
  MaxCodes    \* bound: codes drawn

ASSUME CodesAssumption == MaxCodes \in Nat

VARIABLES
  codes,       \* rows of otp_verifications
  pending,     \* rows of pending_users
  registered,  \* rows of users; "by" is the code that was verified, 0 for
               \* accounts that came with Google
  visit,       \* what each handler has still to do
  asked,       \* what each code drawn so far was asked for
  uses,        \* how often each code was accepted (0, 1, or more)
  overlapped,  \* e-mails that had two requests in progress at once
  torn,        \* e-mails whose registration was saved without its code, until
               \* the next one is complete while the e-mail has no account
  kept         \* codes that could not be deleted after use

codeVars == <<codes, pending, registered, visit, asked, uses, overlapped, torn, kept>>

-----------------------------------------------------------------------------
NoVisit == [op |-> "none"]
Codes == 1..MaxCodes
New == Len(asked) + 1

Clashes(rows, email, mobile) == \E r \in rows : r.email = email \/ r.mobile = mobile

CodesInit ==
  /\ codes = {} /\ pending = {} /\ registered = {}
  /\ visit = [v \in Visitors |-> NoVisit]
  /\ asked = <<>>
  /\ uses = [n \in Codes |-> 0]
  /\ overlapped = {} /\ torn = {} /\ kept = {}

Transposed(op, email, mobile, code, row, pend) ==          \* faulty variant
  [op |-> op, email |-> mobile, mobile |-> email, code |-> code, row |-> row, pend |-> pend]
Task(op, email, mobile, code, row, pend) ==
  [op |-> op, email |-> email, mobile |-> mobile, code |-> code, row |-> row, pend |-> pend]

Meets(email) == \E w \in Visitors : visit[w] # NoVisit /\ visit[w].email = email

Enter(v, task) ==
  /\ visit[v] = NoVisit
  /\ visit' = [visit EXCEPT ![v] = task]
  /\ overlapped' = IF Meets(task.email) THEN overlapped \cup {task.email} ELSE overlapped
  /\ UNCHANGED <<codes, pending, registered, uses, torn, kept>>

Leave(v) == visit' = [visit EXCEPT ![v] = NoVisit]

GenerateOTP(email, purpose, mobile) ==
  /\ New \in Codes
  /\ asked' = Append(asked, [email |-> email, purpose |-> purpose, mobile |-> mobile])

\* CreateOrUpdate: the row found first, or else a new one.
AlwaysCreate(rows, new) == {new}                           \* faulty variant
FirstOr(rows, new) == IF rows = {} THEN {new} ELSE {r.id : r \in rows}

CodeRows(email, purpose) == {r \in codes : r.email = email /\ r.purpose = purpose}

-----------------------------------------------------------------------------
(* A code is asked for                                                     *)

\* An e-mail or number that has an account is refused, unless the look-up fails.
Signup(v, email, mobile) ==
  /\ GenerateOTP(email, "signup", mobile)
  /\ \E id \in FirstOr({p \in pending : p.email = email \/ p.mobile = mobile}, New) :
       Enter(v, Task("pend", email, mobile, New, id, id))

\* SendForgotPasscodeOTP, and Login of an account without an MPIN.
SendLoginOTP(v, u) ==
  /\ GenerateOTP(u.email, "login", u.mobile)
  /\ \E id \in FirstOr(CodeRows(u.email, "login"), New) :
       Enter(v, Task("code", u.email, u.mobile, New, id, id))

\* The row saved, whichever row it was.
KeepMobile(id, email, mobile) ==                           \* faulty variant
  [id |-> id, email |-> email,
   mobile |-> IF \E p \in pending : p.id = id
              THEN (CHOOSE p \in pending : p.id = id).mobile ELSE mobile]
PendingUser(id, email, mobile) == [id |-> id, email |-> email, mobile |-> mobile]

\* The rows a save may write. A row that was found and has vanished since is
\* inserted again (gorm's Save); if another row has its e-mail or number,
\* MySQL overwrites that row instead.
Landing(j) ==
  {j.pend} \cup
    IF j.pend # j.code /\ \A p \in pending : p.id # j.pend
    THEN {p.id : p \in {q \in pending : q.email = j.email \/ q.mobile = j.mobile}}
    ELSE {}

\* It is refused if a row besides has the e-mail or number (unique indices).
SavePending(v) ==
  LET j == visit[v]
      Others(id) == {p \in pending : p.id # id}
      free == {id \in Landing(j) : ~Clashes(Others(id), j.email, j.mobile)}
  IN /\ j.op = "pend"
     /\ \/ free = {} /\ Leave(v) /\ UNCHANGED <<pending, torn>>
        \/ /\ \E id \in free :
                pending' = Others(id) \cup {PendingUser(id, j.email, j.mobile)}
           /\ torn' = torn \cup {j.email}
           /\ \E id \in FirstOr(CodeRows(j.email, "signup"), j.code) :
                visit' = [visit EXCEPT ![v].op = "code", ![v].row = id]
     /\ UNCHANGED <<codes, registered, asked, uses, overlapped, kept>>

HasAccount(email) == \E u \in registered : u.email = email

\* The code is stored, then mailed; a mail that fails only means that nobody
\* presents the code.
SaveCode(v) ==
  LET j == visit[v]
      a == asked[j.code]
  IN /\ j.op = "code"
     /\ codes' = {r \in codes : r.id # j.row} \cup
          {[id |-> j.row, email |-> j.email, purpose |-> a.purpose, code |-> j.code,
            fresh |-> TRUE]}
     /\ torn' = IF a.purpose = "signup" /\ ~HasAccount(j.email)
                THEN torn \ {j.email} ELSE torn
     /\ Leave(v)
     /\ UNCHANGED <<pending, registered, asked, uses, overlapped, kept>>

\* otpValidity is over.
Expire(r) ==
  /\ r.fresh
  /\ codes' = (codes \ {r}) \cup {[r EXCEPT !.fresh = FALSE]}
  /\ UNCHANGED <<pending, registered, visit, asked, uses, overlapped, torn, kept>>

-----------------------------------------------------------------------------
(* A code is presented                                                     *)

Accepted(r, purpose) == r.fresh /\ r.purpose = purpose

VerifySignup(v, r) ==
  /\ Accepted(r, "signup")
  /\ \E p \in pending :
       /\ p.email = r.email
       /\ Enter(v, Task("create", p.email, p.mobile, r.code, r.id, p.id))
  /\ UNCHANGED asked

\* The row is refused if the e-mail or the number is taken (unique indices).
CreateUser(v) ==
  LET j == visit[v]
  IN /\ j.op = "create"
     /\ IF Clashes(registered, j.email, j.mobile)
        THEN Leave(v) /\ UNCHANGED registered
        ELSE /\ registered' = registered \cup
                  {[email |-> j.email, mobile |-> j.mobile, by |-> j.code]}
             /\ visit' = [visit EXCEPT ![v].op = "tidy"]
     /\ UNCHANGED <<codes, pending, asked, uses, overlapped, torn, kept>>

VerifyLogin(v, r) ==
  /\ Accepted(r, "login")
  /\ \E u \in registered :
       /\ u.email = r.email
       /\ Enter(v, Task("tidy", u.email, u.mobile, r.code, r.id, 0))
  /\ UNCHANGED asked

ByCode(r, j) == r.id = j.code                              \* faulty variant
ById(r, j) == r.id = j.row

\* The session is answered. The errors of both deletions are ignored.
Tidy(v) ==
  LET j == visit[v]
  IN /\ j.op = "tidy"
     /\ \/ codes' = {r \in codes : ~ById(r, j)} /\ UNCHANGED kept
        \/ kept' = kept \cup {j.code} /\ UNCHANGED codes
     /\ pending' \in {pending, {p \in pending : p.id # j.pend}}
     /\ uses' = [uses EXCEPT ![j.code] = IF @ = 0 THEN 1 ELSE 2]
     /\ Leave(v)
     /\ UNCHANGED <<registered, asked, overlapped, torn>>

\* A statement fails and is reported, or the process dies.
Abandon(v) ==
  /\ visit[v] # NoVisit
  /\ Leave(v)
  /\ UNCHANGED <<codes, pending, registered, asked, uses, overlapped, torn, kept>>

\* CompleteGoogleSignup gives the account of the e-mail the number, or makes
\* one; both are refused if another account has the number.
FinishGoogleSignup(email, mobile) ==
  LET others == {u \in registered : u.email # email}
  IN /\ ~Clashes(others, email, mobile)
     /\ registered' = others \cup {[email |-> email, mobile |-> mobile, by |-> 0]}
     /\ UNCHANGED <<codes, pending, visit, asked, uses, overlapped, torn, kept>>

\* The errors of the deletions of codes and pending registrations are ignored.
DeleteRegistration(u) ==
  /\ codes' \in {codes, {r \in codes : r.email # u.email}}
  /\ pending' \in {pending, {p \in pending : p.email # u.email /\ p.mobile # u.mobile}}
  /\ registered' = registered \ {u}
  /\ overlapped' = IF Meets(u.email) THEN overlapped \cup {u.email} ELSE overlapped
  /\ UNCHANGED <<visit, asked, uses, torn, kept>>

-----------------------------------------------------------------------------
Visit(v) ==
  \/ \E e \in Emails, m \in Mobiles : Signup(v, e, m)
  \/ \E u \in registered : SendLoginOTP(v, u)
  \/ \E r \in codes : VerifySignup(v, r) \/ VerifyLogin(v, r)

CodesNext ==
  \/ \E v \in Visitors :
       Visit(v) \/ SavePending(v) \/ SaveCode(v) \/ CreateUser(v) \/ Tidy(v) \/ Abandon(v)
  \/ \E r \in codes : Expire(r)
  \/ \E e \in Emails, m \in Mobiles : FinishGoogleSignup(e, m)
  \/ \E u \in registered : DeleteRegistration(u)

CodesSpec == CodesInit /\ [][CodesNext]_codeVars

-----------------------------------------------------------------------------
(* Properties                                                              *)

CodeRow == [id : Codes, email : Emails, purpose : {"signup", "login"}, code : Codes,
            fresh : BOOLEAN]
VisitTask == [op : {"pend", "code", "create", "tidy"}, email : Emails, mobile : Mobiles,
             code : Codes, row : Codes, pend : {0} \cup Codes]

\* The type invariant of codes, registrations and the requests on them.
CodesTypeOK ==
  /\ codes \subseteq CodeRow
  /\ pending \subseteq [id : Codes, email : Emails, mobile : Mobiles]
  /\ registered \subseteq [email : Emails, mobile : Mobiles, by : {0} \cup Codes]
  /\ visit \in [Visitors -> {NoVisit} \cup VisitTask]
  /\ \A v \in Visitors : visit[v].op = "pend" => visit[v].pend \in Codes
  /\ asked \in Seq([email : Emails, purpose : {"signup", "login"}, mobile : Mobiles])
  /\ Len(asked) <= MaxCodes
  /\ uses \in [Codes -> 0..2]
  /\ overlapped \subseteq Emails /\ torn \subseteq Emails /\ kept \subseteq Codes

\* A code gives one session: a second one needs two requests for the e-mail at
\* once, or a deletion that failed (its error is dropped).
CodesAreUsedOnce ==
  \A n \in Codes : uses[n] > 1 => n \in kept \/ asked[n].email \in overlapped

\* An e-mail has one code per purpose, so that a new code ends the old one:
\* only requests that overlap can leave a second row (CreateOrUpdate).
OneCodeEach ==
  \A r, s \in codes :
    r.email = s.email /\ r.purpose = s.purpose => r = s \/ r.email \in overlapped

\* An account gets the number its registration asked the verified code for,
\* although the number is stored before the code and read from another row.
AccountsAreAsVerified ==
  \A u \in registered :
    u.by # 0 => u.mobile = asked[u.by].mobile \/ u.email \in overlapped \cup torn

=============================================================================
