------------------------ MODULE AuthenticationProofs ------------------------
(***************************************************************************)
(* What proves who somebody is: theorems about OneTimeCodes, for any number *)
(* of e-mails, numbers, requests in progress and codes, and after them about *)
(* MpinLockout, for any number of accounts, requests and MPINs and any limit *)
(* and window.                                                             *)
(***************************************************************************)
EXTENDS OneTimeCodes, MpinLockout, TLAPS

-----------------------------------------------------------------------------
(* One-time codes                                                          *)

Asked == [email : Emails, purpose : {"signup", "login"}, mobile : Mobiles]
Registration == [id : Codes, email : Emails, mobile : Mobiles]
Account == [email : Emails, mobile : Mobiles, by : {0} \cup Codes]
Visiting(v) == visit[v] # NoVisit
Drawn == 1..Len(asked)

-----------------------------------------------------------------------------
(* Types                                                                   *)

\* A code that is drawn is a new one, and the codes drawn before stay as they were.
LEMMA Draws ==
  ASSUME CodesTypeOK, NEW email \in Emails, NEW purpose \in {"signup", "login"},
         NEW mobile \in Mobiles, GenerateOTP(email, purpose, mobile)
  PROVE  /\ New \in Codes /\ New \notin Drawn /\ Drawn' = Drawn \cup {New}
         /\ asked' \in Seq(Asked) /\ Len(asked') = New /\ Len(asked') <= MaxCodes
         /\ asked'[New] = [email |-> email, purpose |-> purpose, mobile |-> mobile]
         /\ \A n \in Drawn : asked'[n] = asked[n]
<1>1. asked \in Seq(Asked) /\ Len(asked) \in Nat
  BY DEF CodesTypeOK, Asked
<1>2. [email |-> email, purpose |-> purpose, mobile |-> mobile] \in Asked
  BY DEF Asked
<1>3. asked' = Append(asked, [email |-> email, purpose |-> purpose, mobile |-> mobile])
  BY DEF GenerateOTP
<1>4. New \in Codes /\ MaxCodes \in Nat
  BY CodesAssumption DEF GenerateOTP
<1> QED
  BY <1>1, <1>2, <1>3, <1>4 DEF New, Codes, Drawn

\* The row CreateOrUpdate takes is one it found, or a new one.
LEMMA FirstOrFound ==
  ASSUME NEW rows, NEW new \in Codes, \A r \in rows : r.id \in Codes,
         NEW id \in FirstOr(rows, new)
  PROVE  id \in Codes /\ (rows = {} \/ \E r \in rows : r.id = id)
BY DEF FirstOr

-----------------------------------------------------------------------------
(* What a request begins with                                              *)

AskedOn ==
  /\ asked' \in Seq(Asked) /\ Len(asked') <= MaxCodes
  /\ Drawn \subseteq Drawn' /\ \A n \in Drawn : asked'[n] = asked[n]

\* Either the request has drawn a new code for its e-mail and number, or it has
\* found a row with its code.
Draw(task) ==
  /\ task.code \notin Drawn /\ task.code \in Drawn'
  /\ asked'[task.code].email = task.email /\ asked'[task.code].mobile = task.mobile
  /\ task.op = "pend" => asked'[task.code].purpose = "signup" /\ task.pend \in Codes
  /\ task.op = "code" =>
       /\ asked'[task.code].purpose = "login"
       /\ CodeRows(task.email, "login") = {}
            \/ \E r \in CodeRows(task.email, "login") : r.id = task.row
Find(task) ==
  \E r \in codes :
    /\ asked' = asked /\ r.code = task.code /\ r.id = task.row /\ r.email = task.email
    /\ task.op = "create" =>
         /\ r.purpose = "signup"
         /\ \E p \in pending : p.email = task.email /\ p.mobile = task.mobile

Starts(v, task) ==
  /\ ~Visiting(v) /\ task \in VisitTask /\ visit' = [visit EXCEPT ![v] = task]
  /\ overlapped' = IF Meets(task.email) THEN overlapped \cup {task.email} ELSE overlapped
  /\ UNCHANGED <<codes, pending, registered, uses, torn, kept>>
  /\ AskedOn
  /\ task.op \in {"pend", "code"} => Draw(task)
  /\ task.op \in {"create", "tidy"} => Find(task)

LEMMA EntersTyped ==
  ASSUME NEW v \in Visitors, NEW op \in {"pend", "code", "create", "tidy"},
         NEW email \in Emails, NEW mobile \in Mobiles, NEW code \in Codes, NEW row \in Codes,
         NEW pend \in {0} \cup Codes, Enter(v, Task(op, email, mobile, code, row, pend))
  PROVE  \E task \in VisitTask :
           /\ task.op = op /\ task.email = email /\ task.mobile = mobile
           /\ task.code = code /\ task.row = row /\ task.pend = pend
           /\ ~Visiting(v) /\ visit' = [visit EXCEPT ![v] = task]
           /\ overlapped' = IF Meets(task.email) THEN overlapped \cup {task.email}
                            ELSE overlapped
           /\ UNCHANGED <<codes, pending, registered, uses, torn, kept>>
<1> DEFINE task == Task(op, email, mobile, code, row, pend)
<1>1. /\ task \in VisitTask /\ task.op = op /\ task.email = email /\ task.mobile = mobile
      /\ task.code = code /\ task.row = row /\ task.pend = pend
  BY DEF Task, VisitTask
<1>2. Enter(v, task)
  OBVIOUS
<1> HIDE DEF task
<1> QED
  BY <1>1, <1>2 DEF Enter, Visiting

LEMMA VisitStarts ==
  ASSUME CodesTypeOK, NEW v \in Visitors, Visit(v)
  PROVE  \E task \in VisitTask : Starts(v, task)
<1>1. ASSUME NEW e \in Emails, NEW m \in Mobiles, Signup(v, e, m)
      PROVE  \E task \in VisitTask : Starts(v, task)
  <2>1. GenerateOTP(e, "signup", m)
    BY <1>1 DEF Signup
  <2>2. PICK id \in FirstOr({p \in pending : p.email = e \/ p.mobile = m}, New) :
          Enter(v, Task("pend", e, m, New, id, id))
    BY <1>1 DEF Signup
  <2>3. id \in Codes /\ New \in Codes
    BY <2>1, <2>2, Draws, FirstOrFound DEF CodesTypeOK
  <2>4. PICK task \in VisitTask :
           /\ task.op = "pend" /\ task.email = e /\ task.mobile = m
           /\ task.code = New /\ task.row = id /\ task.pend = id
           /\ ~Visiting(v) /\ visit' = [visit EXCEPT ![v] = task]
           /\ overlapped' = IF Meets(task.email) THEN overlapped \cup {task.email}
                            ELSE overlapped
           /\ UNCHANGED <<codes, pending, registered, uses, torn, kept>>
    BY <2>2, <2>3, EntersTyped
  <2>5. AskedOn
    BY <2>1, Draws DEF AskedOn
  <2>6. /\ New \notin Drawn /\ New \in Drawn'
        /\ asked'[New] = [email |-> e, purpose |-> "signup", mobile |-> m]
    BY <2>1, Draws
  <2>7. /\ asked'[task.code].email = task.email /\ asked'[task.code].mobile = task.mobile
        /\ asked'[task.code].purpose = "signup"
    BY <2>4, <2>6
  <2>8. Draw(task)
    BY <2>3, <2>4, <2>6, <2>7 DEF Draw
  <2> QED
    BY <2>4, <2>5, <2>8 DEF Starts
<1>2. ASSUME NEW u \in registered, SendLoginOTP(v, u)
      PROVE  \E task \in VisitTask : Starts(v, task)
  <2>1. u.email \in Emails /\ u.mobile \in Mobiles
    BY DEF CodesTypeOK
  <2>2. GenerateOTP(u.email, "login", u.mobile)
    BY <1>2 DEF SendLoginOTP
  <2>3. PICK id \in FirstOr(CodeRows(u.email, "login"), New) :
          Enter(v, Task("code", u.email, u.mobile, New, id, id))
    BY <1>2 DEF SendLoginOTP
  <2>4. New \in Codes
    BY <2>1, <2>2, Draws
  <2>5. /\ id \in Codes
        /\ CodeRows(u.email, "login") = {} \/ \E r \in CodeRows(u.email, "login") : r.id = id
    BY <2>3, <2>4, FirstOrFound DEF CodesTypeOK, CodeRows, CodeRow
  <2>6. PICK task \in VisitTask :
           /\ task.op = "code" /\ task.email = u.email /\ task.mobile = u.mobile
           /\ task.code = New /\ task.row = id /\ task.pend = id
           /\ ~Visiting(v) /\ visit' = [visit EXCEPT ![v] = task]
           /\ overlapped' = IF Meets(task.email) THEN overlapped \cup {task.email}
                            ELSE overlapped
           /\ UNCHANGED <<codes, pending, registered, uses, torn, kept>>
    BY <2>1, <2>3, <2>4, <2>5, EntersTyped
  <2>7. AskedOn
    BY <2>1, <2>2, Draws DEF AskedOn
  <2>8. /\ New \notin Drawn /\ New \in Drawn'
        /\ asked'[New] = [email |-> u.email, purpose |-> "login", mobile |-> u.mobile]
    BY <2>1, <2>2, Draws
  <2>9. /\ asked'[task.code].email = task.email /\ asked'[task.code].mobile = task.mobile
        /\ asked'[task.code].purpose = "login"
    BY <2>6, <2>8
  <2>10. Draw(task)
    BY <2>5, <2>6, <2>8, <2>9 DEF Draw
  <2> QED
    BY <2>6, <2>7, <2>10 DEF Starts
<1>3. ASSUME NEW r \in codes, asked' = asked
      PROVE  AskedOn /\ r.code \in Codes /\ r.id \in Codes
  BY <1>3 DEF CodesTypeOK, CodeRow, Asked, AskedOn, Drawn
<1>4. ASSUME NEW r \in codes, VerifySignup(v, r)
      PROVE  \E task \in VisitTask : Starts(v, task)
  <2>1. PICK p \in pending :
          /\ p.email = r.email
          /\ Enter(v, Task("create", p.email, p.mobile, r.code, r.id, p.id))
    BY <1>4 DEF VerifySignup
  <2>2. p.email \in Emails /\ p.mobile \in Mobiles
    BY DEF CodesTypeOK
  <2> DEFINE id == p.id
  <2>6. id \in {0} \cup Codes /\ Enter(v, Task("create", p.email, p.mobile, r.code, r.id, id))
    BY <2>1 DEF CodesTypeOK
  <2> HIDE DEF id
  <2>3. AskedOn /\ r.code \in Codes /\ r.id \in Codes /\ asked' = asked
    BY <1>3, <1>4 DEF VerifySignup
  <2>4. PICK task \in VisitTask :
           /\ task.op = "create" /\ task.email = p.email /\ task.mobile = p.mobile
           /\ task.code = r.code /\ task.row = r.id /\ task.pend = id
           /\ ~Visiting(v) /\ visit' = [visit EXCEPT ![v] = task]
           /\ overlapped' = IF Meets(task.email) THEN overlapped \cup {task.email}
                            ELSE overlapped
           /\ UNCHANGED <<codes, pending, registered, uses, torn, kept>>
    BY <2>6, <2>2, <2>3, EntersTyped
  <2>5. Find(task)
    BY <1>4, <2>1, <2>3, <2>4 DEF Find, VerifySignup, Accepted
  <2> QED
    BY <2>3, <2>4, <2>5 DEF Starts
<1>5. ASSUME NEW r \in codes, VerifyLogin(v, r)
      PROVE  \E task \in VisitTask : Starts(v, task)
  <2>1. PICK u \in registered :
          /\ u.email = r.email
          /\ Enter(v, Task("tidy", u.email, u.mobile, r.code, r.id, 0))
    BY <1>5 DEF VerifyLogin
  <2>2. u.email \in Emails /\ u.mobile \in Mobiles
    BY DEF CodesTypeOK
  <2>3. AskedOn /\ r.code \in Codes /\ r.id \in Codes /\ asked' = asked
    BY <1>3, <1>5 DEF VerifyLogin
  <2>4. PICK task \in VisitTask :
           /\ task.op = "tidy" /\ task.email = u.email /\ task.mobile = u.mobile
           /\ task.code = r.code /\ task.row = r.id /\ task.pend = 0
           /\ ~Visiting(v) /\ visit' = [visit EXCEPT ![v] = task]
           /\ overlapped' = IF Meets(task.email) THEN overlapped \cup {task.email}
                            ELSE overlapped
           /\ UNCHANGED <<codes, pending, registered, uses, torn, kept>>
    BY <2>1, <2>2, <2>3, EntersTyped
  <2>5. Find(task)
    BY <2>1, <2>3, <2>4 DEF Find
  <2> QED
    BY <2>3, <2>4, <2>5 DEF Starts
<1> QED
  BY <1>1, <1>2, <1>4, <1>5 DEF Visit

-----------------------------------------------------------------------------
(* Types: rows and requests name codes that were drawn, for what they were *)
(* drawn                                                                   *)

RowsMatch ==
  \A r \in codes :
    r.code \in Drawn /\ asked[r.code].email = r.email /\ asked[r.code].purpose = r.purpose

TaskMatches(j) ==
  /\ j.code \in Drawn /\ asked[j.code].email = j.email
  /\ j.op \in {"pend", "code"} => asked[j.code].mobile = j.mobile
  /\ j.op \in {"pend", "create"} => asked[j.code].purpose = "signup"

CodesMatch ==
  /\ RowsMatch
  /\ \A v \in Visitors : Visiting(v) => TaskMatches(visit[v])
  /\ \A n \in Codes : uses[n] > 0 => n \in Drawn
  /\ \A u \in registered : u.by # 0 => u.by \in Drawn

LEMMA DrawnAsked ==
  ASSUME CodesTypeOK, NEW n \in Drawn
  PROVE  asked[n] \in Asked /\ n \in Codes
<1>1. asked \in Seq(Asked) /\ Len(asked) \in Nat
  BY DEF CodesTypeOK, Asked
<1> QED
  BY <1>1, CodesAssumption DEF Drawn, Codes, CodesTypeOK

LEMMA StartsTyped ==
  ASSUME CodesTypeOK, CodesMatch, NEW v \in Visitors, NEW task \in VisitTask, Starts(v, task)
  PROVE  CodesTypeOK' /\ CodesMatch'
<1>1. /\ visit' = [visit EXCEPT ![v] = task] /\ visit'[v] = task
      /\ \A w \in Visitors \ {v} : visit'[w] = visit[w]
      /\ UNCHANGED <<codes, pending, registered, uses, torn, kept>>
      /\ overlapped' \in {overlapped, overlapped \cup {task.email}} /\ AskedOn
  BY DEF Starts, CodesTypeOK
<1>2. task.op \in {"pend", "code", "create", "tidy"} /\ task.email \in Emails
  BY DEF VisitTask
<1>3. task.op = "pend" => task.pend \in Codes
  BY DEF Starts, Draw
<1>4. CodesTypeOK'
  <2>1. /\ visit' \in [Visitors -> {NoVisit} \cup VisitTask]
        /\ \A w \in Visitors : visit'[w].op = "pend" => visit'[w].pend \in Codes
    BY <1>1, <1>3 DEF CodesTypeOK
  <2>2. overlapped' \subseteq Emails
    BY <1>1, <1>2 DEF CodesTypeOK
  <2> QED
    BY <1>1, <2>1, <2>2 DEF CodesTypeOK, AskedOn, Asked
<1>5. RowsMatch'
  BY <1>1 DEF CodesMatch, RowsMatch, AskedOn
<1>6. TaskMatches(task)'
  <2>1. CASE task.op \in {"pend", "code"}
    BY <2>1 DEF Starts, Draw, TaskMatches
  <2>2. CASE task.op \in {"create", "tidy"}
    <3>1. PICK r \in codes :
            /\ asked' = asked /\ r.code = task.code /\ r.id = task.row /\ r.email = task.email
            /\ task.op = "create" => r.purpose = "signup"
      BY <2>2 DEF Starts, Find
    <3>2. Drawn' = Drawn
      BY <3>1 DEF Drawn
    <3> QED
      BY <2>2, <3>1, <3>2 DEF CodesMatch, RowsMatch, TaskMatches
  <2> QED
    BY <1>2, <2>1, <2>2
<1>7. ASSUME NEW w \in Visitors, Visiting(w)'
      PROVE  TaskMatches(visit[w])'
  <2>1. CASE w = v
    BY <1>1, <1>6, <2>1 DEF TaskMatches
  <2>2. CASE w # v
    <3>1. visit'[w] = visit[w] /\ Visiting(w) /\ TaskMatches(visit[w])
      BY <1>1, <1>7, <2>2 DEF Visiting, CodesMatch
    <3> QED
      BY <1>1, <3>1 DEF TaskMatches, AskedOn
  <2> QED
    BY <2>1, <2>2
<1>8. /\ \A n \in Codes : uses'[n] > 0 => n \in Drawn'
      /\ \A u \in registered' : u.by # 0 => u.by \in Drawn'
  BY <1>1 DEF CodesMatch, AskedOn
<1> QED
  BY <1>4, <1>5, <1>7, <1>8 DEF CodesMatch

\* A step that only drops rows and requests keeps both.
Drops ==
  /\ \A v \in Visitors : visit'[v] \in {visit[v], NoVisit}
  /\ visit' \in [Visitors -> {NoVisit} \cup VisitTask]
  /\ codes' \subseteq codes /\ pending' \subseteq pending
  /\ \A u \in registered' : u \in registered \/ (u \in Account /\ u.by = 0)
  /\ overlapped \subseteq overlapped' /\ overlapped' \subseteq Emails
  /\ UNCHANGED <<asked, uses, torn, kept>>

LEMMA DropsTyped ==
  ASSUME CodesTypeOK, CodesMatch, Drops
  PROVE  CodesTypeOK' /\ CodesMatch'
<1>1. \A v \in Visitors : Visiting(v)' => Visiting(v) /\ visit'[v] = visit[v]
  BY DEF Drops, Visiting
<1>2. Drawn' = Drawn
  BY DEF Drops, Drawn
<1>3. \A v \in Visitors : visit'[v].op = "pend" => visit'[v].pend \in Codes
  BY DEF Drops, CodesTypeOK, NoVisit
<1>4. CodesTypeOK'
  BY <1>3 DEF Drops, CodesTypeOK, Account
<1>5. \A v \in Visitors : Visiting(v)' => TaskMatches(visit[v])'
  BY <1>1, <1>2 DEF Drops, CodesMatch, TaskMatches
<1> QED
  BY <1>2, <1>4, <1>5 DEF Drops, CodesMatch, RowsMatch

LEMMA LeavesDrop ==
  ASSUME CodesTypeOK, NEW v \in Visitors, Leave(v),
         UNCHANGED <<codes, pending, registered, asked, uses, overlapped, torn, kept>>
  PROVE  Drops
BY DEF Drops, Leave, CodesTypeOK

LEMMA OtherDrops ==
  ASSUME CodesTypeOK,
         \/ \E e \in Emails, m \in Mobiles : FinishGoogleSignup(e, m)
         \/ \E u \in registered : DeleteRegistration(u)
         \/ UNCHANGED codeVars
  PROVE  Drops
<1>1. ASSUME NEW e \in Emails, NEW m \in Mobiles, FinishGoogleSignup(e, m)
      PROVE  Drops
  <2>1. /\ registered' = {u \in registered : u.email # e} \cup
             {[email |-> e, mobile |-> m, by |-> 0]}
        /\ UNCHANGED <<codes, pending, visit, asked, uses, overlapped, torn, kept>>
    BY <1>1 DEF FinishGoogleSignup
  <2>2. [email |-> e, mobile |-> m, by |-> 0] \in Account
    BY DEF Account
  <2> QED
    BY <2>1, <2>2 DEF Drops, CodesTypeOK
<1>2. ASSUME NEW u \in registered, DeleteRegistration(u)
      PROVE  Drops
  BY <1>2 DEF DeleteRegistration, Drops, CodesTypeOK
<1>3. CASE UNCHANGED codeVars
  BY <1>3 DEF codeVars, Drops, CodesTypeOK
<1> QED
  BY <1>1, <1>2, <1>3

\* A pending row is saved, in its own place or over the one it clashes with.
Lands(j, t) ==
  /\ \A p \in pending : p.id # t => p.email # j.email /\ p.mobile # j.mobile
  /\ pending' = {p \in pending : p.id # t} \cup {PendingUser(t, j.email, j.mobile)}
StoresPending(v, id) ==
  LET j == visit[v]
  IN /\ j.op = "pend" /\ j \in VisitTask /\ id \in Codes
     /\ \E t \in Codes : Lands(j, t)
     /\ torn' = torn \cup {j.email}
     /\ CodeRows(j.email, "signup") = {} \/ \E r \in CodeRows(j.email, "signup") : r.id = id
     /\ visit' = [visit EXCEPT ![v] = [j EXCEPT !.op = "code", !.row = id]]
     /\ UNCHANGED <<codes, registered, asked, uses, overlapped, kept>>

LEMMA LandingTyped ==
  ASSUME CodesTypeOK, NEW v \in Visitors, visit[v].op = "pend"
  PROVE  Landing(visit[v]) \subseteq Codes
<1>1. visit[v].pend \in Codes /\ \A p \in pending : p.id \in Codes
  BY DEF CodesTypeOK
<1> QED
  BY <1>1 DEF Landing

LEMMA SavePendingStores ==
  ASSUME CodesTypeOK, NEW v \in Visitors, SavePending(v)
  PROVE  Drops \/ \E id \in Codes : StoresPending(v, id)
<1> DEFINE j == visit[v]
           Others(t) == {p \in pending : p.id # t}
           free == {t \in Landing(j) : ~Clashes(Others(t), j.email, j.mobile)}
<1>1. j \in VisitTask /\ j.op = "pend" /\ j.code \in Codes
      /\ UNCHANGED <<codes, registered, asked, uses, overlapped, kept>>
  <2>1. j.op = "pend" /\ j \in {NoVisit} \cup VisitTask
        /\ UNCHANGED <<codes, registered, asked, uses, overlapped, kept>>
    BY DEF SavePending, CodesTypeOK
  <2> QED
    BY <2>1 DEF NoVisit, VisitTask
<1>2. CASE free = {} /\ Leave(v) /\ UNCHANGED <<pending, torn>>
  BY <1>1, <1>2, LeavesDrop
<1>3. ASSUME NEW t \in free,
             pending' = Others(t) \cup {PendingUser(t, j.email, j.mobile)},
             torn' = torn \cup {j.email},
             NEW id \in FirstOr(CodeRows(j.email, "signup"), j.code),
             visit' = [visit EXCEPT ![v].op = "code", ![v].row = id]
      PROVE  \E i \in Codes : StoresPending(v, i)
  <2>1. t \in Codes /\ Lands(j, t)
    BY <1>1, <1>3, LandingTyped DEF Lands, Clashes
  <2>2. /\ id \in Codes
        /\ CodeRows(j.email, "signup") = {} \/ \E r \in CodeRows(j.email, "signup") : r.id = id
    BY <1>1, FirstOrFound DEF CodesTypeOK, CodeRows, CodeRow
  <2>3. visit' = [visit EXCEPT ![v] = [j EXCEPT !.op = "code", !.row = id]]
    BY <1>3
  <2> QED
    BY <1>1, <1>3, <2>1, <2>2, <2>3 DEF StoresPending
<1> QED
  BY <1>2, <1>3 DEF SavePending

\* The request after its pending row was saved.
LEMMA StoredTask ==
  ASSUME CodesTypeOK, NEW v \in Visitors, NEW id \in Codes, StoresPending(v, id)
  PROVE  /\ visit'[v] \in VisitTask
         /\ visit'[v].op = "code" /\ visit'[v].row = id /\ visit'[v].email = visit[v].email
         /\ visit'[v].mobile = visit[v].mobile /\ visit'[v].code = visit[v].code
         /\ \A w \in Visitors \ {v} : visit'[w] = visit[w]
         /\ visit' \in [Visitors -> {NoVisit} \cup VisitTask]
<1> DEFINE j == visit[v]
           next == [j EXCEPT !.op = "code", !.row = id]
<1>1. j \in VisitTask /\ visit' = [visit EXCEPT ![v] = next]
  BY DEF StoresPending
<1>2. /\ next \in VisitTask /\ next.op = "code" /\ next.row = id /\ next.email = j.email
      /\ next.mobile = j.mobile /\ next.code = j.code
  BY <1>1 DEF VisitTask
<1> HIDE DEF next
<1> QED
  BY <1>1, <1>2 DEF CodesTypeOK

LEMMA StoresPendingTyped ==
  ASSUME CodesTypeOK, CodesMatch, NEW v \in Visitors, NEW id \in Codes, StoresPending(v, id)
  PROVE  CodesTypeOK' /\ CodesMatch'
<1> DEFINE j == visit[v]
<1>1. /\ j \in VisitTask /\ j.op = "pend" /\ TaskMatches(j)
      /\ UNCHANGED <<codes, registered, asked, uses, overlapped, kept>>
  BY DEF StoresPending, CodesMatch, Visiting, NoVisit
<1>2. j.email \in Emails /\ j.mobile \in Mobiles
  BY <1>1 DEF VisitTask
<1>3. \A t \in Codes : PendingUser(t, j.email, j.mobile) \in Registration
  BY <1>2 DEF PendingUser, Registration
<1>4. \A w \in Visitors : visit'[w].op = "pend" => visit'[w].pend \in Codes
  BY StoredTask DEF CodesTypeOK
<1>5. pending' \subseteq Registration /\ torn' \subseteq Emails
  BY <1>2, <1>3 DEF StoresPending, Lands, CodesTypeOK, Registration
<1>6. CodesTypeOK'
  BY <1>1, <1>4, <1>5, StoredTask DEF CodesTypeOK, Registration
<1>7. Drawn' = Drawn
  BY <1>1 DEF Drawn
<1>8. ASSUME NEW w \in Visitors, Visiting(w)'
      PROVE  TaskMatches(visit[w])'
  <2>1. CASE w = v
    BY <1>1, <1>7, <2>1, StoredTask DEF TaskMatches
  <2>2. CASE w # v
    <3>1. visit'[w] = visit[w] /\ TaskMatches(visit[w])
      BY <1>8, <2>2, StoredTask DEF CodesMatch, Visiting
    <3> QED
      BY <1>1, <1>7, <3>1 DEF TaskMatches
  <2> QED
    BY <2>1, <2>2
<1> QED
  BY <1>1, <1>6, <1>7, <1>8 DEF CodesMatch, RowsMatch

\* A code is stored: the row it gets, and the rows that stay.
NewRow(v) ==
  [id |-> visit[v].row, email |-> visit[v].email, purpose |-> asked[visit[v].code].purpose,
   code |-> visit[v].code, fresh |-> TRUE]

LEMMA SavedCode ==
  ASSUME CodesTypeOK, CodesMatch, NEW v \in Visitors, SaveCode(v)
  PROVE  /\ Visiting(v) /\ visit[v] \in VisitTask /\ visit[v].op = "code"
         /\ codes' = {r \in codes : r.id # visit[v].row} \cup {NewRow(v)}
         /\ NewRow(v) \in CodeRow
         /\ NewRow(v).email = visit[v].email /\ NewRow(v).code = visit[v].code
         /\ NewRow(v).purpose = asked[visit[v].code].purpose /\ NewRow(v).id = visit[v].row
         /\ TaskMatches(visit[v])
         /\ visit' = [visit EXCEPT ![v] = NoVisit]
         /\ torn' = torn \/ (NewRow(v).purpose = "signup" /\ ~HasAccount(visit[v].email)
                               /\ torn' = torn \ {visit[v].email})
         /\ UNCHANGED <<pending, registered, asked, uses, overlapped, kept>>
<1>1. Visiting(v) /\ visit[v] \in VisitTask /\ visit[v].op = "code"
  BY DEF SaveCode, CodesTypeOK, NoVisit, Visiting
<1>2. TaskMatches(visit[v])
  BY <1>1 DEF CodesMatch
<1>3. asked[visit[v].code] \in Asked
  BY <1>2, DrawnAsked DEF TaskMatches
<1>4. NewRow(v) \in CodeRow
  BY <1>1, <1>3 DEF NewRow, CodeRow, VisitTask, Asked
<1>5. /\ NewRow(v).email = visit[v].email /\ NewRow(v).code = visit[v].code
      /\ NewRow(v).purpose = asked[visit[v].code].purpose /\ NewRow(v).id = visit[v].row
  BY DEF NewRow
<1> QED
  BY <1>1, <1>2, <1>4, <1>5 DEF SaveCode, Leave, NewRow

LEMMA SaveCodeTyped ==
  ASSUME CodesTypeOK, CodesMatch, NEW v \in Visitors, SaveCode(v)
  PROVE  CodesTypeOK' /\ CodesMatch'
<1>1. /\ visit[v] \in VisitTask /\ NewRow(v) \in CodeRow /\ TaskMatches(visit[v])
      /\ codes' = {r \in codes : r.id # visit[v].row} \cup {NewRow(v)}
      /\ NewRow(v).email = visit[v].email /\ NewRow(v).code = visit[v].code
      /\ NewRow(v).purpose = asked[visit[v].code].purpose
      /\ visit' = [visit EXCEPT ![v] = NoVisit] /\ torn' \subseteq torn
      /\ UNCHANGED <<pending, registered, asked, uses, overlapped, kept>>
  BY SavedCode
<1>2. CodesTypeOK'
  BY <1>1 DEF CodesTypeOK, NoVisit
<1>3. Drawn' = Drawn
  BY <1>1 DEF Drawn
<1>4. RowsMatch'
  BY <1>1, <1>3 DEF RowsMatch, CodesMatch, TaskMatches
<1>5. ASSUME NEW w \in Visitors, Visiting(w)'
      PROVE  TaskMatches(visit[w])'
  <2>1. visit'[w] = visit[w] /\ Visiting(w)
    BY <1>1, <1>5 DEF Visiting, CodesTypeOK
  <2> QED
    BY <1>1, <1>3, <2>1 DEF CodesMatch, TaskMatches
<1> QED
  BY <1>1, <1>2, <1>3, <1>4, <1>5 DEF CodesMatch

LEMMA ExpireTyped ==
  ASSUME CodesTypeOK, CodesMatch, NEW r \in codes, Expire(r)
  PROVE  CodesTypeOK' /\ CodesMatch'
<1> DEFINE old == [r EXCEPT !.fresh = FALSE]
<1>1. /\ codes' = (codes \ {r}) \cup {old} /\ old \in CodeRow
      /\ old.code = r.code /\ old.email = r.email /\ old.purpose = r.purpose
      /\ UNCHANGED <<pending, registered, visit, asked, uses, overlapped, torn, kept>>
  BY DEF Expire, CodesTypeOK, CodeRow
<1> HIDE DEF old
<1>2. Drawn' = Drawn
  BY <1>1 DEF Drawn
<1>3. CodesTypeOK' /\ RowsMatch'
  BY <1>1, <1>2 DEF CodesTypeOK, CodesMatch, RowsMatch
<1> QED
  BY <1>1, <1>2, <1>3 DEF CodesMatch, Visiting, TaskMatches

\* A user is created, or refused.
Creates(v) ==
  /\ Visiting(v) /\ visit[v] \in VisitTask /\ visit[v].op = "create"
  /\ registered' = registered \cup
       {[email |-> visit[v].email, mobile |-> visit[v].mobile, by |-> visit[v].code]}
  /\ visit' \in [Visitors -> {NoVisit} \cup VisitTask]
  /\ visit'[v].op = "tidy" /\ visit'[v].email = visit[v].email
  /\ visit'[v].code = visit[v].code /\ visit'[v].row = visit[v].row
  /\ \A w \in Visitors \ {v} : visit'[w] = visit[w]
  /\ UNCHANGED <<codes, pending, asked, uses, overlapped, torn, kept>>

LEMMA CreateUserCreates ==
  ASSUME CodesTypeOK, NEW v \in Visitors, CreateUser(v)
  PROVE  Drops \/ Creates(v)
<1> DEFINE j == visit[v]
           next == [j EXCEPT !.op = "tidy"]
<1>1. /\ Visiting(v) /\ j \in VisitTask /\ j.op = "create"
      /\ UNCHANGED <<codes, pending, asked, uses, overlapped, torn, kept>>
  BY DEF CreateUser, CodesTypeOK, NoVisit, Visiting
<1>2. CASE Clashes(registered, j.email, j.mobile)
  BY <1>1, <1>2, LeavesDrop DEF CreateUser
<1>3. CASE ~Clashes(registered, j.email, j.mobile)
  <2>1. /\ registered' = registered \cup
             {[email |-> j.email, mobile |-> j.mobile, by |-> j.code]}
        /\ visit' = [visit EXCEPT ![v] = next]
    BY <1>3 DEF CreateUser
  <2>2. /\ next \in VisitTask /\ next.op = "tidy" /\ next.email = j.email
        /\ next.code = j.code /\ next.row = j.row
    BY <1>1 DEF VisitTask
  <2> HIDE DEF next
  <2> QED
    BY <1>1, <2>1, <2>2 DEF Creates, CodesTypeOK
<1> QED
  BY <1>2, <1>3

LEMMA CreatesTyped ==
  ASSUME CodesTypeOK, CodesMatch, NEW v \in Visitors, Creates(v)
  PROVE  CodesTypeOK' /\ CodesMatch'
<1> DEFINE j == visit[v]
           account == [email |-> j.email, mobile |-> j.mobile, by |-> j.code]
<1>1. /\ j \in VisitTask /\ TaskMatches(j) /\ registered' = registered \cup {account}
      /\ UNCHANGED <<codes, pending, asked, uses, overlapped, torn, kept>>
  BY DEF Creates, CodesMatch
<1>2. account \in Account /\ account.by = j.code /\ j.code \in Drawn
  BY <1>1 DEF Account, VisitTask, TaskMatches
<1> HIDE DEF account
<1>3. \A w \in Visitors : visit'[w].op = "pend" => visit'[w].pend \in Codes
  BY DEF Creates, CodesTypeOK
<1>4. CodesTypeOK'
  BY <1>1, <1>2, <1>3 DEF CodesTypeOK, Creates, Account
<1>5. Drawn' = Drawn
  BY <1>1 DEF Drawn
<1>6. ASSUME NEW w \in Visitors, Visiting(w)'
      PROVE  TaskMatches(visit[w])'
  <2>1. CASE w = v
    BY <1>1, <1>5, <2>1 DEF TaskMatches, Creates
  <2>2. CASE w # v
    <3>1. visit'[w] = visit[w] /\ TaskMatches(visit[w])
      BY <1>6, <2>2 DEF CodesMatch, Visiting, Creates
    <3> QED
      BY <1>1, <1>5, <3>1 DEF TaskMatches
  <2> QED
    BY <2>1, <2>2
<1> QED
  BY <1>1, <1>2, <1>4, <1>5, <1>6 DEF CodesMatch, RowsMatch

\* A code is accepted for good: its row goes, or stays and is in kept.
LEMMA Tidied ==
  ASSUME CodesTypeOK, NEW v \in Visitors, Tidy(v)
  PROVE  /\ Visiting(v) /\ visit[v] \in VisitTask /\ visit[v].op = "tidy"
         /\ \/ codes' = {r \in codes : r.id # visit[v].row} /\ kept' = kept
            \/ codes' = codes /\ kept' = kept \cup {visit[v].code}
         /\ uses' = [uses EXCEPT ![visit[v].code] =
                       IF uses[visit[v].code] = 0 THEN 1 ELSE 2]
         /\ visit' = [visit EXCEPT ![v] = NoVisit] /\ pending' \subseteq pending
         /\ UNCHANGED <<registered, asked, overlapped, torn>>
<1>1. Visiting(v) /\ visit[v] \in VisitTask /\ visit[v].op = "tidy"
  BY DEF Tidy, CodesTypeOK, NoVisit, Visiting
<1>2. \/ codes' = {r \in codes : r.id # visit[v].row} /\ kept' = kept
      \/ codes' = codes /\ kept' = kept \cup {visit[v].code}
  BY DEF Tidy, ById
<1> QED
  BY <1>1, <1>2 DEF Tidy, Leave

LEMMA TidyTyped ==
  ASSUME CodesTypeOK, CodesMatch, NEW v \in Visitors, Tidy(v)
  PROVE  CodesTypeOK' /\ CodesMatch'
<1>1. /\ visit[v] \in VisitTask /\ TaskMatches(visit[v])
      /\ codes' \subseteq codes /\ kept' \subseteq kept \cup {visit[v].code}
      /\ uses' = [uses EXCEPT ![visit[v].code] = IF uses[visit[v].code] = 0 THEN 1 ELSE 2]
      /\ visit' = [visit EXCEPT ![v] = NoVisit] /\ pending' \subseteq pending
      /\ UNCHANGED <<registered, asked, overlapped, torn>>
  BY Tidied DEF CodesMatch
<1>2. visit[v].code \in Codes /\ visit[v].code \in Drawn
  BY <1>1 DEF VisitTask, TaskMatches
<1>3. CodesTypeOK'
  BY <1>1, <1>2 DEF CodesTypeOK, NoVisit
<1>4. Drawn' = Drawn
  BY <1>1 DEF Drawn
<1>5. ASSUME NEW w \in Visitors, Visiting(w)'
      PROVE  TaskMatches(visit[w])'
  <2>1. visit'[w] = visit[w] /\ Visiting(w)
    BY <1>1, <1>5 DEF Visiting, CodesTypeOK
  <2> QED
    BY <1>1, <1>4, <2>1 DEF CodesMatch, TaskMatches
<1>6. \A n \in Codes : uses'[n] > 0 => n \in Drawn'
  BY <1>1, <1>2, <1>4 DEF CodesMatch, CodesTypeOK
<1> QED
  BY <1>1, <1>3, <1>4, <1>5, <1>6 DEF CodesMatch, RowsMatch

\* Every step is one of these.
LEMMA StepCases ==
  ASSUME CodesTypeOK, [CodesNext]_codeVars
  PROVE  \/ Drops
         \/ \E v \in Visitors, task \in VisitTask : Starts(v, task)
         \/ \E v \in Visitors, id \in Codes : StoresPending(v, id)
         \/ \E v \in Visitors : SaveCode(v) \/ Creates(v) \/ Tidy(v)
         \/ \E r \in codes : Expire(r)
<1>1. ASSUME NEW v \in Visitors, Abandon(v)
      PROVE  Drops
  BY <1>1, LeavesDrop DEF Abandon
<1> QED
  BY <1>1, VisitStarts, SavePendingStores, CreateUserCreates, OtherDrops DEF CodesNext

LEMMA CodesTypesKept ==
  ASSUME CodesTypeOK, CodesMatch, [CodesNext]_codeVars
  PROVE  CodesTypeOK' /\ CodesMatch'
BY StepCases, DropsTyped, StartsTyped, StoresPendingTyped, SaveCodeTyped, CreatesTyped,
   TidyTyped, ExpireTyped

LEMMA CodesInitMatch == CodesInit => CodesTypeOK /\ CodesMatch
<1> SUFFICES ASSUME CodesInit PROVE CodesTypeOK /\ CodesMatch
  OBVIOUS
<1>1. CodesTypeOK
  BY CodesAssumption DEF CodesInit, CodesTypeOK, NoVisit
<1> QED
  BY <1>1 DEF CodesInit, CodesMatch, RowsMatch, Visiting

\* The type invariant of codes, registrations and the requests on them.
THEOREM CodesTyped == CodesSpec => []CodesTypeOK
BY CodesInitMatch, CodesTypesKept, PTL DEF CodesSpec

-----------------------------------------------------------------------------
(* One code each, used once, and accounts as they were verified            *)

Calm(email) == email \notin overlapped

\* Two requests for one e-mail at once are on record.
Alone ==
  \A v, w \in Visitors :
    Visiting(v) /\ Visiting(w) /\ visit[v].email = visit[w].email /\ Calm(visit[v].email) =>
      v = w

\* The row a code is about to be saved in is the only one of its kind.
RowChosen ==
  \A v \in Visitors :
    visit[v].op = "code" /\ Calm(visit[v].email) =>
      \A r \in CodeRows(visit[v].email, asked[visit[v].code].purpose) : r.id = visit[v].row

\* A code that was presented is in no other row than the one that was found.
RowFound ==
  \A v \in Visitors :
    visit[v].op \in {"create", "tidy"} /\ Calm(visit[v].email) =>
      \A r \in codes : r.code = visit[v].code => r.id = visit[v].row

\* A code that was used is in no row and in no request.
SpentGone ==
  \A n \in Codes :
    uses[n] > 0 /\ n \notin kept /\ Calm(asked[n].email) =>
      /\ \A r \in codes : r.code # n
      /\ \A v \in Visitors : Visiting(v) => visit[v].code # n

PendingUnique == \A p, q \in pending : p.email = q.email => p = q

\* The pending row of an e-mail has the number its code was, or is being, asked
\* for; and so has the account that is about to be made of it.
PendingAgrees ==
  /\ \A v \in Visitors :
       visit[v].op = "code" /\ asked[visit[v].code].purpose = "signup" /\ Calm(visit[v].email) =>
         \A p \in pending : p.email = visit[v].email => p.mobile = visit[v].mobile
  /\ \A r \in codes, p \in pending :
       r.purpose = "signup" /\ p.email = r.email /\ Calm(r.email) /\ r.email \notin torn =>
         p.mobile = asked[r.code].mobile
  /\ \A v \in Visitors :
       visit[v].op = "create" /\ Calm(visit[v].email) /\ visit[v].email \notin torn =>
         visit[v].mobile = asked[visit[v].code].mobile

CodesIInv ==
  /\ CodesTypeOK /\ CodesMatch
  /\ Alone /\ RowChosen /\ RowFound /\ OneCodeEach
  /\ SpentGone /\ CodesAreUsedOnce
  /\ PendingUnique /\ PendingAgrees /\ AccountsAreAsVerified

LEMMA DropsKeep ==
  ASSUME CodesIInv, Drops
  PROVE  CodesIInv'
<1>1. CodesTypeOK' /\ CodesMatch'
  BY DropsTyped DEF CodesIInv
<1>2. \A v \in Visitors : Visiting(v)' => Visiting(v) /\ visit'[v] = visit[v]
  BY DEF Drops, Visiting
<1>3. \A v \in Visitors : visit'[v].op # "none" => visit'[v] = visit[v]
  BY DEF Drops, NoVisit
<1>4. \A e : Calm(e)' => Calm(e)
  BY DEF Drops, Calm
<1>5. UNCHANGED <<asked, uses, torn, kept>> /\ codes' \subseteq codes /\ pending' \subseteq pending
  BY DEF Drops
<1>6. Alone'
  BY <1>2, <1>4 DEF CodesIInv, Alone
<1>7. RowChosen' /\ RowFound'
  BY <1>3, <1>4, <1>5 DEF CodesIInv, RowChosen, RowFound, CodeRows
<1>8. OneCodeEach'
  BY <1>4, <1>5 DEF CodesIInv, OneCodeEach, Calm
<1>9. SpentGone'
  BY <1>2, <1>4, <1>5 DEF CodesIInv, SpentGone
<1>10. CodesAreUsedOnce'
  BY <1>4, <1>5 DEF CodesIInv, CodesAreUsedOnce, Calm
<1>11. PendingUnique'
  BY <1>5 DEF CodesIInv, PendingUnique
<1>12. PendingAgrees'
  BY <1>3, <1>4, <1>5 DEF CodesIInv, PendingAgrees
<1>13. AccountsAreAsVerified'
  BY <1>4, <1>5 DEF Drops, CodesIInv, AccountsAreAsVerified, Calm
<1> QED
  BY <1>1, <1>6, <1>7, <1>8, <1>9, <1>10, <1>11, <1>12, <1>13 DEF CodesIInv

LEMMA StartsKeep ==
  ASSUME CodesIInv, NEW v \in Visitors, NEW task \in VisitTask, Starts(v, task)
  PROVE  CodesIInv'
<1>1. CodesTypeOK' /\ CodesMatch' /\ CodesTypeOK /\ CodesMatch
  BY StartsTyped DEF CodesIInv
<1>2. /\ ~Visiting(v) /\ visit'[v] = task /\ \A w \in Visitors \ {v} : visit'[w] = visit[w]
      /\ UNCHANGED <<codes, pending, registered, uses, torn, kept>>
  BY <1>1 DEF Starts, CodesTypeOK
<1>3. /\ \A e : Calm(e)' => Calm(e)
      /\ Calm(task.email)' => ~Meets(task.email)
  BY DEF Starts, Calm
<1>4. /\ Drawn \subseteq Drawn' /\ \A n \in Drawn : asked'[n] = asked[n]
      /\ task.op \in {"pend", "code", "create", "tidy"}
  BY DEF Starts, AskedOn, VisitTask
<1>5. \A w \in Visitors \ {v} : Visiting(w)' => Visiting(w) /\ visit'[w] = visit[w]
  BY <1>2 DEF Visiting
<1>6. \A w \in Visitors \ {v} : visit'[w].op # "none" =>
         visit'[w] = visit[w] /\ Visiting(w) /\ asked'[visit[w].code] = asked[visit[w].code]
  BY <1>1, <1>2, <1>4 DEF Visiting, NoVisit, CodesMatch, TaskMatches
<1>7. \A r \in codes : asked'[r.code] = asked[r.code] /\ r.code \in Drawn
  BY <1>1, <1>4 DEF CodesMatch, RowsMatch
<1>8. Alone'
  <2> SUFFICES ASSUME NEW x \in Visitors, NEW w \in Visitors, Visiting(x)', Visiting(w)',
                      visit'[x].email = visit'[w].email, Calm(visit[x].email)', x # w
               PROVE  FALSE
    BY DEF Alone
  <2>1. CASE x # v /\ w # v
    BY <1>3, <1>5, <2>1 DEF CodesIInv, Alone
  <2>2. CASE x = v \/ w = v
    BY <1>2, <1>3, <1>5, <2>2 DEF Meets, Visiting
  <2> QED
    BY <2>1, <2>2
<1>9. RowChosen'
  <2> SUFFICES ASSUME NEW w \in Visitors, visit'[w].op = "code", Calm(visit[w].email)',
                      NEW r \in CodeRows(visit'[w].email, asked'[visit'[w].code].purpose)
               PROVE  r.id = visit'[w].row
    BY <1>2 DEF RowChosen, CodeRows
  <2>1. CASE w # v
    BY <1>3, <1>6, <2>1 DEF CodesIInv, RowChosen
  <2>2. CASE w = v
    <3>1. /\ asked'[task.code].purpose = "login"
          /\ CodeRows(task.email, "login") = {}
               \/ \E q \in CodeRows(task.email, "login") : q.id = task.row
      BY <1>2, <2>2 DEF Starts, Draw
    <3>2. r \in CodeRows(task.email, "login")
      BY <1>2, <2>2, <3>1
    <3>3. \A q \in CodeRows(task.email, "login") : q = r
      BY <1>2, <1>3, <2>2, <3>2 DEF CodesIInv, OneCodeEach, CodeRows, Calm
    <3> QED
      BY <1>2, <2>2, <3>1, <3>2, <3>3
  <2> QED
    BY <2>1, <2>2
<1>10. RowFound'
  <2> SUFFICES ASSUME NEW w \in Visitors, visit'[w].op \in {"create", "tidy"},
                      Calm(visit[w].email)', NEW r \in codes, r.code = visit'[w].code
               PROVE  r.id = visit'[w].row
    BY <1>2 DEF RowFound
  <2>1. CASE w # v
    BY <1>3, <1>6, <2>1 DEF CodesIInv, RowFound
  <2>2. CASE w = v
    <3>1. PICK q \in codes : q.code = task.code /\ q.id = task.row /\ q.email = task.email
      BY <1>2, <2>2 DEF Starts, Find
    <3>2. r.email = q.email /\ r.purpose = q.purpose
      BY <1>1, <1>2, <2>2, <3>1 DEF CodesMatch, RowsMatch
    <3>3. r = q
      BY <1>2, <1>3, <2>2, <3>1, <3>2 DEF CodesIInv, OneCodeEach, Calm
    <3> QED
      BY <1>2, <2>2, <3>1, <3>3
  <2> QED
    BY <2>1, <2>2
<1>11. OneCodeEach'
  BY <1>2, <1>3 DEF CodesIInv, OneCodeEach, Calm
<1>12. SpentGone'
  <2> SUFFICES ASSUME NEW n \in Codes, uses[n] > 0, n \notin kept, Calm(asked[n].email)'
               PROVE  /\ \A r \in codes : r.code # n
                      /\ \A w \in Visitors : Visiting(w)' => visit'[w].code # n
    BY <1>2 DEF SpentGone
  <2>1. n \in Drawn /\ Calm(asked[n].email)
    BY <1>1, <1>3, <1>4 DEF CodesMatch
  <2>2. /\ \A r \in codes : r.code # n
        /\ \A w \in Visitors : Visiting(w) => visit[w].code # n
    BY <2>1 DEF CodesIInv, SpentGone
  <2>3. task.code # n
    <3>1. CASE task.op \in {"pend", "code"}
      BY <2>1, <3>1 DEF Starts, Draw
    <3>2. CASE task.op \in {"create", "tidy"}
      BY <2>2, <3>2 DEF Starts, Find
    <3> QED
      BY <1>4, <3>1, <3>2
  <2> QED
    BY <1>2, <1>5, <2>2, <2>3
<1>13. CodesAreUsedOnce'
  <2> SUFFICES ASSUME NEW n \in Codes, uses[n] > 1, n \notin kept
               PROVE  asked'[n].email \in overlapped'
    BY <1>2 DEF CodesAreUsedOnce
  <2>1. uses[n] \in 0..2
    BY <1>1 DEF CodesTypeOK
  <2>2. n \in Drawn
    BY <1>1, <2>1 DEF CodesMatch
  <2> QED
    BY <1>3, <1>4, <2>2 DEF CodesIInv, CodesAreUsedOnce, Calm
<1>14. PendingUnique'
  BY <1>2 DEF CodesIInv, PendingUnique
<1>15. PendingAgrees'
  <2>1. ASSUME NEW w \in Visitors, visit'[w].op = "code",
               asked'[visit'[w].code].purpose = "signup", Calm(visit[w].email)',
               NEW p \in pending, p.email = visit'[w].email
        PROVE  p.mobile = visit'[w].mobile
    <3>1. w # v
      BY <1>2, <2>1 DEF Starts, Draw
    <3> QED
      BY <1>3, <1>6, <2>1, <3>1 DEF CodesIInv, PendingAgrees
  <2>2. ASSUME NEW w \in Visitors, visit'[w].op = "create", Calm(visit[w].email)',
               visit'[w].email \notin torn
        PROVE  visit'[w].mobile = asked'[visit'[w].code].mobile
    <3>1. CASE w # v
      BY <1>3, <1>6, <2>2, <3>1 DEF CodesIInv, PendingAgrees
    <3>2. CASE w = v
      <4>1. PICK r \in codes, p \in pending :
              /\ r.code = task.code /\ r.email = task.email /\ r.purpose = "signup"
              /\ p.email = task.email /\ p.mobile = task.mobile
        BY <1>2, <2>2, <3>2 DEF Starts, Find
      <4>2. Calm(task.email) /\ task.email \notin torn
        BY <1>2, <1>3, <2>2, <3>2
      <4>3. p.mobile = asked[r.code].mobile
        BY <4>1, <4>2 DEF CodesIInv, PendingAgrees
      <4> QED
        BY <1>2, <1>7, <3>2, <4>1, <4>3
    <3> QED
      BY <3>1, <3>2
  <2>3. \A r \in codes, p \in pending :
          r.purpose = "signup" /\ p.email = r.email /\ Calm(r.email)' /\ r.email \notin torn =>
            p.mobile = asked'[r.code].mobile
    BY <1>3, <1>7 DEF CodesIInv, PendingAgrees
  <2> QED
    BY <1>2, <2>1, <2>2, <2>3 DEF PendingAgrees
<1>16. AccountsAreAsVerified'
  BY <1>1, <1>2, <1>3, <1>4 DEF CodesIInv, CodesMatch, AccountsAreAsVerified, Calm
<1> QED
  BY <1>1, <1>8, <1>9, <1>10, <1>11, <1>12, <1>13, <1>14, <1>15, <1>16 DEF CodesIInv

LEMMA StoresPendingKeeps ==
  ASSUME CodesIInv, NEW v \in Visitors, NEW id \in Codes, StoresPending(v, id)
  PROVE  CodesIInv'
<1> DEFINE j == visit[v]
<1>0. PICK t \in Codes : Lands(j, t)
  BY DEF StoresPending
<1> DEFINE new == PendingUser(t, j.email, j.mobile)
<1>1. CodesTypeOK' /\ CodesMatch' /\ CodesTypeOK /\ CodesMatch
  BY StoresPendingTyped DEF CodesIInv
<1>2. /\ visit'[v].op = "code" /\ visit'[v].row = id /\ visit'[v].email = j.email
      /\ visit'[v].mobile = j.mobile /\ visit'[v].code = j.code
      /\ \A w \in Visitors \ {v} : visit'[w] = visit[w]
  BY <1>1, StoredTask
<1>3. /\ j.op = "pend" /\ Visiting(v) /\ TaskMatches(j)
      /\ UNCHANGED <<codes, registered, asked, uses, overlapped, kept>>
      /\ torn' = torn \cup {j.email}
  BY <1>1 DEF StoresPending, NoVisit, Visiting, CodesMatch
<1>4. /\ pending' = {p \in pending : p.id # t} \cup {new}
      /\ \A p \in pending : p.id # t => p.email # j.email
      /\ new.email = j.email /\ new.mobile = j.mobile
  BY <1>0 DEF Lands, PendingUser
<1> HIDE DEF new
<1>5. \A w \in Visitors : /\ Visiting(w)' => Visiting(w)
                          /\ visit'[w].email = visit[w].email /\ visit'[w].code = visit[w].code
  BY <1>2, <1>3 DEF Visiting
<1>6. \A e : Calm(e)' = Calm(e)
  BY <1>3 DEF Calm
<1>7. Alone'
  BY <1>5, <1>6 DEF CodesIInv, Alone
<1>8. RowChosen'
  <2> SUFFICES ASSUME NEW w \in Visitors, visit'[w].op = "code", Calm(visit[w].email),
                      NEW r \in CodeRows(visit[w].email, asked[visit[w].code].purpose)
               PROVE  r.id = visit'[w].row
    BY <1>3, <1>5, <1>6 DEF RowChosen, CodeRows
  <2>1. CASE w # v
    BY <1>2, <2>1 DEF CodesIInv, RowChosen
  <2>2. CASE w = v
    <3>1. r \in CodeRows(j.email, "signup")
      BY <1>3, <2>2 DEF TaskMatches
    <3>2. PICK q \in CodeRows(j.email, "signup") : q.id = id
      BY <3>1 DEF StoresPending
    <3>3. q = r
      BY <2>2, <3>1, <3>2 DEF CodesIInv, OneCodeEach, CodeRows, Calm
    <3> QED
      BY <1>2, <2>2, <3>2, <3>3
  <2> QED
    BY <2>1, <2>2
<1>9. RowFound'
  BY <1>2, <1>3, <1>6 DEF CodesIInv, RowFound
<1>10. OneCodeEach' /\ CodesAreUsedOnce'
  BY <1>3 DEF CodesIInv, OneCodeEach, CodesAreUsedOnce
<1>11. SpentGone'
  BY <1>3, <1>5, <1>6 DEF CodesIInv, SpentGone
<1>12. PendingUnique'
  BY <1>4 DEF CodesIInv, PendingUnique
<1>13. PendingAgrees'
  <2>1. ASSUME NEW w \in Visitors, visit'[w].op = "code",
               asked[visit[w].code].purpose = "signup", Calm(visit[w].email),
               NEW p \in pending', p.email = visit[w].email
        PROVE  p.mobile = visit'[w].mobile
    <3>1. CASE w # v
      <4>1. visit[w].op = "code" /\ Visiting(w)
        BY <1>2, <2>1, <3>1 DEF Visiting, NoVisit
      <4>2. visit[w].email # j.email
        BY <1>3, <2>1, <3>1, <4>1 DEF CodesIInv, Alone
      <4> QED
        BY <1>2, <1>4, <2>1, <3>1, <4>1, <4>2 DEF CodesIInv, PendingAgrees
    <3>2. CASE w = v
      BY <1>2, <1>4, <2>1, <3>2
    <3> QED
      BY <3>1, <3>2
  <2>2. ASSUME NEW r \in codes, NEW p \in pending', r.purpose = "signup", p.email = r.email,
               Calm(r.email), r.email \notin torn'
        PROVE  p.mobile = asked[r.code].mobile
    BY <1>3, <1>4, <2>2 DEF CodesIInv, PendingAgrees
  <2>3. ASSUME NEW w \in Visitors, visit'[w].op = "create", Calm(visit[w].email),
               visit[w].email \notin torn'
        PROVE  visit'[w].mobile = asked[visit[w].code].mobile
    BY <1>2, <1>3, <2>3 DEF CodesIInv, PendingAgrees
  <2> QED
    BY <1>3, <1>5, <1>6, <2>1, <2>2, <2>3 DEF PendingAgrees
<1>14. AccountsAreAsVerified'
  BY <1>3 DEF CodesIInv, AccountsAreAsVerified
<1> QED
  BY <1>1, <1>7, <1>8, <1>9, <1>10, <1>11, <1>12, <1>13, <1>14 DEF CodesIInv

LEMMA SaveCodeKeeps ==
  ASSUME CodesIInv, NEW v \in Visitors, SaveCode(v)
  PROVE  CodesIInv'
<1> DEFINE j == visit[v]
           new == NewRow(v)
<1>1. CodesTypeOK' /\ CodesMatch' /\ CodesTypeOK /\ CodesMatch
  BY SaveCodeTyped DEF CodesIInv
<1>2. /\ Visiting(v) /\ j.op = "code" /\ TaskMatches(j)
      /\ codes' = {r \in codes : r.id # j.row} \cup {new}
      /\ new.email = j.email /\ new.code = j.code /\ new.id = j.row
      /\ new.purpose = asked[j.code].purpose
      /\ UNCHANGED <<pending, registered, asked, uses, overlapped, kept>>
      /\ torn' \subseteq torn /\ torn \subseteq torn' \cup {j.email}
  BY <1>1, SavedCode
<1>3. torn' # torn => new.purpose = "signup" /\ ~HasAccount(j.email)
  BY <1>1, SavedCode
<1>4. visit'[v] = NoVisit /\ \A w \in Visitors \ {v} : visit'[w] = visit[w]
  BY <1>1, SavedCode DEF CodesTypeOK
<1> HIDE DEF new
<1>5. \A w \in Visitors : /\ Visiting(w)' => w # v /\ Visiting(w) /\ visit'[w] = visit[w]
                          /\ visit'[w].op # "none" => Visiting(w)'
  BY <1>4 DEF Visiting, NoVisit
<1>6. \A e : Calm(e)' = Calm(e)
  BY <1>2 DEF Calm
<1>7. \A w \in Visitors : Visiting(w)' /\ Calm(visit[w].email) => visit[w].email # j.email
  BY <1>2, <1>5 DEF CodesIInv, Alone
<1>8. Calm(j.email) => \A r \in codes : r.email = j.email /\ r.purpose = new.purpose => r.id = j.row
  BY <1>2 DEF CodesIInv, RowChosen, CodeRows
<1>9. Alone'
  BY <1>5, <1>6 DEF CodesIInv, Alone
<1>10. RowChosen'
  <2> SUFFICES ASSUME NEW w \in Visitors, visit'[w].op = "code", Calm(visit'[w].email),
                      NEW r \in codes', r.email = visit'[w].email,
                      r.purpose = asked[visit'[w].code].purpose
               PROVE  r.id = visit'[w].row
    BY <1>2, <1>6 DEF RowChosen, CodeRows
  <2>1. Visiting(w)' /\ visit'[w] = visit[w] /\ visit[w].email # j.email
    BY <1>5, <1>7
  <2>2. r \in codes
    BY <1>2, <2>1
  <2> QED
    BY <2>1, <2>2 DEF CodesIInv, RowChosen, CodeRows
<1>11. RowFound'
  <2> SUFFICES ASSUME NEW w \in Visitors, visit'[w].op \in {"create", "tidy"},
                      Calm(visit'[w].email), NEW r \in codes', r.code = visit'[w].code
               PROVE  r.id = visit'[w].row
    BY <1>6 DEF RowFound
  <2>1. Visiting(w)' /\ visit'[w] = visit[w] /\ visit[w].email # j.email /\ Visiting(w)
    BY <1>5, <1>7
  <2>2. visit[w].code # j.code
    BY <1>1, <1>2, <2>1 DEF CodesMatch, TaskMatches
  <2>3. r \in codes
    BY <1>2, <2>1, <2>2
  <2> QED
    BY <2>1, <2>3 DEF CodesIInv, RowFound
<1>12. OneCodeEach'
  <2> SUFFICES ASSUME NEW r \in codes', NEW s \in codes', r.email = s.email,
                      r.purpose = s.purpose, Calm(r.email)
               PROVE  r = s
    BY <1>2 DEF OneCodeEach, Calm
  <2>1. CASE r = new \/ s = new
    BY <1>2, <1>8, <2>1
  <2>2. CASE r # new /\ s # new
    BY <1>2, <2>2 DEF CodesIInv, OneCodeEach, Calm
  <2> QED
    BY <2>1, <2>2
<1>13. SpentGone'
  <2> SUFFICES ASSUME NEW n \in Codes, uses[n] > 0, n \notin kept, Calm(asked[n].email)
               PROVE  /\ \A r \in codes' : r.code # n
                      /\ \A w \in Visitors : Visiting(w)' => visit'[w].code # n
    BY <1>2, <1>6 DEF SpentGone
  <2>1. /\ \A r \in codes : r.code # n
        /\ \A w \in Visitors : Visiting(w) => visit[w].code # n
    BY DEF CodesIInv, SpentGone
  <2> QED
    BY <1>2, <1>5, <2>1
<1>14. CodesAreUsedOnce'
  BY <1>2 DEF CodesIInv, CodesAreUsedOnce
<1>15. PendingUnique'
  BY <1>2 DEF CodesIInv, PendingUnique
<1>16. PendingAgrees'
  <2>1. ASSUME NEW w \in Visitors, visit'[w].op = "code",
               asked[visit'[w].code].purpose = "signup", Calm(visit'[w].email),
               NEW p \in pending, p.email = visit'[w].email
        PROVE  p.mobile = visit'[w].mobile
    BY <1>5, <2>1 DEF CodesIInv, PendingAgrees
  <2>2. ASSUME NEW r \in codes', NEW p \in pending, r.purpose = "signup", p.email = r.email,
               Calm(r.email), r.email \notin torn'
        PROVE  p.mobile = asked[r.code].mobile
    <3>1. CASE r = new
      <4>1. p.mobile = j.mobile
        BY <1>2, <2>2, <3>1 DEF CodesIInv, PendingAgrees
      <4> QED
        BY <1>2, <3>1, <4>1 DEF TaskMatches
    <3>2. CASE r # new
      <4>1. r \in codes /\ r.id # j.row
        BY <1>2, <3>2
      <4>2. r.email \notin torn
        BY <1>2, <1>3, <1>8, <2>2, <4>1
      <4> QED
        BY <2>2, <4>1, <4>2 DEF CodesIInv, PendingAgrees
    <3> QED
      BY <3>1, <3>2
  <2>3. ASSUME NEW w \in Visitors, visit'[w].op = "create", Calm(visit'[w].email),
               visit'[w].email \notin torn'
        PROVE  visit'[w].mobile = asked[visit'[w].code].mobile
    <3>1. visit'[w] = visit[w] /\ visit[w].email # j.email
      BY <1>5, <1>7, <2>3
    <3> QED
      BY <1>2, <2>3, <3>1 DEF CodesIInv, PendingAgrees
  <2> QED
    BY <1>2, <1>6, <2>1, <2>2, <2>3 DEF PendingAgrees
<1>17. AccountsAreAsVerified'
  <2> SUFFICES ASSUME NEW u \in registered, u.by # 0, Calm(u.email), u.email \notin torn'
               PROVE  u.mobile = asked[u.by].mobile
    BY <1>2 DEF AccountsAreAsVerified, Calm
  <2>1. u.email \notin torn
    BY <1>2, <1>3 DEF HasAccount
  <2> QED
    BY <2>1 DEF CodesIInv, AccountsAreAsVerified, Calm
<1> QED
  BY <1>1, <1>9, <1>10, <1>11, <1>12, <1>13, <1>14, <1>15, <1>16, <1>17 DEF CodesIInv

LEMMA ExpireKeeps ==
  ASSUME CodesIInv, NEW r \in codes, Expire(r)
  PROVE  CodesIInv'
<1> DEFINE old == [r EXCEPT !.fresh = FALSE]
<1>1. CodesTypeOK' /\ CodesMatch' /\ CodesTypeOK /\ CodesMatch
  BY ExpireTyped DEF CodesIInv
<1>2. /\ codes' = (codes \ {r}) \cup {old}
      /\ old.code = r.code /\ old.email = r.email /\ old.purpose = r.purpose /\ old.id = r.id
      /\ UNCHANGED <<pending, registered, visit, asked, uses, overlapped, torn, kept>>
  BY <1>1 DEF Expire, CodesTypeOK, CodeRow
<1> HIDE DEF old
<1>3. \A s \in codes' : \E q \in codes :
        /\ q.code = s.code /\ q.email = s.email /\ q.purpose = s.purpose /\ q.id = s.id
        /\ s = old => q = r
        /\ s # old => q = s /\ q # r
  BY <1>2
<1>4. RowChosen' /\ RowFound'
  BY <1>2, <1>3 DEF CodesIInv, RowChosen, RowFound, CodeRows, Calm
<1>5. OneCodeEach'
  <2> SUFFICES ASSUME NEW s \in codes', NEW q \in codes', s.email = q.email,
                      s.purpose = q.purpose, Calm(s.email)
               PROVE  s = q
    BY <1>2 DEF OneCodeEach, Calm
  <2> QED
    BY <1>3 DEF CodesIInv, OneCodeEach, Calm
<1>6. SpentGone' /\ PendingAgrees'
  BY <1>2, <1>3 DEF CodesIInv, SpentGone, PendingAgrees, Calm, Visiting
<1>7. Alone' /\ CodesAreUsedOnce' /\ PendingUnique' /\ AccountsAreAsVerified'
  BY <1>2 DEF CodesIInv, Alone, Visiting, Calm, CodesAreUsedOnce, PendingUnique,
     AccountsAreAsVerified
<1> QED
  BY <1>1, <1>4, <1>5, <1>6, <1>7 DEF CodesIInv

LEMMA CreatesKeep ==
  ASSUME CodesIInv, NEW v \in Visitors, Creates(v)
  PROVE  CodesIInv'
<1> DEFINE j == visit[v]
           account == [email |-> j.email, mobile |-> j.mobile, by |-> j.code]
<1>1. CodesTypeOK' /\ CodesMatch' /\ CodesTypeOK /\ CodesMatch
  BY CreatesTyped DEF CodesIInv
<1>2. /\ Visiting(v) /\ j.op = "create" /\ registered' = registered \cup {account}
      /\ visit'[v].op = "tidy" /\ visit'[v].email = j.email
      /\ visit'[v].code = j.code /\ visit'[v].row = j.row
      /\ \A w \in Visitors \ {v} : visit'[w] = visit[w]
      /\ UNCHANGED <<codes, pending, asked, uses, overlapped, torn, kept>>
  BY DEF Creates
<1>3. account.email = j.email /\ account.mobile = j.mobile /\ account.by = j.code
  OBVIOUS
<1> HIDE DEF account
<1>4. \A w \in Visitors :
        /\ Visiting(w)' => Visiting(w)
        /\ visit'[w].email = visit[w].email /\ visit'[w].code = visit[w].code
  BY <1>2 DEF Visiting
<1>5. \A e : Calm(e)' = Calm(e)
  BY <1>2 DEF Calm
<1>6. Alone'
  BY <1>4, <1>5 DEF CodesIInv, Alone
<1>7. RowChosen'
  BY <1>2, <1>5 DEF CodesIInv, RowChosen, CodeRows
<1>8. RowFound'
  <2> SUFFICES ASSUME NEW w \in Visitors, visit'[w].op \in {"create", "tidy"},
                      Calm(visit[w].email), NEW r \in codes, r.code = visit[w].code
               PROVE  r.id = visit'[w].row
    BY <1>2, <1>4, <1>5 DEF RowFound
  <2> QED
    BY <1>2 DEF CodesIInv, RowFound
<1>9. SpentGone'
  BY <1>2, <1>4, <1>5 DEF CodesIInv, SpentGone
<1>10. OneCodeEach' /\ CodesAreUsedOnce' /\ PendingUnique'
  BY <1>2 DEF CodesIInv, OneCodeEach, CodesAreUsedOnce, PendingUnique
<1>11. PendingAgrees'
  BY <1>2, <1>4, <1>5 DEF CodesIInv, PendingAgrees
<1>12. AccountsAreAsVerified'
  <2>1. Calm(j.email) /\ j.email \notin torn => j.mobile = asked[j.code].mobile
    BY <1>2 DEF CodesIInv, PendingAgrees
  <2> QED
    BY <1>2, <1>3, <2>1 DEF CodesIInv, AccountsAreAsVerified, Calm
<1> QED
  BY <1>1, <1>6, <1>7, <1>8, <1>9, <1>10, <1>11, <1>12 DEF CodesIInv

LEMMA TidyKeeps ==
  ASSUME CodesIInv, NEW v \in Visitors, Tidy(v)
  PROVE  CodesIInv'
<1> DEFINE j == visit[v]
<1>1. CodesTypeOK' /\ CodesMatch' /\ CodesTypeOK /\ CodesMatch
  BY TidyTyped DEF CodesIInv
<1>2. /\ Visiting(v) /\ j \in VisitTask /\ j.op = "tidy"
      /\ \/ codes' = {r \in codes : r.id # j.row} /\ kept' = kept
         \/ codes' = codes /\ kept' = kept \cup {j.code}
      /\ uses' = [uses EXCEPT ![j.code] = IF uses[j.code] = 0 THEN 1 ELSE 2]
      /\ visit' = [visit EXCEPT ![v] = NoVisit] /\ pending' \subseteq pending
      /\ UNCHANGED <<registered, asked, overlapped, torn>>
  BY <1>1, Tidied
<1>3. j.code \in Codes /\ TaskMatches(j) /\ codes' \subseteq codes /\ kept \subseteq kept'
  BY <1>1, <1>2 DEF CodesMatch, VisitTask
<1>4. \A w \in Visitors : /\ Visiting(w)' => w # v /\ Visiting(w) /\ visit'[w] = visit[w]
                          /\ visit'[w].op # "none" => w # v /\ visit'[w] = visit[w]
  BY <1>1, <1>2 DEF Visiting, CodesTypeOK, NoVisit
<1>5. \A e : Calm(e)' = Calm(e)
  BY <1>2 DEF Calm
<1>6. Alone'
  BY <1>4, <1>5 DEF CodesIInv, Alone
<1>7. RowChosen' /\ RowFound'
  BY <1>2, <1>3, <1>4, <1>5 DEF CodesIInv, RowChosen, RowFound, CodeRows
<1>8. OneCodeEach'
  BY <1>2, <1>3 DEF CodesIInv, OneCodeEach
<1>9. SpentGone'
  <2> SUFFICES ASSUME NEW n \in Codes, uses'[n] > 0, n \notin kept', Calm(asked[n].email)
               PROVE  /\ \A r \in codes' : r.code # n
                      /\ \A w \in Visitors : Visiting(w)' => visit'[w].code # n
    BY <1>2, <1>5 DEF SpentGone
  <2>1. CASE n = j.code
    <3>1. codes' = {r \in codes : r.id # j.row} /\ asked[n].email = j.email
      BY <1>2, <1>3, <2>1 DEF TaskMatches
    <3>2. \A r \in codes : r.code = n => r.id = j.row
      BY <1>2, <2>1, <3>1 DEF CodesIInv, RowFound
    <3>3. \A w \in Visitors : Visiting(w)' => visit'[w].code # n
      <4> SUFFICES ASSUME NEW w \in Visitors, Visiting(w)', visit'[w].code = n
                   PROVE  FALSE
        OBVIOUS
      <4>1. w # v /\ Visiting(w) /\ visit[w].code = n
        BY <1>4
      <4>2. visit[w].email = j.email
        BY <1>1, <3>1, <4>1 DEF CodesMatch, TaskMatches
      <4> QED
        BY <1>2, <3>1, <4>1, <4>2 DEF CodesIInv, Alone
    <3> QED
      BY <3>1, <3>2, <3>3
  <2>2. CASE n # j.code
    <3>1. uses[n] > 0 /\ n \notin kept
      BY <1>1, <1>2, <1>3, <2>2 DEF CodesTypeOK
    <3> QED
      BY <1>3, <1>4, <3>1 DEF CodesIInv, SpentGone
  <2> QED
    BY <2>1, <2>2
<1>10. CodesAreUsedOnce'
  <2> SUFFICES ASSUME NEW n \in Codes, uses'[n] > 1, n \notin kept', Calm(asked[n].email)
               PROVE  FALSE
    BY <1>2 DEF CodesAreUsedOnce, Calm
  <2>1. n \notin kept /\ uses[n] \in 0..2
    BY <1>1, <1>3 DEF CodesTypeOK
  <2>2. CASE n = j.code
    <3>1. uses[n] > 0
      BY <1>1, <1>2, <1>3, <2>1, <2>2 DEF CodesTypeOK
    <3> QED
      BY <1>2, <2>1, <2>2, <3>1 DEF CodesIInv, SpentGone
  <2>3. CASE n # j.code
    <3>1. uses'[n] = uses[n]
      BY <1>1, <1>2, <2>3 DEF CodesTypeOK
    <3> QED
      BY <2>1, <3>1 DEF CodesIInv, CodesAreUsedOnce, Calm
  <2> QED
    BY <2>2, <2>3
<1>11. PendingUnique'
  BY <1>2 DEF CodesIInv, PendingUnique
<1>12. PendingAgrees'
  BY <1>2, <1>3, <1>4, <1>5 DEF CodesIInv, PendingAgrees
<1>13. AccountsAreAsVerified'
  BY <1>2 DEF CodesIInv, AccountsAreAsVerified
<1> QED
  BY <1>1, <1>6, <1>7, <1>8, <1>9, <1>10, <1>11, <1>12, <1>13 DEF CodesIInv

LEMMA CodesIInvHolds == CodesSpec => []CodesIInv
<1>1. CodesInit => CodesIInv
  <2> SUFFICES ASSUME CodesInit PROVE CodesIInv
    OBVIOUS
  <2>1. \A v \in Visitors : visit[v] = NoVisit
    BY DEF CodesInit
  <2>2. \A n \in Codes : uses[n] = 0
    BY DEF CodesInit
  <2>3. codes = {} /\ pending = {} /\ registered = {}
    BY DEF CodesInit
  <2>4. Alone /\ RowChosen /\ RowFound /\ OneCodeEach
    BY <2>1, <2>3 DEF Alone, RowChosen, RowFound, OneCodeEach, Visiting, NoVisit
  <2>5. SpentGone /\ CodesAreUsedOnce
    BY <2>2 DEF SpentGone, CodesAreUsedOnce
  <2>6. PendingUnique /\ PendingAgrees /\ AccountsAreAsVerified
    BY <2>1, <2>3 DEF PendingUnique, PendingAgrees, AccountsAreAsVerified, NoVisit
  <2> QED
    BY <2>4, <2>5, <2>6, CodesInitMatch DEF CodesIInv
<1>2. CodesIInv /\ [CodesNext]_codeVars => CodesIInv'
  <2> SUFFICES ASSUME CodesIInv, [CodesNext]_codeVars PROVE CodesIInv'
    OBVIOUS
  <2>1. CodesTypeOK
    BY DEF CodesIInv
  <2> QED
    BY <2>1, StepCases, DropsKeep, StartsKeep, StoresPendingKeeps, SaveCodeKeeps, CreatesKeep,
       TidyKeeps, ExpireKeeps
<1> QED
  BY <1>1, <1>2, PTL DEF CodesSpec

\* A code is accepted once, unless two requests for its e-mail overlapped or its
\* row could not be deleted.
THEOREM UsedOnce == CodesSpec => []CodesAreUsedOnce
BY CodesIInvHolds, PTL DEF CodesIInv

\* An e-mail has one code for each purpose, unless requests for it overlapped.
THEOREM OneEach == CodesSpec => []OneCodeEach
BY CodesIInvHolds, PTL DEF CodesIInv

\* An account has the number its verified code was asked for, unless requests
\* overlapped or a registration was saved without its code.
THEOREM AsVerified == CodesSpec => []AccountsAreAsVerified
BY CodesIInvHolds, PTL DEF CodesIInv

-----------------------------------------------------------------------------
(* The MPIN lock-out                                                       *)

Busy(c) == request[c] # NoRequest

-----------------------------------------------------------------------------
(* Types                                                                   *)

\* What a check makes of a row is a row, and how the check is answered.
LEMMA CheckedRowTyped ==
  ASSUME NEW row \in Row, NEW pin \in Pins
  PROVE  /\ CheckedRow(row, pin) \in Row
         /\ Answer(row, pin) \in {"right", "wrong", "locks"}
<1>1. row.failed \in 0..MaxAttempts /\ row.lock \in 0..Window
  BY DEF Row
<1>2. 0 \in 0..MaxAttempts /\ 0 \in 0..Window /\ Window \in 0..Window
  BY LockoutAssumption
<1>3. LoginClears(row) \in Row
  BY <1>2 DEF LoginClears, Row
<1>4. [row EXCEPT !.failed = 0, !.lock = Window] \in Row
  BY <1>2 DEF Row
<1>5. ASSUME row.failed + 1 < MaxAttempts
      PROVE  [row EXCEPT !.failed = @ + 1] \in Row
  BY <1>1, <1>5, LockoutAssumption DEF Row
<1>6. CountFailure(row) \in Row
  BY <1>1, <1>4, <1>5, LockoutAssumption DEF CountFailure
<1> QED
  BY <1>3, <1>6 DEF CheckedRow, Answer

\* Time passing keeps the type of a row.
LEMMA LessTyped ==
  ASSUME NEW row \in Row
  PROVE  Less(row) \in Row
<1>1. row.lock \in 0..Window
  BY DEF Row
<1> QED
  BY <1>1, LockoutAssumption DEF Less, Row

\* A handler that has read a row holds a request of the right type.
LEMMA ReadRowTyped ==
  ASSUME LockoutTypeOK, NEW c \in Clients, NEW a \in Accounts, NEW row \in Row,
         NEW op \in {"right", "wrong", "locks", "set", "profile", "complete"},
         ReadRow(c, op, a, row)
  PROVE  LockoutTypeOK'
<1>1. request'[c] \in Pending
  BY DEF LockoutTypeOK, ReadRow, Pending
<1> QED
  BY <1>1 DEF LockoutTypeOK, ReadRow

\* A new request reads a row and means to save one of the right type.
LEMMA ServingReads ==
  ASSUME LockoutTypeOK, NEW c \in Clients, Serving(c)
  PROVE  \E a \in Accounts, row \in Row,
            op \in {"right", "wrong", "locks", "set", "profile", "complete"} :
           ReadRow(c, op, a, row)
<1>1. PICK a \in Accounts :
        \/ SaveProfile(c, a)
        \/ \E pin \in Pins : VerifyMPIN(c, a, pin) \/ SetMPIN(c, a, pin)
                             \/ CompleteGoogleSignup(c, a, pin)
  BY DEF Serving
<1>2. accounts[a] \in Row /\ accounts[a].lock \in 0..Window
  BY DEF LockoutTypeOK, Row
<1>3. CASE SaveProfile(c, a)
  BY <1>2, <1>3 DEF SaveProfile
<1>4. ASSUME NEW pin \in Pins, VerifyMPIN(c, a, pin)
      PROVE  \E row \in Row, op \in {"right", "wrong", "locks"} : ReadRow(c, op, a, row)
  <2>1. accounts[a].lock = 0 /\ accounts[a].live
    BY <1>2, <1>4, LockoutAssumption DEF VerifyMPIN, Refused, Locked, ReadRow
  <2> QED
    BY <1>2, <1>4, <2>1, CheckedRowTyped DEF VerifyMPIN
<1>5. ASSUME NEW pin \in Pins, SetMPIN(c, a, pin)
      PROVE  \E row \in Row : ReadRow(c, "set", a, row)
  <2>1. [accounts[a] EXCEPT !.mpin = pin] \in Row
    BY <1>2 DEF Row
  <2> QED
    BY <1>5, <2>1 DEF SetMPIN
<1>6. ASSUME NEW pin \in Pins, CompleteGoogleSignup(c, a, pin)
      PROVE  \E row \in Row : ReadRow(c, "complete", a, row)
  <2>1. Fresh(pin) \in Row
    BY LockoutAssumption DEF Fresh, Row
  <2> QED
    BY <1>6, <2>1 DEF CompleteGoogleSignup
<1> QED
  BY <1>1, <1>3, <1>4, <1>5, <1>6

\* What a save makes of the count stays within the limit.
LEMMA ToldTyped ==
  ASSUME LockoutTypeOK, NEW q \in Pending
  PROVE  Told(q) \in 0..MaxAttempts
<1>1. wrong[q.who] \in 0..MaxAttempts
  BY DEF LockoutTypeOK, Pending
<1>2. Capped(wrong[q.who] + 1) \in 0..MaxAttempts
  BY <1>1, LockoutAssumption DEF Capped
<1>3. 0 \in 0..MaxAttempts
  BY LockoutAssumption
<1>4. CASE q.op = "wrong"
  BY <1>2, <1>4 DEF Told
<1>5. CASE q.op \in {"right", "locks", "complete"}
  BY <1>3, <1>5 DEF Told
<1>6. CASE q.op \notin {"wrong", "right", "locks", "complete"}
  BY <1>1, <1>6 DEF Told
<1> QED
  BY <1>4, <1>5, <1>6

LEMMA TypesKept ==
  ASSUME LockoutTypeOK, [LockoutNext]_lockoutVars
  PROVE  LockoutTypeOK'
<1>1. ASSUME NEW c \in Clients, Serving(c)
      PROVE  LockoutTypeOK'
  BY <1>1, ServingReads, ReadRowTyped
<1>2. ASSUME NEW c \in Clients, Busy(c)
      PROVE  request[c] \in Pending
  BY <1>2 DEF LockoutTypeOK, Busy
<1>3. ASSUME NEW c \in Clients, SaveRow(c)
      PROVE  LockoutTypeOK'
  <2>1. request[c] \in Pending /\ Told(request[c]) \in 0..MaxAttempts
    BY <1>2, <1>3, ToldTyped DEF SaveRow, Busy
  <2>2. request[c].who \in Accounts /\ request[c].save \in Row
    BY <2>1 DEF Pending
  <2>3. request[c].save.mpin \in Pins \cup {NoPin}
    BY <2>2 DEF Row
  <2> QED
    BY <1>3, <2>1, <2>2, <2>3 DEF SaveRow, End, LockoutTypeOK
<1>4. ASSUME NEW c \in Clients, SaveRowFails(c)
      PROVE  LockoutTypeOK'
  <2>1. request[c] \in Pending /\ Told(request[c]) \in 0..MaxAttempts
    BY <1>2, <1>4, ToldTyped DEF SaveRowFails, Busy
  <2>2. request[c].who \in Accounts
    BY <2>1 DEF Pending
  <2> QED
    BY <1>4, <2>1, <2>2 DEF SaveRowFails, End, LockoutTypeOK
<1>5. ASSUME NEW c \in Clients, RequestDies(c)
      PROVE  LockoutTypeOK'
  BY <1>5 DEF RequestDies, End, LockoutTypeOK
<1>6. ASSUME NEW a \in Accounts, RemoveAccount(a)
      PROVE  LockoutTypeOK'
  <2>1. Gone \in Row
    BY LockoutAssumption DEF Gone, Row
  <2> QED
    BY <1>6, <2>1 DEF RemoveAccount, LockoutTypeOK
<1>7. CASE Tick
  <2>1. ASSUME NEW q \in {NoRequest} \cup Pending
        PROVE  Waited(q) \in {NoRequest} \cup Pending
    <3>1. CASE q = NoRequest
      BY <3>1 DEF Waited
    <3>2. CASE q # NoRequest
      <4>1. q \in Pending /\ q.read \in Row /\ q.save \in Row
        BY <3>2 DEF Pending
      <4> QED
        BY <3>2, <4>1, LessTyped DEF Waited, Pending
    <3> QED
      BY <3>1, <3>2
  <2>2. accounts' \in [Accounts -> Row]
    BY <1>7, LessTyped DEF Tick, LockoutTypeOK
  <2> QED
    BY <1>7, <2>1, <2>2 DEF Tick, LockoutTypeOK
<1>8. CASE UNCHANGED lockoutVars
  BY <1>8 DEF lockoutVars, LockoutTypeOK
<1> QED
  BY <1>1, <1>3, <1>4, <1>5, <1>6, <1>7, <1>8 DEF LockoutNext

\* The type invariant of the MPIN columns and the requests on them.
THEOREM LockoutTyped == LockoutSpec => []LockoutTypeOK
<1>1. LockoutInit => LockoutTypeOK
  <2> SUFFICES ASSUME LockoutInit PROVE LockoutTypeOK
    OBVIOUS
  <2>1. \A pin \in Pins \cup {NoPin} : Fresh(pin) \in Row
    BY LockoutAssumption DEF Fresh, Row
  <2> QED
    BY <2>1, LockoutAssumption DEF LockoutInit, LockoutTypeOK
<1> QED
  BY <1>1, TypesKept, PTL DEF LockoutSpec

-----------------------------------------------------------------------------
(* What a pending save does to the row it was read from                    *)

\* Each request saves the row it read with its own change in it: the right MPIN
\* clears the failures, a wrong one adds one below the limit or locks at it,
\* and no check is made of a locked row; the MPIN is changed by those requests
\* alone that set it.
Means(q) ==
  /\ q.read.live
  /\ q.op \in {"right", "wrong", "locks"} => q.read.lock = 0
  /\ q.op \in {"right", "wrong", "locks", "profile"} => q.save.mpin = q.read.mpin
  /\ q.op \in {"right", "locks", "complete"} => q.save.failed = 0
  /\ q.op = "wrong" => q.save.failed = q.read.failed + 1 /\ q.save.failed < MaxAttempts
  /\ q.op \in {"set", "profile"} => q.save.failed = q.read.failed
  /\ q.op \in {"wrong", "set", "profile"} => q.save.lock = q.read.lock

RequestsMean == \A c \in Clients : Busy(c) => Means(request[c])

LockoutIInv == LockoutTypeOK /\ RequestsMean /\ WrongMPINsAreCounted /\ ChosenMPINCounts

LEMMA CheckMeans ==
  ASSUME NEW row \in Row, NEW pin \in Pins, row.live, row.lock = 0
  PROVE  Means([op |-> Answer(row, pin), who |-> 0, read |-> row,
                save |-> CheckedRow(row, pin)])
<1>1. row.failed \in 0..MaxAttempts
  BY DEF Row
<1>2. CASE CheckMPIN(row.mpin, pin)
  <2>1. CheckedRow(row, pin) = [row EXCEPT !.failed = 0, !.lock = 0]
    BY <1>2 DEF CheckedRow, LoginClears
  <2>2. /\ CheckedRow(row, pin).failed = 0
        /\ CheckedRow(row, pin).mpin = row.mpin
    BY <2>1 DEF Row
  <2> QED
    BY <1>2, <2>2 DEF Means, Answer
<1>3. CASE ~CheckMPIN(row.mpin, pin) /\ row.failed + 1 >= MaxAttempts
  <2>1. CheckedRow(row, pin) = [row EXCEPT !.failed = 0, !.lock = Window]
    BY <1>3 DEF CheckedRow, CountFailure
  <2>2. /\ CheckedRow(row, pin).failed = 0 /\ CheckedRow(row, pin).lock = Window
        /\ CheckedRow(row, pin).mpin = row.mpin
    BY <2>1 DEF Row
  <2>3. Answer(row, pin) = "locks"
    BY <1>3, <2>2, LockoutAssumption DEF Answer, Locked
  <2> QED
    BY <2>2, <2>3 DEF Means
<1>4. CASE ~CheckMPIN(row.mpin, pin) /\ ~(row.failed + 1 >= MaxAttempts)
  <2>1. CheckedRow(row, pin) = [row EXCEPT !.failed = @ + 1]
    BY <1>4 DEF CheckedRow, CountFailure
  <2>2. /\ CheckedRow(row, pin).failed = row.failed + 1
        /\ CheckedRow(row, pin).lock = row.lock
        /\ CheckedRow(row, pin).mpin = row.mpin
    BY <2>1 DEF Row
  <2>3. Answer(row, pin) = "wrong"
    BY <1>4, <2>2 DEF Answer, Locked
  <2>4. row.failed + 1 < MaxAttempts
    BY <1>1, <1>4, LockoutAssumption
  <2> QED
    BY <2>2, <2>3, <2>4 DEF Means
<1> QED
  BY <1>2, <1>3, <1>4

\* Whatever row a new request reads, it means to save it as above.
LEMMA ServingMeans ==
  ASSUME LockoutIInv, NEW c \in Clients, Serving(c)
  PROVE  /\ Means(request'[c])
         /\ \A d \in Clients \ {c} : request'[d] = request[d]
         /\ UNCHANGED <<accounts, wrong, chosen, overrun>>
<1>1. PICK a \in Accounts :
        \/ SaveProfile(c, a)
        \/ \E pin \in Pins : VerifyMPIN(c, a, pin) \/ SetMPIN(c, a, pin)
                             \/ CompleteGoogleSignup(c, a, pin)
  BY DEF Serving
<1>2. accounts[a] \in Row /\ accounts[a].lock \in 0..Window
  BY DEF LockoutIInv, LockoutTypeOK, Row
<1>3. ASSUME NEW op, NEW row, ReadRow(c, op, a, row)
      PROVE  /\ accounts[a].live
             /\ request'[c] = [op |-> op, who |-> a, read |-> accounts[a], save |-> row]
             /\ \A d \in Clients \ {c} : request'[d] = request[d]
             /\ UNCHANGED <<accounts, wrong, chosen, overrun>>
  BY <1>3 DEF ReadRow, LockoutIInv, LockoutTypeOK
<1>4. CASE SaveProfile(c, a)
  <2>1. ReadRow(c, "profile", a, accounts[a])
    BY <1>4 DEF SaveProfile
  <2>2. accounts[a].live
    BY <1>3, <2>1
  <2>3. Means([op |-> "profile", who |-> a, read |-> accounts[a], save |-> accounts[a]])
    BY <2>2 DEF Means
  <2> QED
    BY <1>3, <2>1, <2>3
<1>5. ASSUME NEW pin \in Pins, VerifyMPIN(c, a, pin)
      PROVE  /\ Means(request'[c])
             /\ \A d \in Clients \ {c} : request'[d] = request[d]
             /\ UNCHANGED <<accounts, wrong, chosen, overrun>>
  <2>1. ReadRow(c, Answer(accounts[a], pin), a, CheckedRow(accounts[a], pin))
    BY <1>5 DEF VerifyMPIN
  <2>2. accounts[a].lock = 0
    BY <1>2, <1>5, LockoutAssumption DEF VerifyMPIN, Refused, Locked
  <2>3. accounts[a].live
    BY <1>3, <2>1
  <2>4. Means([op |-> Answer(accounts[a], pin), who |-> 0, read |-> accounts[a],
               save |-> CheckedRow(accounts[a], pin)])
    BY <1>2, <2>2, <2>3, CheckMeans
  <2>5. Means([op |-> Answer(accounts[a], pin), who |-> a, read |-> accounts[a],
               save |-> CheckedRow(accounts[a], pin)])
    BY <2>4 DEF Means
  <2> QED
    BY <1>3, <2>1, <2>5
<1>6. ASSUME NEW pin \in Pins, SetMPIN(c, a, pin)
      PROVE  /\ Means(request'[c])
             /\ \A d \in Clients \ {c} : request'[d] = request[d]
             /\ UNCHANGED <<accounts, wrong, chosen, overrun>>
  <2> DEFINE row == [accounts[a] EXCEPT !.mpin = pin]
  <2>1. ReadRow(c, "set", a, row)
    BY <1>6 DEF SetMPIN
  <2>2. row.failed = accounts[a].failed /\ row.lock = accounts[a].lock
    BY <1>2 DEF Row
  <2> HIDE DEF row
  <2>3. accounts[a].live
    BY <1>3, <2>1
  <2>4. Means([op |-> "set", who |-> a, read |-> accounts[a], save |-> row])
    BY <2>2, <2>3 DEF Means
  <2> QED
    BY <1>3, <2>1, <2>4
<1>7. ASSUME NEW pin \in Pins, CompleteGoogleSignup(c, a, pin)
      PROVE  /\ Means(request'[c])
             /\ \A d \in Clients \ {c} : request'[d] = request[d]
             /\ UNCHANGED <<accounts, wrong, chosen, overrun>>
  <2>1. ReadRow(c, "complete", a, Fresh(pin))
    BY <1>7 DEF CompleteGoogleSignup
  <2>2. accounts[a].live
    BY <1>3, <2>1
  <2>3. Fresh(pin).failed = 0
    BY DEF Fresh
  <2>4. Means([op |-> "complete", who |-> a, read |-> accounts[a], save |-> Fresh(pin)])
    BY <2>2, <2>3 DEF Means
  <2> QED
    BY <1>3, <2>1, <2>4
<1> QED
  BY <1>1, <1>4, <1>5, <1>6, <1>7

\* Time passing changes no meaning.
LEMMA WaitedMeans ==
  ASSUME NEW q \in Pending, Means(q), q # NoRequest
  PROVE  Means(Waited(q))
<1>1. q.read \in Row /\ q.save \in Row
  BY DEF Pending
<1>2. Waited(q) = [q EXCEPT !.read = Less(q.read), !.save = Less(q.save)]
  BY DEF Waited
<1>3. /\ Waited(q).op = q.op /\ Waited(q).read = Less(q.read)
      /\ Waited(q).save = Less(q.save)
  BY <1>2 DEF Pending
<1>4. ASSUME NEW row \in Row
      PROVE  /\ Less(row).live = row.live /\ Less(row).mpin = row.mpin
             /\ Less(row).failed = row.failed
             /\ Less(row).lock = IF row.lock = 0 THEN 0 ELSE row.lock - 1
  BY DEF Less, Row
<1> QED
  BY <1>1, <1>3, <1>4 DEF Means

\* A save by request q of a row that nobody changed since counts right, and
\* keeps the MPIN that was chosen.
LEMMA SaveCounts ==
  ASSUME LockoutIInv, NEW c \in Clients, SaveRow(c)
  PROVE  WrongMPINsAreCounted' /\ ChosenMPINCounts'
<1> DEFINE q == request[c]
<1>1. q \in Pending /\ Means(q) /\ q.who \in Accounts /\ q.save \in Row /\ q.read \in Row
  BY DEF LockoutIInv, LockoutTypeOK, RequestsMean, SaveRow, Busy, Pending
<1>2. /\ accounts' = [accounts EXCEPT ![q.who] = q.save]
      /\ overrun' = IF accounts[q.who] = q.read THEN overrun ELSE overrun \cup {q.who}
      /\ wrong' = [wrong EXCEPT ![q.who] = Told(q)]
      /\ chosen' = IF q.op \in {"set", "complete"} THEN [chosen EXCEPT ![q.who] = q.save.mpin]
                   ELSE chosen
  BY DEF SaveRow
<1>3. ASSUME NEW a \in Accounts \ overrun', accounts'[a].live, a # q.who
      PROVE  /\ accounts'[a].failed = wrong'[a] /\ wrong'[a] < MaxAttempts
             /\ accounts'[a].mpin = chosen'[a]
  <2>1. accounts'[a] = accounts[a] /\ wrong'[a] = wrong[a] /\ chosen'[a] = chosen[a]
        /\ a \in Accounts \ overrun
    BY <1>1, <1>2, <1>3 DEF LockoutIInv, LockoutTypeOK
  <2> QED
    BY <1>3, <2>1 DEF LockoutIInv, WrongMPINsAreCounted, ChosenMPINCounts
<1>4. ASSUME q.who \notin overrun'
      PROVE  /\ accounts'[q.who].failed = wrong'[q.who] /\ wrong'[q.who] < MaxAttempts
             /\ accounts'[q.who].mpin = chosen'[q.who]
  <2>1. accounts[q.who] = q.read /\ q.who \notin overrun
    BY <1>2, <1>4
  <2>2. /\ q.read.failed = wrong[q.who] /\ wrong[q.who] < MaxAttempts
        /\ q.read.mpin = chosen[q.who]
    BY <1>1, <2>1 DEF LockoutIInv, WrongMPINsAreCounted, ChosenMPINCounts, Means
  <2>3. accounts'[q.who] = q.save /\ wrong'[q.who] = Told(q)
    BY <1>1, <1>2 DEF LockoutIInv, LockoutTypeOK
  <2>4. wrong[q.who] \in 0..MaxAttempts
    BY <1>1 DEF LockoutIInv, LockoutTypeOK
  <2>5. q.op \in {"right", "wrong", "locks", "set", "profile", "complete"}
    BY <1>1 DEF Pending
  <2>6. q.save.failed = Told(q) /\ Told(q) < MaxAttempts
    <3>1. CASE q.op = "wrong"
      <4>1. Told(q) = Capped(wrong[q.who] + 1)
        BY <3>1 DEF Told
      <4>2. q.save.failed = wrong[q.who] + 1 /\ q.save.failed < MaxAttempts
        BY <1>1, <2>2, <3>1 DEF Means
      <4> QED
        BY <2>4, <4>1, <4>2, LockoutAssumption DEF Capped
    <3>2. CASE q.op \in {"right", "locks", "complete"}
      <4>1. Told(q) = 0
        BY <3>2 DEF Told
      <4> QED
        BY <1>1, <3>2, <4>1, LockoutAssumption DEF Means
    <3>3. CASE q.op \in {"set", "profile"}
      <4>1. Told(q) = wrong[q.who]
        BY <3>3 DEF Told
      <4> QED
        BY <1>1, <2>2, <3>3, <4>1 DEF Means
    <3> QED
      BY <2>5, <3>1, <3>2, <3>3
  <2>7. q.save.mpin = chosen'[q.who]
    <3>1. CASE q.op \in {"set", "complete"}
      BY <1>1, <1>2, <3>1 DEF LockoutIInv, LockoutTypeOK
    <3>2. CASE q.op \notin {"set", "complete"}
      BY <1>1, <1>2, <2>2, <2>5, <3>2 DEF Means
    <3> QED
      BY <3>1, <3>2
  <2> QED
    BY <2>3, <2>6, <2>7
<1> HIDE DEF q
<1> QED
  BY <1>3, <1>4 DEF WrongMPINsAreCounted, ChosenMPINCounts

LEMMA LockoutIInvKept ==
  ASSUME LockoutIInv, [LockoutNext]_lockoutVars
  PROVE  LockoutIInv'
<1>0. LockoutTypeOK'
  BY TypesKept DEF LockoutIInv
<1>1. ASSUME NEW c \in Clients, Serving(c)
      PROVE  LockoutIInv'
  <2>1. RequestsMean'
    BY <1>1, ServingMeans DEF RequestsMean, Busy, LockoutIInv
  <2> QED
    BY <1>0, <1>1, <2>1, ServingMeans
       DEF LockoutIInv, WrongMPINsAreCounted, ChosenMPINCounts
<1>2. ASSUME NEW c \in Clients, End(c)
      PROVE  RequestsMean'
  BY <1>2 DEF End, RequestsMean, Busy, LockoutIInv, LockoutTypeOK
<1>3. ASSUME NEW c \in Clients, SaveRow(c)
      PROVE  LockoutIInv'
  BY <1>0, <1>2, <1>3, SaveCounts DEF SaveRow, LockoutIInv
<1>4. ASSUME NEW c \in Clients, SaveRowFails(c)
      PROVE  LockoutIInv'
  <2>1. request[c].who \in Accounts
    BY <1>4 DEF SaveRowFails, LockoutIInv, LockoutTypeOK, Pending
  <2>2. \A a \in Accounts \ overrun' : wrong'[a] = wrong[a] /\ a \notin overrun
    BY <1>4, <2>1 DEF SaveRowFails, LockoutIInv, LockoutTypeOK
  <2>3. UNCHANGED <<accounts, chosen>>
    BY <1>4 DEF SaveRowFails
  <2> QED
    BY <1>0, <1>2, <1>4, <2>2, <2>3
       DEF SaveRowFails, LockoutIInv, WrongMPINsAreCounted, ChosenMPINCounts
<1>5. ASSUME NEW c \in Clients, RequestDies(c)
      PROVE  LockoutIInv'
  BY <1>0, <1>2, <1>5 DEF RequestDies, LockoutIInv, WrongMPINsAreCounted, ChosenMPINCounts
<1>6. ASSUME NEW a \in Accounts, RemoveAccount(a)
      PROVE  LockoutIInv'
  <2>1. RequestsMean'
    BY <1>6 DEF RemoveAccount, RequestsMean, Busy, LockoutIInv
  <2>2. \A b \in Accounts : accounts'[b].live => accounts'[b] = accounts[b]
    BY <1>6 DEF RemoveAccount, Gone, LockoutIInv, LockoutTypeOK
  <2>3. UNCHANGED <<wrong, chosen, overrun>>
    BY <1>6 DEF RemoveAccount
  <2> QED
    BY <1>0, <2>1, <2>2, <2>3 DEF LockoutIInv, WrongMPINsAreCounted, ChosenMPINCounts
<1>7. CASE Tick
  <2>1. RequestsMean'
    <3> SUFFICES ASSUME NEW c \in Clients, Busy(c)' PROVE Means(request'[c])
      BY DEF RequestsMean, Means
    <3>1. request'[c] = Waited(request[c])
      BY <1>7 DEF Tick
    <3>2. Busy(c)
      BY <3>1 DEF Busy, Waited
    <3>3. request[c] \in Pending /\ Means(request[c])
      BY <3>2 DEF LockoutIInv, LockoutTypeOK, RequestsMean, Busy
    <3> QED
      BY <3>1, <3>2, <3>3, WaitedMeans DEF Busy
  <2>2. ASSUME NEW a \in Accounts
        PROVE  /\ accounts'[a].live = accounts[a].live
               /\ accounts'[a].failed = accounts[a].failed
               /\ accounts'[a].mpin = accounts[a].mpin
    BY <1>7 DEF Tick, Less, LockoutIInv, LockoutTypeOK, Row
  <2>3. UNCHANGED <<wrong, chosen, overrun>>
    BY <1>7 DEF Tick
  <2> QED
    BY <1>0, <2>1, <2>2, <2>3 DEF LockoutIInv, WrongMPINsAreCounted, ChosenMPINCounts
<1>8. CASE UNCHANGED lockoutVars
  BY <1>0, <1>8 DEF lockoutVars, LockoutIInv, RequestsMean, Busy,
     WrongMPINsAreCounted, ChosenMPINCounts
<1> QED
  BY <1>1, <1>3, <1>4, <1>5, <1>6, <1>7, <1>8 DEF LockoutNext

LEMMA LockoutIInvHolds == LockoutSpec => []LockoutIInv
<1>1. LockoutInit => LockoutIInv
  <2> SUFFICES ASSUME LockoutInit PROVE LockoutIInv
    OBVIOUS
  <2>1. \A pin \in Pins \cup {NoPin} : Fresh(pin) \in Row
    BY LockoutAssumption DEF Fresh, Row
  <2>2. LockoutTypeOK
    BY <2>1, LockoutAssumption DEF LockoutInit, LockoutTypeOK
  <2>3. RequestsMean
    BY DEF LockoutInit, RequestsMean, Busy
  <2>4. WrongMPINsAreCounted /\ ChosenMPINCounts
    BY LockoutAssumption DEF LockoutInit, Fresh, WrongMPINsAreCounted, ChosenMPINCounts
  <2> QED
    BY <2>2, <2>3, <2>4 DEF LockoutIInv
<1> QED
  BY <1>1, LockoutIInvKept, PTL DEF LockoutSpec

\* An account whose row lost no change has counted exactly the wrong MPINs it
\* answered since the last right one, and is below the limit.
THEOREM AttemptsCounted == LockoutSpec => []WrongMPINsAreCounted
BY LockoutIInvHolds, PTL DEF LockoutIInv

\* The MPIN that counts is the one last acknowledged, unless the row lost a change.
THEOREM ChosenCounts == LockoutSpec => []ChosenMPINCounts
BY LockoutIInvHolds, PTL DEF LockoutIInv

-----------------------------------------------------------------------------
(* Locks                                                                   *)

LEMMA LockStep ==
  ASSUME LockoutIInv, [LockoutNext]_lockoutVars, NEW a \in Accounts,
         Locked(accounts[a]), accounts'[a].live, a \notin overrun'
  PROVE  accounts'[a].lock \in {accounts[a].lock, accounts[a].lock - 1} \/ Completes(a)
<1>1. ASSUME accounts'[a] = accounts[a]
      PROVE  accounts'[a].lock \in {accounts[a].lock, accounts[a].lock - 1}
  BY <1>1
<1>2. ASSUME NEW c \in Clients, Serving(c)
      PROVE  accounts'[a] = accounts[a]
  BY <1>2, ServingMeans
<1>3. ASSUME NEW c \in Clients, SaveRow(c)
      PROVE  accounts'[a].lock \in {accounts[a].lock, accounts[a].lock - 1} \/ Completes(a)
  <2> DEFINE q == request[c]
  <2>1. q \in Pending /\ Means(q)
    BY <1>3 DEF LockoutIInv, LockoutTypeOK, RequestsMean, SaveRow, Busy
  <2>2. CASE q.who # a
    BY <1>1, <1>3, <2>2 DEF SaveRow, LockoutIInv, LockoutTypeOK
  <2>3. CASE q.who = a
    <3>1. accounts[a] = q.read /\ accounts'[a] = q.save
      BY <1>3, <2>3 DEF SaveRow, LockoutIInv, LockoutTypeOK
    <3>2. q.op \notin {"right", "wrong", "locks"}
      BY <2>1, <3>1 DEF Means, Locked
    <3>3. q.op \in {"set", "profile", "complete"}
      BY <2>1, <3>2 DEF Pending
    <3>4. CASE q.op \in {"set", "profile"}
      BY <2>1, <3>1, <3>4 DEF Means
    <3>5. CASE q.op = "complete"
      <4>1. request[c] # NoRequest /\ request'[c] = NoRequest
        BY <1>3 DEF SaveRow, End, LockoutIInv, LockoutTypeOK
      <4> QED
        BY <2>3, <3>5, <4>1 DEF Completes
    <3> QED
      BY <3>3, <3>4, <3>5
  <2> QED
    BY <2>2, <2>3
<1>4. ASSUME NEW c \in Clients, SaveRowFails(c) \/ RequestDies(c)
      PROVE  accounts'[a] = accounts[a]
  BY <1>4 DEF SaveRowFails, RequestDies
<1>5. ASSUME NEW b \in Accounts, RemoveAccount(b)
      PROVE  accounts'[a] = accounts[a]
  BY <1>5 DEF RemoveAccount, Gone, LockoutIInv, LockoutTypeOK
<1>6. CASE Tick
  <2>1. accounts'[a] = Less(accounts[a]) /\ accounts[a] \in Row
    BY <1>6 DEF Tick, LockoutIInv, LockoutTypeOK
  <2> QED
    BY <2>1 DEF Less, Row
<1>7. CASE UNCHANGED lockoutVars
  BY <1>1, <1>7 DEF lockoutVars
<1> QED
  BY <1>1, <1>2, <1>3, <1>4, <1>5, <1>6, <1>7 DEF LockoutNext

\* A lock ends by time, or by a new start through Google.
THEOREM LocksLastTheirTime == LockoutSpec => LocksLast
<1>1. LockoutIInv /\ [LockoutNext]_lockoutVars =>
        [\A a \in Accounts :
           Locked(accounts[a]) /\ accounts'[a].live /\ a \notin overrun' =>
             accounts'[a].lock \in {accounts[a].lock, accounts[a].lock - 1}
               \/ Completes(a)]_lockoutVars
  BY LockStep
<1> QED
  BY <1>1, LockoutIInvHolds, PTL DEF LockoutSpec, LocksLast

=============================================================================
