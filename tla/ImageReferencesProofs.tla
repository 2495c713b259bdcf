----------------------- MODULE ImageReferencesProofs -----------------------
(***************************************************************************)
(* For any number of accounts, groups and requests in progress: the types, *)
(* and that the image a row names is in storage.                           *)
(***************************************************************************)
EXTENDS ImageReferences, TLAPS

-----------------------------------------------------------------------------
(* Type correctness                                                        *)

Busy(h) == plan[h] # Idle

\* A job that writes an object, or deletes one, has its key.
JobsNameKeys ==
  \A h \in Handlers : Busy(h) =>
    /\ plan[h].op = "put" => plan[h].new # None
    /\ plan[h].op \in {"clean", "erase"} => plan[h].old # None

TypeInv == TypeOK /\ JobsNameKeys

LEMMA JobIsTyped ==
  ASSUME NEW op \in {"put", "point", "clean", "erase", "delete", "save"},
         NEW o \in Owners, NEW old \in Key, NEW new \in Key
  PROVE  /\ Job(op, o, old, new) \in JobOf
         /\ Job(op, o, old, new) # Idle
BY DEF Job, JobOf, Idle

LEMMA BusyIsTyped ==
  ASSUME TypeOK, NEW h \in Handlers, plan[h].op # "idle"
  PROVE  /\ Busy(h) /\ plan[h] \in JobOf
         /\ plan[h].owner \in Owners /\ plan[h].old \in Key /\ plan[h].new \in Key
         /\ \A op : [plan[h] EXCEPT !.op = op] = Job(op, plan[h].owner, plan[h].old, plan[h].new)
<1>1. plan[h] \in JobOf /\ Busy(h)
  BY DEF TypeOK, Idle, Busy
<1> QED
  BY <1>1 DEF JobOf, Job

\* What a handler may be left with after a step.
Fits(p) ==
  /\ p \in {Idle} \cup JobOf
  /\ p # Idle => /\ p.op = "put" => p.new # None
                 /\ p.op \in {"clean", "erase"} => p.old # None

LEMMA JobFits ==
  ASSUME NEW op \in {"put", "point", "clean", "erase", "delete", "save"},
         NEW o \in Owners, NEW old \in Key, NEW new \in Key,
         op = "put" => new # None, op \in {"clean", "erase"} => old # None
  PROVE  Fits(Job(op, o, old, new))
BY JobIsTyped DEF Fits, Job

LEMMA CleaningFits ==
  ASSUME NEW o \in Owners, NEW k \in Key
  PROVE  Fits(Cleaning(o, k))
<1>1. k = None => Fits(Idle)
  BY DEF Fits
<1>2. k # None => Fits(Job("clean", o, k, None))
  BY JobFits DEF Key
<1> QED
  BY <1>1, <1>2 DEF Cleaning

LEMMA PlanFits ==
  ASSUME TypeInv, NEW h \in Handlers, NEW p, Fits(p), plan' = [plan EXCEPT ![h] = p]
  PROVE  /\ plan' \in [Handlers -> {Idle} \cup JobOf]
         /\ JobsNameKeys'
<1>1. \A g \in Handlers : Fits(plan'[g])
  BY DEF TypeInv, TypeOK, JobsNameKeys, Fits, Busy
<1> QED
  BY <1>1 DEF TypeInv, TypeOK, JobsNameKeys, Fits, Busy

LEMMA KeyFacts ==
  /\ None \in Key /\ Keys \subseteq Key /\ Keys \subseteq Nat
  /\ \A k \in Key : Named(k) \subseteq Keys /\ (k # None => k \in Keys)
  /\ Users \subseteq Owners /\ Groups \subseteq Owners
BY DEF Key, Keys, None, Named, Owners

\* A request is taken in: its job fits, and only the plan and the counters change.
LEMMA BeginStep ==
  ASSUME TypeInv, NEW h \in Handlers, NEW op, NEW job, Fits(job), Begin(h, op, job),
         issued' \in 0..MaxKeys
  PROVE  TypeInv'
<1>1. calls' \in 0..MaxCalls
  BY BoundAssumption DEF Begin, Serve, TypeInv, TypeOK
<1>2. plan' \in [Handlers -> {Idle} \cup JobOf] /\ JobsNameKeys'
  BY PlanFits DEF Begin
<1> QED
  BY <1>1, <1>2 DEF Begin, TypeInv, TypeOK

LEMMA TypeStep == TypeInv /\ [Next]_vars => TypeInv'
<1> SUFFICES ASSUME TypeInv, [Next]_vars PROVE TypeInv'
  OBVIOUS
<1> USE KeyFacts
<1>a. \A o \in Owners : rows[o].key \in Key /\ rows[o] \in [live : BOOLEAN, key : Key]
  BY DEF TypeInv, TypeOK
<1>b. \A h \in Handlers : plan[h].op # "idle" =>
        /\ plan[h].owner \in Owners /\ plan[h].old \in Key /\ plan[h].new \in Key
        /\ \A op : [plan[h] EXCEPT !.op = op] = Job(op, plan[h].owner, plan[h].old, plan[h].new)
        /\ plan[h].op = "put" => plan[h].new \in Keys
        /\ plan[h].op \in {"clean", "erase"} => plan[h].old \in Keys
  BY BusyIsTyped DEF TypeInv, JobsNameKeys, Key
<1>c. Fits(Idle)
  BY DEF Fits
<1>1. ASSUME NEW h \in Handlers, NEW o \in Owners, UploadImage(h, o) PROVE TypeInv'
  <2>1. issued + 1 \in Keys /\ issued' \in 0..MaxKeys
    BY <1>1, BoundAssumption DEF UploadImage, TypeInv, TypeOK, Keys
  <2>2. Fits(Job("put", o, rows[o].key, issued + 1))
    BY <1>a, <2>1, JobFits DEF Keys, None
  <2> QED
    BY <1>1, <2>1, <2>2, BeginStep DEF UploadImage
<1>2. ASSUME NEW h \in Handlers, NEW o \in Owners, RemoveImage(h, o) PROVE TypeInv'
  <2>1. Fits(Job("point", o, rows[o].key, None))
    BY <1>a, JobFits
  <2> QED
    BY <1>2, <2>1, BeginStep DEF RemoveImage, TypeInv, TypeOK
<1>3. ASSUME NEW h \in Handlers, NEW u \in Users, UpdateProfile(h, u) PROVE TypeInv'
  <2>1. Fits(Job("save", u, None, rows[u].key))
    BY <1>a, JobFits
  <2> QED
    BY <1>3, <2>1, BeginStep DEF UpdateProfile, TypeInv, TypeOK
<1>4. ASSUME NEW h \in Handlers, NEW u \in Users, DeleteAccount(h, u) PROVE TypeInv'
  <2>1. Fits(Job(IF rows[u].key = None THEN "delete" ELSE "erase", u, rows[u].key, None))
    BY <1>a, JobFits
  <2> QED
    BY <1>4, <2>1, BeginStep DEF DeleteAccount, TypeInv, TypeOK
<1>5. ASSUME NEW g \in Groups, DeleteGroup(g) PROVE TypeInv'
  <2>1. calls' \in 0..MaxCalls
    BY <1>5, BoundAssumption DEF DeleteGroup, Serve, TypeInv, TypeOK
  <2>2. rows' \in [Owners -> [live : BOOLEAN, key : Key]]
    BY <1>5 DEF DeleteGroup, TypeInv, TypeOK
  <2> QED
    BY <1>5, <2>1, <2>2 DEF DeleteGroup, TypeInv, TypeOK, JobsNameKeys, Busy
<1>6. ASSUME NEW h \in Handlers, PutObject(h) PROVE TypeInv'
  <2>1. plan[h].op = "put" /\ plan[h].new \in Keys
    BY <1>6, <1>b DEF PutObject
  <2>2. [plan EXCEPT ![h].op = "point"] = [plan EXCEPT ![h] = [plan[h] EXCEPT !.op = "point"]]
    OBVIOUS
  <2>3. Fits([plan[h] EXCEPT !.op = "point"])
    BY <2>1, <1>b, JobFits
  <2>4. plan' \in [Handlers -> {Idle} \cup JobOf] /\ JobsNameKeys'
    BY <1>6, <2>2, <2>3, <1>c, PlanFits DEF PutObject, Finish
  <2> QED
    BY <1>6, <2>1, <2>4 DEF PutObject, TypeInv, TypeOK
<1>7. ASSUME NEW h \in Handlers, UpdateImageKey(h) PROVE TypeInv'
  <2>1. plan[h].op = "point"
    BY <1>7 DEF UpdateImageKey
  <2>2. Fits(Cleaning(plan[h].owner, plan[h].old))
    BY <2>1, <1>b, CleaningFits
  <2>3. plan' \in [Handlers -> {Idle} \cup JobOf] /\ JobsNameKeys'
    BY <1>7, <2>2, PlanFits DEF UpdateImageKey
  <2>4. Pointed(plan[h]) \in [Owners -> [live : BOOLEAN, key : Key]]
    BY <2>1, <1>b DEF Pointed, TypeInv, TypeOK
  <2>5. Abandoned(plan[h]) \subseteq Keys
    BY <2>1, <1>a, <1>b DEF Abandoned
  <2> QED
    BY <1>7, <2>3, <2>4, <2>5 DEF UpdateImageKey, TypeInv, TypeOK
<1>8. ASSUME NEW h \in Handlers, UpdateImageKeyFails(h) PROVE TypeInv'
  <2>1. plan[h].op = "point"
    BY <1>8 DEF UpdateImageKeyFails
  <2>2. Fits(RolledBack(plan[h]))
    BY <2>1, <1>b, CleaningFits DEF RolledBack
  <2>3. plan' \in [Handlers -> {Idle} \cup JobOf] /\ JobsNameKeys'
    BY <1>8, <2>2, PlanFits DEF UpdateImageKeyFails
  <2>4. Pointed(plan[h]) \in [Owners -> [live : BOOLEAN, key : Key]]
    BY <2>1, <1>b DEF Pointed, TypeInv, TypeOK
  <2>5. Named(rows[plan[h].owner].key) \subseteq Keys /\ plan[h].owner \in Owners
    BY <2>1, <1>a, <1>b
  <2> QED
    BY <1>8, <2>3, <2>4, <2>5 DEF UpdateImageKeyFails, TypeInv, TypeOK
<1>9. ASSUME NEW h \in Handlers, DeleteObject(h) PROVE TypeInv'
  <2>1. plan[h].old \in Keys
    BY <1>9, <1>b DEF DeleteObject
  <2>2. plan' \in [Handlers -> {Idle} \cup JobOf] /\ JobsNameKeys'
    BY <1>9, <1>c, PlanFits DEF DeleteObject, Finish
  <2> QED
    BY <1>9, <2>1, <2>2 DEF DeleteObject, TypeInv, TypeOK
<1>10. ASSUME NEW h \in Handlers, EraseImage(h) PROVE TypeInv'
  <2>1. plan[h].op = "erase" /\ plan[h].owner \in Owners
    BY <1>10, <1>b DEF EraseImage
  <2>2. [plan EXCEPT ![h].op = "delete"] = [plan EXCEPT ![h] = [plan[h] EXCEPT !.op = "delete"]]
    OBVIOUS
  <2>3. Fits([plan[h] EXCEPT !.op = "delete"])
    BY <2>1, <1>b, JobFits
  <2>4. plan' \in [Handlers -> {Idle} \cup JobOf] /\ JobsNameKeys'
    BY <1>10, <2>2, <2>3, PlanFits DEF EraseImage
  <2> QED
    BY <1>10, <2>1, <2>4 DEF EraseImage, TypeInv, TypeOK
<1>11. ASSUME NEW h \in Handlers, RemoveUser(h) PROVE TypeInv'
  <2>1. plan[h].owner \in Owners
    BY <1>11, <1>b DEF RemoveUser
  <2>2. plan' \in [Handlers -> {Idle} \cup JobOf] /\ JobsNameKeys'
    BY <1>11, <1>c, PlanFits DEF RemoveUser, Finish
  <2>3. [live |-> FALSE, key |-> None] \in [live : BOOLEAN, key : Key]
    OBVIOUS
  <2>4. Named(rows[plan[h].owner].key) \subseteq Keys
    BY <2>1, <1>a
  <2> QED
    BY <1>11, <2>1, <2>2, <2>3, <2>4 DEF RemoveUser, TypeInv, TypeOK
<1>12. ASSUME NEW h \in Handlers, SaveUser(h) PROVE TypeInv'
  <2>1. plan[h].owner \in Owners /\ plan[h].new \in Key
    BY <1>12, <1>b DEF SaveUser
  <2>2. plan' \in [Handlers -> {Idle} \cup JobOf] /\ JobsNameKeys'
    BY <1>12, <1>c, PlanFits DEF SaveUser, Finish
  <2>3. [live |-> TRUE, key |-> plan[h].new] \in [live : BOOLEAN, key : Key]
    BY <2>1
  <2>4. Named(rows[plan[h].owner].key) \subseteq Keys
    BY <2>1, <1>a
  <2> QED
    BY <1>12, <2>1, <2>2, <2>3, <2>4 DEF SaveUser, TypeInv, TypeOK
<1>13. ASSUME NEW h \in Handlers, GiveUp(h) PROVE TypeInv'
  <2>1. plan[h].op # "idle"
    BY <1>13 DEF GiveUp, TypeInv, TypeOK, JobOf
  <2>2. Held(plan[h]) \subseteq Keys
    BY <2>1, <1>b DEF Held
  <2>3. plan' \in [Handlers -> {Idle} \cup JobOf] /\ JobsNameKeys'
    BY <1>13, <1>c, PlanFits DEF GiveUp, Finish
  <2> QED
    BY <1>13, <2>2, <2>3 DEF GiveUp, TypeInv, TypeOK
<1>14. ASSUME UNCHANGED vars PROVE TypeInv'
  BY <1>14 DEF vars, TypeInv, TypeOK, JobsNameKeys, Busy
<1> QED
  BY <1>1, <1>2, <1>3, <1>4, <1>5, <1>6, <1>7, <1>8, <1>9, <1>10, <1>11, <1>12, <1>13, <1>14
  DEF Next, Request, Write

\* Every table and every job in progress keeps its type.
THEOREM TypeCorrect == Spec => []TypeOK
<1>1. Init => TypeInv
  BY BoundAssumption, KeyFacts DEF Init, TypeInv, TypeOK, JobsNameKeys, Busy
<1>2. TypeInv => TypeOK
  BY DEF TypeInv
<1> QED
  BY <1>1, <1>2, TypeStep, PTL DEF Spec

-----------------------------------------------------------------------------
(* The inductive invariant                                                 *)

\* Which owner a key belongs to: a row holds it, or a handler works with it.
Mentions(o, k) ==
  \/ rows[o].key = k
  \/ \E h \in Handlers : Busy(h) /\ plan[h].owner = o /\ k \in {plan[h].old, plan[h].new}

OneOwner ==
  \A k \in Keys : \A o1, o2 \in Owners : Mentions(o1, k) /\ Mentions(o2, k) => o1 = o2

KeysIssued == \A o \in Owners : \A k \in Keys : Mentions(o, k) => k <= issued

\* The key of an upload in progress is in no row yet, and known to no other
\* handler.
Uploading(h) == Busy(h) /\ plan[h].op \in {"put", "point"} /\ plan[h].new # None
Private(h) ==
  /\ plan[h].old # plan[h].new
  /\ \A o \in Owners : rows[o].key # plan[h].new
  /\ \A g \in Handlers \ {h} : Busy(g) => plan[h].new \notin {plan[g].old, plan[g].new}

NewIsPrivate == \A h \in Handlers : Uploading(h) => Private(h)
NewIsStored ==
  \A h \in Handlers : Uploading(h) /\ plan[h].op = "point" => plan[h].new \in objects

\* What is about to be deleted is named by no row that counts.
OldIsReleased ==
  \A h \in Handlers : Busy(h) /\ plan[h].op = "clean" =>
    \A o \in Owners \ doubtful : rows[o].live => rows[o].key # plan[h].old

KeysInv == OneOwner /\ KeysIssued /\ NewIsPrivate
StorageInv == NewIsStored /\ OldIsReleased /\ ImagesResolve
IInv == TypeInv /\ KeysInv /\ StorageInv

-----------------------------------------------------------------------------
(* Whose a key is                                                          *)

\* A step of one handler that brings no new key into play.
KeysOf(h) == IF Busy(h) THEN {plan[h].old, plan[h].new} ELSE {}
Inherits(h) ==
  /\ \A g \in Handlers \ {h} : plan'[g] = plan[g]
  /\ \A o \in Owners : \/ rows'[o].key \in {None, rows[o].key}
                       \/ Busy(h) /\ o = plan[h].owner /\ rows'[o].key \in KeysOf(h)
  /\ Busy(h)' => \A k \in KeysOf(h)' :
       \/ k \in {None, rows[plan'[h].owner].key}
       \/ Busy(h) /\ plan'[h].owner = plan[h].owner /\ k \in KeysOf(h)

LEMMA MentionsInherited ==
  ASSUME NEW h \in Handlers, Inherits(h)
  PROVE  \A o \in Owners : \A k \in Keys : Mentions(o, k)' => Mentions(o, k)
<1> SUFFICES ASSUME NEW o \in Owners, NEW k \in Keys, Mentions(o, k)' PROVE Mentions(o, k)
  OBVIOUS
<1>1. k # None
  BY DEF Keys, None
<1>2. CASE rows'[o].key = k
  BY <1>1, <1>2 DEF Inherits, KeysOf, Mentions
<1>3. ASSUME NEW g \in Handlers, Busy(g)', plan'[g].owner = o, k \in {plan'[g].old, plan'[g].new}
      PROVE  Mentions(o, k)
  <2>1. CASE g = h
    BY <1>1, <1>3, <2>1 DEF Inherits, KeysOf, Mentions
  <2>2. CASE g # h
    BY <1>3, <2>2 DEF Inherits, Mentions, Busy
  <2> QED
    BY <2>1, <2>2
<1> QED
  BY <1>2, <1>3 DEF Mentions

LEMMA Inherited ==
  ASSUME TypeInv, TypeInv', KeysInv, NEW h \in Handlers, Inherits(h), issued' = issued,
         Uploading(h)' => Private(h)'
  PROVE  KeysInv'
<1>1. OneOwner' /\ KeysIssued'
  BY MentionsInherited DEF KeysInv, OneOwner, KeysIssued
<1>2. ASSUME NEW g \in Handlers \ {h}, Uploading(g)' PROVE Private(g)'
  <2>1. plan'[g] = plan[g] /\ Uploading(g) /\ Private(g) /\ plan[g].new # None
    BY <1>2 DEF Inherits, Uploading, Busy, KeysInv, NewIsPrivate
  <2>2. Busy(h) => plan[g].new \notin KeysOf(h)
    BY <2>1 DEF Private, KeysOf
  <2>3. \A o \in Owners : rows'[o].key # plan[g].new
    BY <2>1, <2>2 DEF Inherits, Private
  <2>4. ASSUME NEW f \in Handlers \ {g, h}, Busy(f)'
        PROVE  plan[g].new \notin {plan'[f].old, plan'[f].new}
    BY <2>1, <2>4 DEF Inherits, Busy, Private
  <2>5. ASSUME Busy(h)' PROVE plan[g].new \notin {plan'[h].old, plan'[h].new}
    <3>1. plan'[h].owner \in Owners
      BY <2>5 DEF TypeInv, TypeOK, Busy, JobOf
    <3>2. rows[plan'[h].owner].key # plan[g].new
      BY <2>1, <3>1 DEF Private
    <3> QED
      BY <2>1, <2>2, <2>5, <3>2 DEF Inherits, KeysOf
  <2> QED
    BY <2>1, <2>3, <2>4, <2>5 DEF Private
<1> QED
  BY <1>1, <1>2 DEF KeysInv, NewIsPrivate

-----------------------------------------------------------------------------
(* What is in storage                                                      *)

\* A step that changes no row and no object, and leaves its handler with
\* nothing to write or to delete.
LEMMA Quiet ==
  ASSUME TypeInv, StorageInv, NEW h \in Handlers,
         \A g \in Handlers \ {h} : plan'[g] = plan[g],
         UNCHANGED <<rows, objects, doubtful>>,
         Uploading(h)' => plan'[h].op = "put",
         Busy(h)' => plan'[h].op # "clean"
  PROVE  StorageInv'
<1>1. NewIsStored'
  BY DEF StorageInv, NewIsStored, Uploading, Busy
<1>2. OldIsReleased'
  BY DEF StorageInv, OldIsReleased, Busy
<1>3. ImagesResolve'
  BY DEF StorageInv, ImagesResolve
<1> QED
  BY <1>1, <1>2, <1>3 DEF StorageInv

\* Deleting a key that no row which counts holds, and that no other handler is
\* uploading.
LEMMA Deleted ==
  ASSUME TypeInv, KeysInv, StorageInv, NEW h \in Handlers, Busy(h), plan[h].old # None,
         plan[h].op \notin {"put", "point"},
         \A g \in Handlers \ {h} : plan'[g] = plan[g],
         objects' \in {objects, objects \ {plan[h].old}}, rows' = rows,
         doubtful \subseteq doubtful',
         \A o \in Owners \ doubtful' : rows[o].live => rows[o].key # plan[h].old,
         Busy(h)' => plan'[h].op \notin {"put", "point", "clean"}
  PROVE  StorageInv'
<1>1. NewIsStored'
  <2> SUFFICES ASSUME NEW g \in Handlers, Uploading(g)', plan'[g].op = "point"
               PROVE  plan'[g].new \in objects'
    BY DEF NewIsStored
  <2>1. g # h /\ plan'[g] = plan[g] /\ Uploading(g)
    BY DEF Uploading, Busy
  <2>2. plan[g].new \in objects /\ Private(g)
    BY <2>1 DEF StorageInv, NewIsStored, KeysInv, NewIsPrivate
  <2> QED
    BY <2>1, <2>2 DEF Private
<1>2. OldIsReleased'
  BY DEF StorageInv, OldIsReleased, Busy
<1>3. ImagesResolve'
  BY DEF StorageInv, ImagesResolve
<1> QED
  BY <1>1, <1>2, <1>3 DEF StorageInv

-----------------------------------------------------------------------------
(* The invariant                                                           *)

LEMMA InitHolds == Init => IInv
<1> SUFFICES ASSUME Init PROVE IInv
  OBVIOUS
<1>1. TypeInv
  BY BoundAssumption, KeyFacts DEF Init, TypeInv, TypeOK, JobsNameKeys, Busy
<1>2. \A o \in Owners : \A k \in Keys : ~Mentions(o, k)
  BY DEF Init, Mentions, Busy, Keys, None
<1>3. KeysInv
  BY <1>2 DEF Init, KeysInv, OneOwner, KeysIssued, NewIsPrivate, Uploading, Busy
<1>4. StorageInv
  BY DEF Init, StorageInv, NewIsStored, OldIsReleased, ImagesResolve, Uploading, Busy
<1> QED
  BY <1>1, <1>3, <1>4 DEF IInv

\* The key of a new upload is known to nobody.
LEMMA UploadStep ==
  ASSUME IInv, TypeInv', NEW h \in Handlers, NEW o \in Owners, UploadImage(h, o)
  PROVE  IInv'
<1>1. /\ plan'[h] = Job("put", o, rows[o].key, issued + 1) /\ ~Busy(h)
      /\ \A g \in Handlers \ {h} : plan'[g] = plan[g]
      /\ rows' = rows /\ issued' = issued + 1
  BY DEF UploadImage, Begin, Busy, IInv, TypeInv, TypeOK
<1>2. /\ plan'[h].op = "put" /\ plan'[h].owner = o /\ plan'[h].old = rows[o].key
      /\ plan'[h].new = issued + 1
  BY <1>1 DEF Job
<1>3. issued \in Nat /\ issued + 1 \in Keys /\ issued + 1 # None
  BY BoundAssumption DEF UploadImage, IInv, TypeInv, TypeOK, Keys, None
<1>4. \A a \in Owners : ~Mentions(a, issued + 1)
  BY <1>3 DEF IInv, KeysInv, KeysIssued
<1>5. \A a \in Owners : \A k \in Keys : Mentions(a, k)' => Mentions(a, k) \/ (a = o /\ k = issued + 1)
  BY <1>1, <1>2 DEF Mentions, Busy
<1>6. OneOwner' /\ KeysIssued'
  <2>1. OneOwner'
    BY <1>4, <1>5 DEF IInv, KeysInv, OneOwner
  <2>2. \A k \in Keys : k \in Int
    BY DEF Keys
  <2>3. KeysIssued'
    BY <1>1, <1>3, <1>5, <2>2 DEF IInv, KeysInv, KeysIssued
  <2> QED
    BY <2>1, <2>3
<1>7. NewIsPrivate'
  <2>1. Private(h)'
    <3>1. \A a \in Owners : rows[a].key # issued + 1
      BY <1>4 DEF Mentions
    <3>2. ASSUME NEW g \in Handlers, Busy(g) PROVE issued + 1 \notin {plan[g].old, plan[g].new}
      <4>1. plan[g].owner \in Owners
        BY <3>2 DEF IInv, TypeInv, TypeOK, Busy, JobOf
      <4> QED
        BY <1>4, <3>2, <4>1 DEF Mentions
    <3> QED
      BY <1>1, <1>2, <3>1, <3>2 DEF Private, Busy
  <2>2. ASSUME NEW g \in Handlers \ {h}, Uploading(g)' PROVE Private(g)'
    <3>1. plan'[g] = plan[g] /\ Uploading(g) /\ Private(g)
      BY <1>1, <2>2 DEF Uploading, Busy, IInv, KeysInv, NewIsPrivate
    <3>2. plan[g].new # issued + 1
      <4>1. plan[g].owner \in Owners
        BY <3>1 DEF IInv, TypeInv, TypeOK, Uploading, Busy, JobOf
      <4> QED
        BY <1>4, <3>1, <4>1 DEF Mentions, Uploading
    <3> QED
      BY <1>1, <1>2, <3>1, <3>2 DEF Private, Busy
  <2> QED
    BY <2>1, <2>2 DEF NewIsPrivate
<1>8. StorageInv'
  BY <1>1, <1>2, Quiet DEF IInv, UploadImage, Begin
<1> QED
  BY <1>6, <1>7, <1>8 DEF IInv, KeysInv

\* The other requests only note the key they read.
LEMMA RequestStep ==
  ASSUME IInv, TypeInv', NEW h \in Handlers, NEW o \in Owners, NEW op, NEW job,
         Begin(h, op, job), issued' = issued, job \in JobOf, job.owner = o,
         job.op \notin {"put", "clean"}, job.op = "point" => job.new = None,
         {job.old, job.new} \subseteq {None, rows[o].key}
  PROVE  IInv'
<1>1. /\ plan'[h] = job
      /\ \A g \in Handlers \ {h} : plan'[g] = plan[g]
      /\ UNCHANGED <<rows, objects, doubtful>>
  BY DEF Begin, IInv, TypeInv, TypeOK
<1>2. ~Uploading(h)'
  BY <1>1 DEF Uploading
<1>3. Inherits(h)
  BY <1>1 DEF Inherits, KeysOf
<1>4. KeysInv'
  BY <1>2, <1>3, Inherited DEF IInv
<1>5. StorageInv'
  BY <1>1, <1>2, Quiet DEF IInv
<1> QED
  BY <1>4, <1>5 DEF IInv

LEMMA PutStep ==
  ASSUME IInv, TypeInv', NEW h \in Handlers, PutObject(h)
  PROVE  IInv'
<1>1. plan[h].op = "put" /\ Busy(h) /\ plan[h].new # None
  BY BusyIsTyped DEF PutObject, IInv, TypeInv, JobsNameKeys
<1>2. /\ \A g \in Handlers \ {h} : plan'[g] = plan[g]
      /\ \/ plan'[h] = Idle
         \/ plan'[h] = [plan[h] EXCEPT !.op = "point"] /\ plan[h].new \in objects'
      /\ UNCHANGED <<rows, issued, doubtful>> /\ objects \subseteq objects'
  BY DEF PutObject, Finish, IInv, TypeInv, TypeOK
<1>3. Busy(h)' =>
        /\ plan'[h].op = "point" /\ plan'[h].owner = plan[h].owner
        /\ plan'[h].old = plan[h].old /\ plan'[h].new = plan[h].new
  BY <1>1, <1>2, BusyIsTyped DEF Busy, IInv, TypeInv, Job
<1>4. Inherits(h)
  BY <1>1, <1>2, <1>3 DEF Inherits, KeysOf
<1>5. Private(h)
  BY <1>1 DEF IInv, KeysInv, NewIsPrivate, Uploading
<1>6. Uploading(h)' => Private(h)'
  BY <1>2, <1>3, <1>5 DEF Private, Uploading, Busy
<1>7. KeysInv'
  BY <1>2, <1>4, <1>6, Inherited DEF IInv
<1>8. NewIsStored'
  BY <1>2, <1>3 DEF IInv, StorageInv, NewIsStored, Uploading, Busy
<1>9. OldIsReleased'
  BY <1>2, <1>3 DEF IInv, StorageInv, OldIsReleased, Busy
<1>10. ImagesResolve'
  BY <1>2 DEF IInv, StorageInv, ImagesResolve
<1> QED
  BY <1>7, <1>8, <1>9, <1>10 DEF IInv, StorageInv

\* The row takes the new key: nobody is about to delete that one, and the old
\* one is no longer in any row that counts.
LEMMA PointStep ==
  ASSUME IInv, TypeInv', NEW h \in Handlers, UpdateImageKey(h)
  PROVE  IInv'
<1> DEFINE o == plan[h].owner
           old == plan[h].old
           new == plan[h].new
<1>1. plan[h].op = "point" /\ Busy(h) /\ o \in Owners /\ old \in Key /\ new \in Key
  BY BusyIsTyped DEF UpdateImageKey, IInv, TypeInv
<1>2. /\ \A g \in Handlers \ {h} : plan'[g] = plan[g]
      /\ plan'[h] = Cleaning(o, old)
      /\ UNCHANGED <<issued, objects>>
  BY DEF UpdateImageKey, IInv, TypeInv, TypeOK
<1>3. /\ \A a \in Owners \ {o} : rows'[a] = rows[a]
      /\ rows[o].live => rows'[o].key = new
      /\ ~rows[o].live => rows'[o] = rows[o]
      /\ doubtful' = IF rows[o].live THEN doubtful \ {o} ELSE doubtful
      /\ rows'[o].live = rows[o].live
  BY <1>1 DEF UpdateImageKey, Pointed, IInv, TypeInv, TypeOK
<1>4. Busy(h)' =>
        /\ plan'[h].op = "clean" /\ plan'[h].owner = o /\ old # None
        /\ plan'[h].old = old /\ plan'[h].new = None
  BY <1>2 DEF Busy, Cleaning, Job
<1>5. new # None => Private(h) /\ new \in objects
  BY <1>1 DEF IInv, KeysInv, NewIsPrivate, StorageInv, NewIsStored, Uploading
<1>6. Inherits(h)
  <2>1. KeysOf(h) = {old, new} /\ KeysOf(h)' \subseteq {old, None}
    BY <1>1, <1>4 DEF KeysOf
  <2> QED
    BY <1>1, <1>2, <1>3, <1>4, <2>1 DEF Inherits
<1>7. KeysInv'
  BY <1>2, <1>4, <1>6, Inherited DEF IInv, Uploading
<1>8. NewIsStored'
  BY <1>2, <1>4 DEF IInv, StorageInv, NewIsStored, Uploading, Busy
<1>9. OldIsReleased'
  <2> SUFFICES ASSUME NEW g \in Handlers, Busy(g)', plan'[g].op = "clean",
                      NEW a \in Owners \ doubtful', rows'[a].live
               PROVE  rows'[a].key # plan'[g].old
    BY DEF OldIsReleased
  <2>1. CASE g = h
    <3>1. old \in Keys /\ Mentions(o, old)
      BY <1>1, <1>4, <2>1, KeyFacts DEF Mentions
    <3>2. CASE a = o
      BY <1>3, <1>4, <1>5, <2>1, <3>2 DEF Private
    <3>3. CASE a # o
      BY <1>1, <1>3, <1>4, <2>1, <3>1, <3>3 DEF Mentions, IInv, KeysInv, OneOwner
    <3> QED
      BY <3>2, <3>3
  <2>2. CASE g # h
    <3>1. plan'[g] = plan[g] /\ Busy(g) /\ plan[g].old # None
      BY <1>2, <2>2 DEF Busy, IInv, TypeInv, JobsNameKeys
    <3>2. CASE a = o
      BY <1>3, <1>5, <2>2, <3>1, <3>2 DEF Private
    <3>3. CASE a # o
      BY <1>3, <3>1, <3>3 DEF IInv, StorageInv, OldIsReleased
    <3> QED
      BY <3>2, <3>3
  <2> QED
    BY <2>1, <2>2
<1>10. ImagesResolve'
  BY <1>1, <1>2, <1>3, <1>5 DEF IInv, StorageInv, ImagesResolve
<1> QED
  BY <1>7, <1>8, <1>9, <1>10 DEF IInv, StorageInv

\* After an error the new key is given back: no row that counts has it.
LEMMA PointFailsStep ==
  ASSUME IInv, TypeInv', NEW h \in Handlers, UpdateImageKeyFails(h)
  PROVE  IInv'
<1> DEFINE o == plan[h].owner
           new == plan[h].new
<1>1. plan[h].op = "point" /\ Busy(h) /\ o \in Owners /\ new \in Key
  BY BusyIsTyped DEF UpdateImageKeyFails, IInv, TypeInv
<1>2. /\ \A g \in Handlers \ {h} : plan'[g] = plan[g]
      /\ plan'[h] = Cleaning(o, new)
      /\ UNCHANGED <<issued, objects>>
  BY DEF UpdateImageKeyFails, RolledBack, IInv, TypeInv, TypeOK
<1>3. /\ \A a \in Owners \ {o} : rows'[a] = rows[a]
      /\ rows'[o].key \in {rows[o].key, new}
      /\ doubtful \subseteq doubtful'
      /\ rows' = rows \/ o \in doubtful'
  BY <1>1 DEF UpdateImageKeyFails, Pointed, IInv, TypeInv, TypeOK
<1>4. Busy(h)' =>
        /\ plan'[h].op = "clean" /\ plan'[h].owner = o /\ new # None
        /\ plan'[h].old = new /\ plan'[h].new = None
  BY <1>2 DEF Busy, Cleaning, Job
<1>5. new # None => Private(h)
  BY <1>1 DEF IInv, KeysInv, NewIsPrivate, Uploading
<1>6. Inherits(h)
  <2>1. KeysOf(h) = {plan[h].old, new} /\ KeysOf(h)' \subseteq {new, None}
    BY <1>1, <1>4 DEF KeysOf
  <2> QED
    BY <1>1, <1>2, <1>3, <1>4, <2>1 DEF Inherits
<1>7. KeysInv'
  BY <1>2, <1>4, <1>6, Inherited DEF IInv, Uploading
<1>8. NewIsStored'
  BY <1>2, <1>4 DEF IInv, StorageInv, NewIsStored, Uploading, Busy
<1>9. OldIsReleased'
  <2> SUFFICES ASSUME NEW g \in Handlers, Busy(g)', plan'[g].op = "clean",
                      NEW a \in Owners \ doubtful', rows'[a].live
               PROVE  rows'[a].key # plan'[g].old
    BY DEF OldIsReleased
  <2>1. rows'[a] = rows[a] /\ a \notin doubtful
    BY <1>3
  <2>2. CASE g = h
    BY <1>4, <1>5, <2>1, <2>2 DEF Private
  <2>3. CASE g # h
    BY <1>2, <2>1, <2>3 DEF IInv, StorageInv, OldIsReleased, Busy
  <2> QED
    BY <2>2, <2>3
<1>10. ImagesResolve'
  BY <1>2, <1>3 DEF IInv, StorageInv, ImagesResolve
<1> QED
  BY <1>7, <1>8, <1>9, <1>10 DEF IInv, StorageInv

LEMMA DeleteObjectStep ==
  ASSUME IInv, TypeInv', NEW h \in Handlers, DeleteObject(h)
  PROVE  IInv'
<1>1. plan[h].op = "clean" /\ Busy(h) /\ plan[h].old # None
  BY BusyIsTyped DEF DeleteObject, IInv, TypeInv, JobsNameKeys
<1>2. /\ \A g \in Handlers \ {h} : plan'[g] = plan[g]
      /\ plan'[h] = Idle
      /\ UNCHANGED <<rows, issued, doubtful>>
      /\ objects' \in {objects, objects \ {plan[h].old}}
  BY DEF DeleteObject, Finish, IInv, TypeInv, TypeOK
<1>3. Inherits(h) /\ ~Uploading(h)'
  BY <1>2 DEF Inherits, Uploading, Busy
<1>4. KeysInv'
  BY <1>2, <1>3, Inherited DEF IInv
<1>5. \A o \in Owners \ doubtful : rows[o].live => rows[o].key # plan[h].old
  BY <1>1 DEF IInv, StorageInv, OldIsReleased
<1>6. StorageInv'
  BY <1>1, <1>2, <1>5, Deleted DEF IInv, Busy
<1> QED
  BY <1>4, <1>6 DEF IInv

\* The image of an account that is being deleted: no other row has it.
LEMMA EraseStep ==
  ASSUME IInv, TypeInv', NEW h \in Handlers, EraseImage(h)
  PROVE  IInv'
<1> DEFINE o == plan[h].owner
           old == plan[h].old
<1>1. plan[h].op = "erase" /\ Busy(h) /\ old # None /\ old \in Keys /\ o \in Owners
  BY BusyIsTyped, KeyFacts DEF EraseImage, IInv, TypeInv, JobsNameKeys
<1>2. /\ \A g \in Handlers \ {h} : plan'[g] = plan[g]
      /\ plan'[h] = [plan[h] EXCEPT !.op = "delete"]
      /\ UNCHANGED <<rows, issued>> /\ doubtful' = doubtful \cup {o}
      /\ objects' \in {objects, objects \ {old}}
  BY DEF EraseImage, IInv, TypeInv, TypeOK
<1>3. /\ plan'[h].op = "delete" /\ plan'[h].owner = o
      /\ plan'[h].old = old /\ plan'[h].new = plan[h].new
  BY <1>1, <1>2, BusyIsTyped DEF IInv, TypeInv, Job
<1>4. Inherits(h) /\ ~Uploading(h)'
  BY <1>1, <1>2, <1>3 DEF Inherits, KeysOf, Uploading
<1>5. KeysInv'
  BY <1>2, <1>4, Inherited DEF IInv
<1>6. \A a \in Owners \ doubtful' : rows[a].key # old
  BY <1>1, <1>2 DEF IInv, KeysInv, OneOwner, Mentions
<1>7. StorageInv'
  BY <1>1, <1>2, <1>3, <1>6, Deleted DEF IInv
<1> QED
  BY <1>5, <1>7 DEF IInv

\* A row is removed or written back as it was read: a change of its key makes
\* the row doubtful, or clears the key.
LEMMA RowStep ==
  ASSUME IInv, TypeInv', NEW h \in Handlers, RemoveUser(h) \/ SaveUser(h)
  PROVE  IInv'
<1> DEFINE o == plan[h].owner
<1>1. plan[h].op \in {"delete", "save"} /\ Busy(h) /\ o \in Owners
  BY BusyIsTyped DEF RemoveUser, SaveUser, IInv, TypeInv
<1>2. /\ \A g \in Handlers \ {h} : plan'[g] = plan[g]
      /\ plan'[h] = Idle
      /\ UNCHANGED <<issued, objects>> /\ doubtful \subseteq doubtful'
      /\ \A a \in Owners \ {o} : rows'[a] = rows[a]
      /\ rows'[o].key \in {None, plan[h].new}
      /\ rows' = rows \/ ~rows'[o].live \/ o \in doubtful'
  BY <1>1 DEF RemoveUser, SaveUser, Finish, IInv, TypeInv, TypeOK
<1>3. Inherits(h) /\ ~Uploading(h)'
  BY <1>1, <1>2 DEF Inherits, KeysOf, Uploading, Busy
<1>4. KeysInv'
  BY <1>2, <1>3, Inherited DEF IInv
<1>5. \A a \in Owners \ doubtful' : rows'[a].live => rows'[a] = rows[a] /\ a \notin doubtful
  BY <1>2
<1>6. NewIsStored'
  BY <1>2 DEF IInv, StorageInv, NewIsStored, Uploading, Busy
<1>7. OldIsReleased'
  BY <1>2, <1>5 DEF IInv, StorageInv, OldIsReleased, Busy
<1>8. ImagesResolve'
  BY <1>2, <1>5 DEF IInv, StorageInv, ImagesResolve
<1> QED
  BY <1>4, <1>6, <1>7, <1>8 DEF IInv, StorageInv

LEMMA GiveUpStep ==
  ASSUME IInv, TypeInv', NEW h \in Handlers, GiveUp(h)
  PROVE  IInv'
<1>1. /\ \A g \in Handlers \ {h} : plan'[g] = plan[g]
      /\ plan'[h] = Idle
      /\ UNCHANGED <<rows, issued, objects, doubtful>>
  BY DEF GiveUp, Finish, IInv, TypeInv, TypeOK
<1>2. Inherits(h) /\ ~Uploading(h)' /\ ~Busy(h)'
  BY <1>1 DEF Inherits, Uploading, Busy
<1> QED
  BY <1>1, <1>2, Inherited, Quiet DEF IInv

\* A deleted group keeps its key, and only stops to count.
LEMMA DeleteGroupStep ==
  ASSUME IInv, TypeInv', NEW g \in Groups, DeleteGroup(g)
  PROVE  IInv'
<1>1. /\ \A o \in Owners : rows'[o].key = rows[o].key /\ (rows'[o].live => rows[o].live)
      /\ UNCHANGED <<objects, issued, plan, doubtful>>
  BY KeyFacts DEF DeleteGroup, IInv, TypeInv, TypeOK
<1>2. KeysInv'
  BY <1>1 DEF IInv, KeysInv, OneOwner, KeysIssued, NewIsPrivate, Private, Uploading, Mentions, Busy
<1>3. StorageInv'
  BY <1>1 DEF IInv, StorageInv, NewIsStored, OldIsReleased, ImagesResolve, Uploading, Busy
<1> QED
  BY <1>2, <1>3 DEF IInv

LEMMA InvStep == IInv /\ [Next]_vars => IInv'
<1> SUFFICES ASSUME IInv, [Next]_vars PROVE IInv'
  OBVIOUS
<1>0. TypeInv /\ TypeInv'
  BY TypeStep DEF IInv
<1>a. \A o \in Owners : rows[o].key \in Key
  BY <1>0 DEF TypeInv, TypeOK
<1>1. ASSUME NEW h \in Handlers, NEW o \in Owners, UploadImage(h, o) PROVE IInv'
  BY <1>0, <1>1, UploadStep
<1>2. ASSUME NEW h \in Handlers, NEW o \in Owners, RemoveImage(h, o) PROVE IInv'
  <2> DEFINE job == Job("point", o, rows[o].key, None)
  <2>1. Begin(h, "remove", job) /\ issued' = issued
    BY <1>2 DEF RemoveImage
  <2>2. job \in JobOf /\ job.owner = o /\ job.op = "point" /\ job.old = rows[o].key /\ job.new = None
    BY <1>a, JobIsTyped, KeyFacts DEF Job
  <2> HIDE DEF job
  <2> QED
    BY <1>0, <2>1, <2>2, RequestStep
<1>3. ASSUME NEW h \in Handlers, NEW u \in Users, UpdateProfile(h, u) PROVE IInv'
  <2> DEFINE job == Job("save", u, None, rows[u].key)
  <2>1. Begin(h, "profile", job) /\ issued' = issued /\ u \in Owners
    BY <1>3, KeyFacts DEF UpdateProfile
  <2>2. job \in JobOf /\ job.owner = u /\ job.op = "save" /\ job.old = None /\ job.new = rows[u].key
    BY <1>a, <2>1, JobIsTyped, KeyFacts DEF Job
  <2> HIDE DEF job
  <2> QED
    BY <1>0, <2>1, <2>2, RequestStep
<1>4. ASSUME NEW h \in Handlers, NEW u \in Users, DeleteAccount(h, u) PROVE IInv'
  <2> DEFINE job == Job(IF rows[u].key = None THEN "delete" ELSE "erase", u, rows[u].key, None)
  <2>1. Begin(h, "account", job) /\ issued' = issued /\ u \in Owners
    BY <1>4, KeyFacts DEF DeleteAccount
  <2>2. /\ job \in JobOf /\ job.owner = u /\ job.op \in {"delete", "erase"}
        /\ job.old = rows[u].key /\ job.new = None
    BY <1>a, <2>1, JobIsTyped, KeyFacts DEF Job
  <2> HIDE DEF job
  <2> QED
    BY <1>0, <2>1, <2>2, RequestStep
<1>5. ASSUME NEW h \in Handlers, Write(h) PROVE IInv'
  BY <1>0, <1>5, PutStep, PointStep, PointFailsStep, DeleteObjectStep, EraseStep, RowStep, GiveUpStep
  DEF Write
<1>6. ASSUME NEW g \in Groups, DeleteGroup(g) PROVE IInv'
  BY <1>0, <1>6, DeleteGroupStep
<1>7. ASSUME UNCHANGED vars PROVE IInv'
  <2>1. KeysInv'
    BY <1>7 DEF vars, IInv, KeysInv, OneOwner, KeysIssued, NewIsPrivate, Private, Uploading, Mentions, Busy
  <2>2. StorageInv'
    BY <1>7 DEF vars, IInv, StorageInv, NewIsStored, OldIsReleased, ImagesResolve, Uploading, Busy
  <2> QED
    BY <1>0, <2>1, <2>2 DEF IInv
<1> QED
  BY <1>1, <1>2, <1>3, <1>4, <1>5, <1>6, <1>7 DEF Next, Request

\* The image a live row names is in storage, however uploads, removals and
\* deletions of any number of handlers overlap and fail.
THEOREM ReferencesResolve == Spec => []ImagesResolve
<1>1. IInv => ImagesResolve
  BY DEF IInv, StorageInv
<1> QED
  BY <1>1, InitHolds, InvStep, PTL DEF Spec

-----------------------------------------------------------------------------
(* Orphans                                                                 *)

\* What a row names, and will name, or a handler would have seen to.
InRow(k) == \E o \in Owners : rows[o].key = k
StaysInRow(k) == \E o \in Owners : rows'[o].key = k
Vouched(k) == InRow(k) \/ \E h \in Handlers : k \in Held(plan[h])

\* A step of one handler keeps the account when all it lets go of is leaked,
\* deleted or named elsewhere, and all it puts in storage is held.
LEMMA AccountKept ==
  ASSUME OrphansAreAccounted, NEW h \in Handlers,
         \A g \in Handlers \ {h} : plan'[g] = plan[g],
         leaked \subseteq leaked',
         objects' \subseteq objects \cup leaked' \cup Held(plan'[h]),
         \A o \in Owners : \/ StaysInRow(rows[o].key)
                           \/ rows[o].key \in {None} \cup leaked' \cup Held(plan'[h]),
         \A k \in Held(plan[h]) :
           k \notin objects' \/ StaysInRow(k) \/ k \in leaked' \cup Held(plan'[h]),
         objects' \subseteq Keys
  PROVE  OrphansAreAccounted'
<1> SUFFICES ASSUME NEW k \in objects' \ leaked' PROVE Vouched(k)'
  BY DEF OrphansAreAccounted, Vouched, InRow
<1>1. k # None
  BY DEF Keys, None
<1>2. CASE k \in Held(plan'[h])
  BY <1>2 DEF Vouched
<1>3. CASE k \in objects \ leaked
  <2>1. Vouched(k)
    BY <1>3 DEF OrphansAreAccounted, Vouched, InRow
  <2>2. CASE InRow(k)
    BY <1>1, <1>2, <2>2 DEF Vouched, InRow, StaysInRow
  <2>3. ASSUME NEW g \in Handlers, k \in Held(plan[g]) PROVE Vouched(k)'
    <3>1. CASE g = h
      BY <1>2, <2>3, <3>1 DEF Vouched, InRow, StaysInRow
    <3>2. CASE g # h
      BY <2>3, <3>2 DEF Vouched
    <3> QED
      BY <3>1, <3>2
  <2> QED
    BY <2>1, <2>2, <2>3 DEF Vouched
<1> QED
  BY <1>2, <1>3

LEMMA HeldFacts ==
  /\ Held(Idle) = {}
  /\ \A o \in Owners, k \in Key : Held(Cleaning(o, k)) = Named(k)
  /\ \A op \in {"put", "point", "clean", "erase", "delete", "save"},
       o \in Owners, old, new \in Key :
       /\ op \in {"put", "point"} => Held(Job(op, o, old, new)) = Named(new)
       /\ op = "clean" => Held(Job(op, o, old, new)) = {old}
       /\ op \in {"erase", "delete", "save"} => Held(Job(op, o, old, new)) = {}
BY DEF Held, Idle, Cleaning, Job, Named

LEMMA AccountStep == TypeInv /\ OrphansAreAccounted /\ [Next]_vars => OrphansAreAccounted'
<1> SUFFICES ASSUME TypeInv, OrphansAreAccounted, [Next]_vars PROVE OrphansAreAccounted'
  OBVIOUS
<1> USE KeyFacts, HeldFacts
<1>a. TypeInv'
  BY TypeStep
<1>b. \A o \in Owners : rows[o].key \in Key /\ rows[o] \in [live : BOOLEAN, key : Key]
  BY DEF TypeInv, TypeOK
<1>c. ASSUME NEW h \in Handlers, plan[h].op # "idle"
      PROVE  /\ plan[h] = Job(plan[h].op, plan[h].owner, plan[h].old, plan[h].new)
             /\ plan[h].op \in {"put", "point", "clean", "erase", "delete", "save"}
             /\ plan[h].owner \in Owners /\ plan[h].old \in Key /\ plan[h].new \in Key
  <2>1. plan[h] \in JobOf
    BY <1>c, BusyIsTyped DEF TypeInv
  <2> QED
    BY <2>1 DEF JobOf, Job
<1>d. objects' \subseteq Keys /\ rows \in [Owners -> [live : BOOLEAN, key : Key]]
  BY <1>a DEF TypeInv, TypeOK
<1>e. DOMAIN plan = Handlers
  BY DEF TypeInv, TypeOK
\* A request is taken in by a handler that held nothing.
<1>1. ASSUME NEW h \in Handlers, NEW op, NEW job, Begin(h, op, job)
      PROVE  OrphansAreAccounted'
  <2>1. /\ plan[h] = Idle /\ UNCHANGED <<rows, objects, leaked>>
        /\ \A g \in Handlers \ {h} : plan'[g] = plan[g]
    BY <1>1, <1>e DEF Begin
  <2>2. \A o \in Owners : StaysInRow(rows[o].key)
    BY <2>1 DEF StaysInRow
  <2> QED
    BY <1>d, <2>1, <2>2, AccountKept
<1>2. ASSUME NEW h \in Handlers, Request(h) PROVE OrphansAreAccounted'
  BY <1>1, <1>2 DEF Request, UploadImage, RemoveImage, UpdateProfile, DeleteAccount
<1>3. ASSUME NEW g \in Groups, DeleteGroup(g) PROVE OrphansAreAccounted'
  <2>1. \A o \in Owners : rows'[o].key = rows[o].key
    BY <1>3, <1>b, <1>d DEF DeleteGroup
  <2> QED
    BY <1>3, <2>1 DEF DeleteGroup, OrphansAreAccounted
<1>4. ASSUME NEW h \in Handlers, PutObject(h) PROVE OrphansAreAccounted'
  <2>1. /\ plan[h].op = "put" /\ plan[h].new \in Key /\ rows' = rows
        /\ \A g \in Handlers \ {h} : plan'[g] = plan[g]
    BY <1>4, <1>c, <1>e DEF PutObject, Finish
  <2>2. Held(plan[h]) = Named(plan[h].new) /\ plan[h].new # None
    <3>1. Held(plan[h]) = Named(plan[h].new)
      BY <2>1 DEF Held
    <3>2. Idle.op = "idle"
      BY DEF Idle
    <3>3. plan[h] # Idle
      BY <2>1, <3>2
    <3> QED
      BY <2>1, <3>1, <3>3 DEF TypeInv, JobsNameKeys, Busy
  <2>3. \A o \in Owners : StaysInRow(rows[o].key)
    BY <2>1 DEF StaysInRow
  <2>4. CASE objects' = objects \cup {plan[h].new} /\ plan' = [plan EXCEPT ![h].op = "point"]
             /\ leaked' = leaked
    <3>1. plan'[h] = Job("point", plan[h].owner, plan[h].old, plan[h].new)
      BY <1>c, <1>e, <2>1, <2>4 DEF Job
    <3>2. Held(plan'[h]) = {plan[h].new}
      <4>1. plan'[h].op = "point" /\ plan'[h].new = plan[h].new
        BY <3>1 DEF Job
      <4> QED
        BY <2>2, <4>1 DEF Held, Named
    <3> QED
      BY <1>d, <2>1, <2>2, <2>3, <2>4, <3>2, AccountKept DEF Named
  <2>5. CASE /\ objects' \in {objects, objects \cup {plan[h].new}}
             /\ leaked' = leaked \cup {plan[h].new}
    BY <1>d, <2>1, <2>2, <2>3, <2>5, AccountKept DEF Named
  <2> QED
    BY <1>4, <2>4, <2>5 DEF PutObject
<1>5. ASSUME NEW h \in Handlers, UpdateImageKey(h) PROVE OrphansAreAccounted'
  <2> DEFINE p == plan[h]
  <2>1. /\ p.op = "point" /\ p.owner \in Owners /\ p.old \in Key /\ p.new \in Key
        /\ Held(p) = Named(p.new) /\ objects' = objects
        /\ \A g \in Handlers \ {h} : plan'[g] = plan[g]
        /\ Held(plan'[h]) = Named(p.old)
        /\ rows' = Pointed(p) /\ leaked' = leaked \cup Abandoned(p)
    BY <1>5, <1>c, <1>e DEF UpdateImageKey
  <2> HIDE DEF p
  <2>2. CASE rows[p.owner].live
    <3>1. rows' = [rows EXCEPT ![p.owner].key = p.new]
      BY <2>1, <2>2 DEF Pointed
    <3>2. /\ rows'[p.owner].key = p.new
          /\ \A o \in Owners \ {p.owner} : rows'[o].key = rows[o].key
      BY <1>d, <2>1, <3>1
    <3>3. StaysInRow(p.new) /\ \A o \in Owners \ {p.owner} : StaysInRow(rows[o].key)
      BY <2>1, <3>2 DEF StaysInRow
    <3>4. rows[p.owner].key \in {None} \cup leaked' \cup Held(plan'[h])
      BY <2>1, <2>2 DEF Abandoned, Named
    <3> QED
      BY <1>d, <2>1, <3>3, <3>4, AccountKept DEF Named, p
  <2>3. CASE ~rows[p.owner].live
    <3>1. rows' = rows /\ leaked' = leaked \cup Named(p.new)
      BY <2>1, <2>3 DEF Pointed, Abandoned
    <3>2. \A o \in Owners : StaysInRow(rows[o].key)
      BY <3>1 DEF StaysInRow
    <3> QED
      BY <1>d, <2>1, <3>1, <3>2, AccountKept DEF p
  <2> QED
    BY <2>2, <2>3
<1>6. ASSUME NEW h \in Handlers, UpdateImageKeyFails(h) PROVE OrphansAreAccounted'
  <2> DEFINE p == plan[h]
  <2>1. /\ p.op = "point" /\ p.owner \in Owners /\ p.old \in Key /\ p.new \in Key
        /\ Held(p) = Named(p.new) /\ objects' = objects
        /\ \A g \in Handlers \ {h} : plan'[g] = plan[g]
        /\ Held(plan'[h]) = Named(p.new)
    BY <1>6, <1>c, <1>e DEF UpdateImageKeyFails, RolledBack
  <2>2. \/ rows' = rows /\ leaked' = leaked
        \/ rows' = Pointed(p) /\ leaked' = leaked \cup Named(rows[p.owner].key)
    BY <1>6 DEF UpdateImageKeyFails
  <2> HIDE DEF p
  <2>3. \A o \in Owners : StaysInRow(rows[o].key) \/ rows[o].key \in {None} \cup leaked'
    <3> TAKE o \in Owners
    <3>1. CASE rows'[o].key = rows[o].key
      BY <3>1 DEF StaysInRow
    <3>2. CASE rows'[o].key # rows[o].key
      <4>1. o = p.owner /\ leaked' = leaked \cup Named(rows[o].key)
        BY <1>d, <2>1, <2>2, <3>2 DEF Pointed
      <4> QED
        BY <4>1 DEF Named
    <3> QED
      BY <3>1, <3>2
  <2> QED
    BY <1>d, <2>1, <2>2, <2>3, AccountKept DEF p
<1>7. ASSUME NEW h \in Handlers, DeleteObject(h) PROVE OrphansAreAccounted'
  <2>1. /\ plan[h].op = "clean" /\ Held(plan[h]) = {plan[h].old} /\ rows' = rows
        /\ \A g \in Handlers \ {h} : plan'[g] = plan[g]
    BY <1>7, <1>e DEF DeleteObject, Finish, Held
  <2>2. \/ objects' = objects \ {plan[h].old} /\ leaked' = leaked
        \/ leaked' = leaked \cup {plan[h].old} /\ objects' = objects
    BY <1>7 DEF DeleteObject
  <2>3. \A o \in Owners : StaysInRow(rows[o].key)
    BY <2>1 DEF StaysInRow
  <2> QED
    BY <1>d, <2>1, <2>2, <2>3, AccountKept
<1>8. ASSUME NEW h \in Handlers, EraseImage(h) PROVE OrphansAreAccounted'
  <2>1. /\ plan[h].op = "erase" /\ Held(plan[h]) = {} /\ rows' = rows /\ leaked' = leaked
        /\ objects' \subseteq objects
        /\ \A g \in Handlers \ {h} : plan'[g] = plan[g]
    BY <1>8, <1>c, <1>e DEF EraseImage
  <2>2. \A o \in Owners : StaysInRow(rows[o].key)
    BY <2>1 DEF StaysInRow
  <2> QED
    BY <1>d, <2>1, <2>2, AccountKept
<1>9. ASSUME NEW h \in Handlers, RemoveUser(h) PROVE OrphansAreAccounted'
  <2> DEFINE u == plan[h].owner
  <2>1. /\ plan[h].op = "delete" /\ Held(plan[h]) = {} /\ u \in Owners /\ objects' = objects
        /\ \A g \in Handlers \ {h} : plan'[g] = plan[g]
        /\ rows' = [rows EXCEPT ![u] = [live |-> FALSE, key |-> None]]
        /\ leaked' = leaked \cup Named(rows[u].key)
    BY <1>9, <1>c, <1>e DEF RemoveUser, Finish, Held
  <2> HIDE DEF u
  <2>2. \A o \in Owners \ {u} : StaysInRow(rows[o].key)
    BY <1>d, <2>1 DEF StaysInRow
  <2>3. rows[u].key \in {None} \cup leaked'
    BY <2>1 DEF Named
  <2> QED
    BY <1>d, <2>1, <2>2, <2>3, AccountKept
<1>10. ASSUME NEW h \in Handlers, SaveUser(h) PROVE OrphansAreAccounted'
  <2> DEFINE u == plan[h].owner
             read == [live |-> TRUE, key |-> plan[h].new]
  <2>1. /\ plan[h].op = "save" /\ Held(plan[h]) = {} /\ u \in Owners /\ objects' = objects
        /\ \A g \in Handlers \ {h} : plan'[g] = plan[g]
        /\ rows' = [rows EXCEPT ![u] = read]
        /\ leaked' = IF rows[u] = read THEN leaked ELSE leaked \cup Named(rows[u].key)
    BY <1>10, <1>c, <1>e DEF SaveUser, Finish, Held
  <2> HIDE DEF u, read
  <2>2. \A o \in Owners \ {u} : StaysInRow(rows[o].key)
    BY <1>d, <2>1 DEF StaysInRow
  <2>3. StaysInRow(rows[u].key) \/ rows[u].key \in {None} \cup leaked'
    BY <1>d, <2>1 DEF Named, StaysInRow
  <2> QED
    BY <1>d, <2>1, <2>2, <2>3, AccountKept
<1>11. ASSUME NEW h \in Handlers, GiveUp(h) PROVE OrphansAreAccounted'
  <2>1. /\ rows' = rows /\ objects' = objects /\ leaked' = leaked \cup Held(plan[h])
        /\ \A g \in Handlers \ {h} : plan'[g] = plan[g]
    BY <1>11, <1>e DEF GiveUp, Finish
  <2>2. \A o \in Owners : StaysInRow(rows[o].key)
    BY <2>1 DEF StaysInRow
  <2> QED
    BY <1>d, <2>1, <2>2, AccountKept
<1>12. CASE UNCHANGED vars
  BY <1>12 DEF vars, OrphansAreAccounted
<1> QED
  BY <1>2, <1>3, <1>4, <1>5, <1>6, <1>7, <1>8, <1>9, <1>10, <1>11, <1>12 DEF Next, Write

\* No object is orphaned silently, for any number of owners and handlers: one
\* that no row names and nobody is about to delete has been given up by a
\* failed deletion, a stale write or a process that died.
THEOREM OrphansAccounted == Spec => []OrphansAreAccounted
<1>1. Init => TypeInv /\ OrphansAreAccounted
  BY InitHolds DEF Init, IInv, OrphansAreAccounted
<1>2. TypeInv /\ OrphansAreAccounted /\ [Next]_vars => TypeInv' /\ OrphansAreAccounted'
  BY TypeStep, AccountStep
<1> QED
  BY <1>1, <1>2, PTL DEF Spec

=============================================================================
