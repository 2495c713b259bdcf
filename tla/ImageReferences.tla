--------------------------- MODULE ImageReferences ---------------------------
(***************************************************************************)
(* Profile and group images: services/user_service.go and the image part   *)
(* of services/group_service.go.                                           *)
(*                                                                         *)
(* A row of users or groups names an image by its key; the image is an     *)
(* object in a storage service. The two are written one after the other    *)
(* with no transaction around them: an upload puts the object, points the  *)
(* row at it and deletes the object the row named when it was read. Keys   *)
(* are random UUIDs, here the next number.                                 *)
(*                                                                         *)
(* Images are written by a one-column update. Everything else about a user *)
(* is written by saving the whole row as it was read, the key included;    *)
(* such a save inserts the row again when it was deleted meanwhile.        *)
(***************************************************************************)
EXTENDS Integers, FiniteSets

CONSTANTS
  Users,        \* accounts
  Groups,
  Handlers,     \* requests in progress at once
  Ops,          \* the requests served, a subset of OpNames
  LostAnswers,  \* may an update be written although it returned an error
  MaxKeys,      \* bound: images uploaded
  MaxCalls      \* bound: requests served

Owners == Users \cup Groups
Keys == 1..MaxKeys
None == 0
OpNames == {"upload", "remove", "profile", "account", "group"}

ASSUME OwnerAssumption == Users \cap Groups = {}
ASSUME BoundAssumption ==
  MaxKeys \in Nat /\ MaxCalls \in Nat /\ LostAnswers \in BOOLEAN /\ Ops \subseteq OpNames

VARIABLES
  rows,      \* of each owner: is the row there, and the key it holds
  objects,   \* keys of the objects in storage
  issued,    \* keys handed out so far
  plan,      \* what each handler has still to do
  calls,     \* requests served so far
  doubtful,  \* owners whose key may name nothing since a stale save, a lost
             \* answer or a deletion that has begun, until the next update of it
  leaked     \* keys whose object nobody will delete

vars == <<rows, objects, issued, plan, calls, doubtful, leaked>>

-----------------------------------------------------------------------------
Idle == [op |-> "idle"]
Job(op, o, old, new) == [op |-> op, owner |-> o, old |-> old, new |-> new]
EvenNone(k) == {k}                                         \* faulty variant
Named(k) == {k} \ {None}

Init ==
  /\ rows = [o \in Owners |-> [live |-> TRUE, key |-> None]]
  /\ objects = {} /\ issued = 0
  /\ plan = [h \in Handlers |-> Idle]
  /\ calls = 0
  /\ doubtful = {} /\ leaked = {}

Serve(op) == op \in Ops /\ calls < MaxCalls /\ calls' = calls + 1

Begin(h, op, job) ==
  /\ plan[h] = Idle
  /\ Serve(op)
  /\ plan' = [plan EXCEPT ![h] = job]
  /\ UNCHANGED <<rows, objects, doubtful, leaked>>

\* Deleting a user removes the row; a deleted group is still found, and its
\* owner can add members to it, who can then change its image.
Found(o) == o \in Users => rows[o].live

UploadImage(h, o) ==
  /\ Found(o)
  /\ issued < MaxKeys
  /\ issued' = issued + 1
  /\ Begin(h, "upload", Job("put", o, rows[o].key, issued + 1))

RemoveImage(h, o) ==
  /\ Found(o) /\ rows[o].key # None
  /\ Begin(h, "remove", Job("point", o, rows[o].key, None))
  /\ UNCHANGED issued

\* A new name, number or currency. Setting and checking an MPIN and signing in
\* with Google save the row in the same way.
UpdateProfile(h, u) ==
  /\ rows[u].live
  /\ Begin(h, "profile", Job("save", u, None, rows[u].key))
  /\ UNCHANGED issued

DeleteAccount(h, u) ==
  /\ rows[u].live
  /\ Begin(h, "account",
       Job(IF rows[u].key = None THEN "delete" ELSE "erase", u, rows[u].key, None))
  /\ UNCHANGED issued

\* One transaction; the key stays in the row.
DeleteGroup(g) ==
  /\ rows[g].live
  /\ Serve("group")
  /\ rows' = [rows EXCEPT ![g].live = FALSE]
  /\ UNCHANGED <<objects, issued, plan, doubtful, leaked>>

-----------------------------------------------------------------------------
(* Storage and rows                                                        *)

Finish(h) == plan' = [plan EXCEPT ![h] = Idle]
Forgotten(o, k) == Idle                                    \* faulty variant
Cleaning(o, k) == IF k = None THEN Idle ELSE Job("clean", o, k, None)

\* An upload that is reported as failed may have arrived.
PutObject(h) ==
  LET p == plan[h]
  IN /\ p.op = "put"
     /\ \/ /\ objects' = objects \cup {p.new}
           /\ plan' = [plan EXCEPT ![h].op = "point"]
           /\ UNCHANGED leaked
        \/ /\ objects' \in {objects, objects \cup {p.new}}
           /\ leaked' = leaked \cup {p.new}
           /\ Finish(h)
     /\ UNCHANGED <<rows, issued, calls, doubtful>>

\* The update touches live rows only, and touching none is no error.
Pointed(p) == IF rows[p.owner].live THEN [rows EXCEPT ![p.owner].key = p.new] ELSE rows

\* What the update leaves without anybody to delete it: a key that came after
\* the row was read, or the new key itself.
Abandoned(p) ==
  IF rows[p.owner].live THEN Named(rows[p.owner].key) \ {p.old} ELSE Named(p.new)

UpdateImageKey(h) ==
  LET p == plan[h]
  IN /\ p.op = "point"
     /\ rows' = Pointed(p)
     /\ doubtful' = IF rows[p.owner].live THEN doubtful \ {p.owner} ELSE doubtful
     /\ leaked' = leaked \cup Abandoned(p)
     /\ plan' = [plan EXCEPT ![h] = Cleaning(p.owner, p.old)]
     /\ UNCHANGED <<objects, issued, calls>>

\* The update returns an error: an upload deletes the object it put.
CleanOld(p) == Cleaning(p.owner, p.old)                    \* faulty variant
RolledBack(p) == Cleaning(p.owner, p.new)
UpdateImageKeyFails(h) ==
  LET p == plan[h]
  IN /\ p.op = "point"
     /\ \/ UNCHANGED <<rows, doubtful, leaked>>
        \/ /\ LostAnswers
           /\ rows' = Pointed(p)
           /\ doubtful' = doubtful \cup {p.owner}
           /\ leaked' = leaked \cup Named(rows[p.owner].key)
     /\ plan' = [plan EXCEPT ![h] = RolledBack(p)]
     /\ UNCHANGED <<objects, issued, calls>>

\* The error of a deletion is ignored.
DeleteObject(h) ==
  LET p == plan[h]
  IN /\ p.op = "clean"
     /\ \/ objects' = objects \ {p.old} /\ UNCHANGED leaked
        \/ leaked' = leaked \cup {p.old} /\ UNCHANGED objects
     /\ Finish(h)
     /\ UNCHANGED <<rows, issued, calls, doubtful>>

\* An account's image is deleted before its row.
EraseImage(h) ==
  LET p == plan[h]
  IN /\ p.op = "erase"
     /\ objects' \in {objects, objects \ {p.old}}
     /\ doubtful' = doubtful \cup {p.owner}
     /\ plan' = [plan EXCEPT ![h].op = "delete"]
     /\ UNCHANGED <<rows, issued, calls, leaked>>

RemoveUser(h) ==
  LET u == plan[h].owner
  IN /\ plan[h].op = "delete"
     /\ rows[u].live
     /\ rows' = [rows EXCEPT ![u] = [live |-> FALSE, key |-> None]]
     /\ leaked' = leaked \cup Named(rows[u].key)
     /\ Finish(h)
     /\ UNCHANGED <<objects, issued, calls, doubtful>>

\* gorm's Save: the row as it was read, inserted again if it is gone.
SaveUser(h) ==
  LET p == plan[h]
      read == [live |-> TRUE, key |-> p.new]
  IN /\ p.op = "save"
     /\ rows' = [rows EXCEPT ![p.owner] = read]
     /\ IF rows[p.owner] = read THEN UNCHANGED <<doubtful, leaked>>
        ELSE /\ doubtful' = doubtful \cup {p.owner}
             /\ leaked' = leaked \cup Named(rows[p.owner].key)
     /\ Finish(h)
     /\ UNCHANGED <<objects, issued, calls>>

\* The keys a handler would have seen to.
Held(p) == IF p.op \in {"put", "point"} THEN Named(p.new)
           ELSE IF p.op = "clean" THEN {p.old} ELSE {}

\* A write of the row fails, or the process dies between two steps.
GiveUp(h) ==
  /\ plan[h] # Idle
  /\ leaked' = leaked \cup Held(plan[h])
  /\ Finish(h)
  /\ UNCHANGED <<rows, objects, issued, calls, doubtful>>

-----------------------------------------------------------------------------
Request(h) ==
  \/ \E o \in Owners : UploadImage(h, o) \/ RemoveImage(h, o)
  \/ \E u \in Users : UpdateProfile(h, u) \/ DeleteAccount(h, u)

Write(h) ==
  \/ PutObject(h) \/ UpdateImageKey(h) \/ UpdateImageKeyFails(h) \/ DeleteObject(h)
  \/ EraseImage(h) \/ RemoveUser(h) \/ SaveUser(h) \/ GiveUp(h)

Next ==
  \/ \E h \in Handlers : Request(h) \/ Write(h)
  \/ \E g \in Groups : DeleteGroup(g)

Spec == Init /\ [][Next]_vars

-----------------------------------------------------------------------------
(* Properties                                                              *)

Key == Keys \cup {None}
JobOf == [op : {"put", "point", "clean", "erase", "delete", "save"},
          owner : Owners, old : Key, new : Key]

\* The type invariant.
TypeOK ==
  /\ rows \in [Owners -> [live : BOOLEAN, key : Key]]
  /\ objects \subseteq Keys /\ issued \in 0..MaxKeys
  /\ plan \in [Handlers -> {Idle} \cup JobOf]
  /\ calls \in 0..MaxCalls
  /\ doubtful \subseteq Owners /\ leaked \subseteq Keys

\* However uploads, removals and deletions overlap, fail and stop half-way,
\* the image a live row names is in storage: the previous object is deleted
\* only when the row has let go of it (the numbered comments of
\* UploadProfileImage and UploadGroupImage). Groups have no stale saves: for
\* them only a lost answer is excepted.
ImagesResolve ==
  \A o \in Owners \ doubtful :
    rows[o].live /\ rows[o].key # None => rows[o].key \in objects

\* No object is orphaned silently: what no row names is about to be deleted,
\* or it is known why it stays: a failed deletion, a process that died, or a
\* row that changed hands between the read and the update.
OrphansAreAccounted ==
  \A k \in objects \ leaked :
    \/ \E o \in Owners : rows[o].key = k
    \/ \E h \in Handlers : k \in Held(plan[h])

\* The image a user's profile names is in storage: "Delete previous image ONLY
\* after new reference is safely stored" (user_service.go).
ProfileImagesResolve ==
  \A u \in Users : rows[u].live /\ rows[u].key # None => rows[u].key \in objects

=============================================================================
