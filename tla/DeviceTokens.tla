---------------------------- MODULE DeviceTokens ----------------------------
(***************************************************************************)
(* Push tokens of devices: services/fcm_service.go over                    *)
(* repositories/user_device_repository.go.                                 *)
(*                                                                         *)
(* A device has one token. The app sends it when somebody signs in and     *)
(* takes it back when they sign out; accounts share devices, and the       *)
(* requests of one device can be lost or pass each other. A push reads the *)
(* tokens of its recipient, asks FCM, and deletes the tokens FCM calls     *)
(* invalid; an account that is deleted takes its tokens with it first.     *)
(***************************************************************************)
EXTENDS Integers

CONSTANTS
  Tokens,     \* one for each device
  People,     \* accounts; numbers are not handed on from one to another
  NoOne,      \* nobody is signed in
  Senders     \* pushes in progress at once

ASSUME TokensAssumption == NoOne \notin People

VARIABLES
  devices,   \* the user_devices row of each token
  known,     \* accounts with a row in users
  closing,   \* accounts whose deletion has begun
  inbox,     \* requests of the apps on their way or in progress
  push,      \* what each push in progress has read
  holder,    \* who is signed in on each device
  dead,      \* tokens FCM has given up: the app is gone
  astray,    \* tokens whose row need not be what the app believes: a request was
             \* lost or refused, two passed each other, or FCM refused a token that
             \* is in use
  late       \* registrations (token, account) that came while the account was being
             \* deleted, or that its deletion failed to remove

tokenVars == <<devices, known, closing, inbox, push, holder, dead, astray, late>>

-----------------------------------------------------------------------------
NoRow == [there |-> FALSE, owner |-> NoOne, active |-> FALSE]
NoPush == [pc |-> "idle", tokens |-> {}, invalid |-> {}]

TokensInit ==
  /\ devices = [t \in Tokens |-> NoRow]
  /\ known = People /\ closing = {}
  /\ inbox = {}
  /\ push = [s \in Senders |-> NoPush]
  /\ holder = [t \in Tokens |-> NoOne]
  /\ dead = {} /\ astray = {} /\ late = {}

-----------------------------------------------------------------------------
(* The app                                                                 *)

Demand(kind, t, u) == [kind |-> kind, token |-> t, user |-> u]
InFlight(t) == {r \in inbox : r.token = t}
BeingDeleted(t) == \E s \in Senders : t \in push[s].invalid

\* The order of two requests matters, except that taking the token back for one
\* account never undoes a registration for another.
Passes(t, kind, u) ==
  \E r \in InFlight(t) :
    \/ r.kind # "delete" /\ (kind = "delete" \/ r.user # u)
    \/ r.kind = "delete" /\ kind = "save" /\ r.user = u

\* Signing in, or opening the app again.
SignIn(t, u) ==
  /\ t \notin dead /\ u \in known /\ holder[t] \in {NoOne, u}
  /\ holder' = [holder EXCEPT ![t] = u]
  /\ inbox' = inbox \cup {Demand("save", t, u)}
  /\ astray' = IF Passes(t, "save", u) THEN astray \cup {t}
               ELSE IF InFlight(t) = {} /\ ~BeingDeleted(t) THEN astray \ {t}
               ELSE astray
  /\ UNCHANGED <<devices, known, closing, push, dead, late>>

SignOut(t) ==
  /\ holder[t] # NoOne
  /\ holder' = [holder EXCEPT ![t] = NoOne]
  /\ inbox' = inbox \cup {Demand("delete", t, holder[t])}
  /\ astray' = IF Passes(t, "delete", holder[t]) THEN astray \cup {t} ELSE astray
  /\ UNCHANGED <<devices, known, closing, push, dead, late>>

Uninstall(t) ==
  /\ t \notin dead
  /\ dead' = dead \cup {t}
  /\ holder' = [holder EXCEPT ![t] = NoOne]
  /\ UNCHANGED <<devices, known, closing, inbox, push, astray, late>>

\* A request is lost, or refused because a statement fails.
LoseRequest(r) ==
  /\ inbox' = inbox \ {r}
  /\ astray' = astray \cup {r.token}
  /\ UNCHANGED <<devices, known, closing, push, holder, dead, late>>

-----------------------------------------------------------------------------
(* Registration                                                            *)

TrustSession(u) == TRUE                                    \* faulty variant
AccountFound(u) == u \in known

\* SaveFCMToken looks the account up before it saves the token.
SaveFCMToken(r) ==
  /\ r.kind = "save"
  /\ IF AccountFound(r.user)
     THEN inbox' = (inbox \ {r}) \cup {[r EXCEPT !.kind = "resolved"]} /\ UNCHANGED astray
     ELSE inbox' = inbox \ {r} /\ astray' = astray \cup {r.token}
  /\ UNCHANGED <<devices, known, closing, push, holder, dead, late>>

Anonymous(u) == [there |-> TRUE, owner |-> 0, active |-> TRUE]   \* faulty variant
Registered(u) == [there |-> TRUE, owner |-> u, active |-> TRUE]

\* Insert, or take the token over from whoever had it, deleted or not.
SaveToken(r) ==
  /\ r.kind = "resolved"
  /\ devices' = [devices EXCEPT ![r.token] = Registered(r.user)]
  /\ late' = IF r.user \in closing THEN late \cup {<<r.token, r.user>>} ELSE late
  /\ inbox' = inbox \ {r}
  /\ UNCHANGED <<known, closing, push, holder, dead, astray>>

OwnedBy(row, u) == row.active /\ row.owner = u

WhoeverOwnsIt(r) == devices[r.token].active                \* faulty variant
Deletes(r) == OwnedBy(devices[r.token], r.user)

DeleteToken(r) ==
  /\ r.kind = "delete"
  /\ devices' = IF Deletes(r)
                THEN [devices EXCEPT ![r.token].active = FALSE] ELSE devices
  /\ inbox' = inbox \ {r}
  /\ UNCHANGED <<known, closing, push, holder, dead, astray, late>>

-----------------------------------------------------------------------------
(* A push                                                                  *)

\* By account id, or by number when the account is gone: the same rows.
TokensOf(u) == {t \in Tokens : devices[t].active /\ devices[t].owner = u}

SendNotificationToUser(s, u) ==
  /\ push[s].pc = "idle"
  /\ TokensOf(u) # {}
  /\ push' = [push EXCEPT ![s] = [pc |-> "send", tokens |-> TokensOf(u), invalid |-> {}]]
  /\ UNCHANGED <<devices, known, closing, inbox, holder, dead, astray, late>>

InvalidOnes(tokens, refused) == refused

\* FCM refuses some tokens for good: of apps that are gone, or because it finds
\* an argument invalid. The others it took, or failed for the moment.
SendMulticastFCM(s) ==
  /\ push[s].pc = "send"
  /\ \E refused \in SUBSET push[s].tokens :
       /\ push' = [push EXCEPT ![s].pc = "clean",
                               ![s].invalid = InvalidOnes(push[s].tokens, refused)]
       /\ astray' = astray \cup (refused \ dead)
  /\ UNCHANGED <<devices, known, closing, inbox, holder, dead, late>>

\* Whoever has the tokens now; a failure is logged only.
DeleteInvalidTokens(s) ==
  /\ push[s].pc = "clean"
  /\ \/ devices' = [t \in Tokens |-> IF t \in push[s].invalid THEN NoRow ELSE devices[t]]
     \/ UNCHANGED devices
  /\ push' = [push EXCEPT ![s] = NoPush]
  /\ UNCHANGED <<known, closing, inbox, holder, dead, astray, late>>

-----------------------------------------------------------------------------
(* An account is deleted: its tokens, then (codes and) its row             *)

SignedOff(u) ==
  [t \in Tokens |-> IF OwnedBy(devices[t], u) THEN [devices[t] EXCEPT !.active = FALSE]
                    ELSE devices[t]]

\* The error of the first deletion is ignored.
DropDevices(u) ==
  /\ u \in known \ closing
  /\ closing' = closing \cup {u}
  /\ \/ devices' = SignedOff(u) /\ UNCHANGED late
     \/ late' = late \cup (TokensOf(u) \X {u}) /\ UNCHANGED devices
  /\ UNCHANGED <<known, inbox, push, holder, dead, astray>>

RemoveOwner(u) ==
  /\ u \in closing
  /\ known' = known \ {u} /\ closing' = closing \ {u}
  /\ late' = late \cup {<<t, u>> : t \in {q.token : q \in {r \in inbox : r.kind = "resolved" /\ r.user = u}}}
  /\ UNCHANGED <<devices, inbox, push, holder, dead, astray>>

-----------------------------------------------------------------------------
App(t) == (\E u \in People : SignIn(t, u)) \/ SignOut(t) \/ Uninstall(t)
Handle(r) == LoseRequest(r) \/ SaveFCMToken(r) \/ SaveToken(r) \/ DeleteToken(r)
Notify(s) ==
  (\E u \in People : SendNotificationToUser(s, u)) \/ SendMulticastFCM(s)
    \/ DeleteInvalidTokens(s)

TokensNext ==
  \/ \E t \in Tokens : App(t)
  \/ \E r \in inbox : Handle(r)
  \/ \E s \in Senders : Notify(s)
  \/ \E u \in People : DropDevices(u) \/ RemoveOwner(u)

TokensSpec == TokensInit /\ [][TokensNext]_tokenVars

-----------------------------------------------------------------------------
(* Properties                                                              *)

\* The type invariant of tokens, requests and pushes.
TokensTypeOK ==
  /\ devices \in [Tokens -> [there : BOOLEAN, owner : People \cup {NoOne}, active : BOOLEAN]]
  /\ known \subseteq People /\ closing \subseteq known
  /\ inbox \subseteq [kind : {"save", "resolved", "delete"}, token : Tokens, user : People]
  /\ push \in [Senders -> [pc : {"idle", "send", "clean"}, tokens : SUBSET Tokens,
                           invalid : SUBSET Tokens]]
  /\ holder \in [Tokens -> People \cup {NoOne}]
  /\ dead \subseteq Tokens /\ astray \subseteq Tokens
  /\ late \subseteq Tokens \X People

\* Once the requests of a device are served, its token is registered for who is
\* signed in there, and for nobody after a sign-out. In particular a sign-out
\* served after the next account signed in "will not delete tokens belonging to
\* another account" (user_device_repository.go), and no push takes a token away
\* that FCM did not refuse.
TokensFollowHolders ==
  \A t \in Tokens \ (dead \cup astray) :
    InFlight(t) = {} =>
      /\ holder[t] \in known \ closing => OwnedBy(devices[t], holder[t])
      /\ holder[t] = NoOne => ~devices[t].active

\* Pushes do not go to the devices of an account that is gone: no token stays
\* registered for it unless it was registered while the account was deleted, or
\* the deletion of the tokens failed.
NoTokenOutlivesAccount ==
  \A t \in Tokens :
    devices[t].active => devices[t].owner \in known \/ <<t, devices[t].owner>> \in late

=============================================================================
