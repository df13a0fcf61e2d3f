--------------------------- MODULE AccountsProofs ---------------------------
(***************************************************************************)
(* Theorems about Accounts for every number of clients, passwords, times   *)
(* and zones.                                                              *)
(***************************************************************************)
EXTENDS Accounts, TLAPS

(* What the records, the handles and the clock keep. *)
AccountsInv ==
    /\ TypeOK /\ HoldersAtWork
    /\ users \in {Absent, Default} /\ synced[1] \in {Absent, Default}
    /\ server \in {"grant", "serve"} => users # Absent
    /\ server = "reset" => users = Absent
    /\ server # "serve" => \A c \in Clients : pc[c] = "idle"
    /\ priv = Absent => synced[2] = Absent
    /\ \A c \in Clients : cookie[c] <= now + TTL
    /\ \A c \in Clients : pc[c] \in {"privilege", "grant"} => typed[c] = users

USE DEF dbVars, webVars, Databases

LEMMA AccountsInit == Init => AccountsInv
<1> SUFFICES ASSUME Init PROVE AccountsInv
  OBVIOUS
<1> USE AccountsAssumption DEF Init
<1>1. TypeOK
  BY DEF TypeOK
<1>2. HoldersAtWork
  BY DEF HoldersAtWork
<1> QED
  BY <1>1, <1>2 DEF AccountsInv

(* A step of one request inside the databases keeps their holders, when    *)
(* the database it opens was free, and the one it leaves was its own.      *)
LEMMA HandlerTypes ==
  ASSUME AccountsInv, NEW c \in Clients, Handler(c)
  PROVE  /\ holder' \in [Databases -> Clients \cup {"none", "left"}]
         /\ pc' \in [Clients -> {"idle", "login", "verify", "privilege", "grant",
                                "count", "check", "change", "store"} \cup Databases]
         /\ UNCHANGED <<server, dbVars, typed, zone, now>>
         /\ \/ UNCHANGED cookie
            \/ pc[c] = "grant" /\ priv # Absent /\ cookie' = [cookie EXCEPT ![c] = now + TTL]
<1> USE AccountsAssumption DEF AccountsInv, TypeOK
<1>1. CASE OpenUsers(c)
  BY <1>1 DEF OpenUsers, Open
<1>2. CASE verify_user(c)
  BY <1>2 DEF verify_user, Close
<1>3. CASE OpenPriv(c)
  BY <1>3 DEF OpenPriv, Open
<1>4. CASE get_privilage(c)
  BY <1>4 DEF get_privilage, Close
<1>5. CASE get_user_count(c)
  BY <1>5 DEF get_user_count, Open, Close
<1>6. CASE change_user_pass(c)
  BY <1>6 DEF change_user_pass, Open, Raise
<1>7. CASE ListDatabase(c)
  BY <1>7 DEF ListDatabase, Open, Close, Raise
<1> QED
  BY <1>1, <1>2, <1>3, <1>4, <1>5, <1>6, <1>7 DEF Handler

LEMMA HandlerHolds ==
  ASSUME AccountsInv, NEW c \in Clients, Handler(c)
  PROVE  HoldersAtWork'
<1> USE AccountsAssumption DEF AccountsInv, TypeOK, HoldersAtWork, Uses
<1>1. CASE OpenUsers(c)
  BY <1>1 DEF OpenUsers, Open
<1>2. CASE verify_user(c)
  BY <1>2 DEF verify_user, Close
<1>3. CASE OpenPriv(c)
  BY <1>3 DEF OpenPriv, Open
<1>4. CASE get_privilage(c)
  BY <1>4 DEF get_privilage, Close
<1>5. CASE get_user_count(c)
  BY <1>5 DEF get_user_count, Open, Close
<1>6. CASE change_user_pass(c)
  BY <1>6 DEF change_user_pass, Open, Raise
<1>7. CASE ListDatabase(c)
  BY <1>7 DEF ListDatabase, Open, Close, Raise
<1> QED
  BY <1>1, <1>2, <1>3, <1>4, <1>5, <1>6, <1>7 DEF Handler

(* Only the right password takes a login past verify_user. *)
LEMMA HandlerVerifies ==
  ASSUME AccountsInv, NEW c \in Clients, Handler(c),
         NEW d \in Clients, pc'[d] \in {"privilege", "grant"}
  PROVE  typed[d] = users
<1> USE AccountsAssumption DEF AccountsInv, TypeOK
<1>1. CASE OpenUsers(c)
  BY <1>1 DEF OpenUsers, Open
<1>2. CASE verify_user(c)
  BY <1>2 DEF verify_user, Close
<1>3. CASE OpenPriv(c)
  BY <1>3 DEF OpenPriv, Open
<1>4. CASE get_privilage(c)
  BY <1>4 DEF get_privilage, Close
<1>5. CASE get_user_count(c)
  BY <1>5 DEF get_user_count, Open, Close
<1>6. CASE change_user_pass(c)
  BY <1>6 DEF change_user_pass, Open, Raise
<1>7. CASE ListDatabase(c)
  BY <1>7 DEF ListDatabase, Open, Close, Raise
<1> QED
  BY <1>1, <1>2, <1>3, <1>4, <1>5, <1>6, <1>7 DEF Handler

LEMMA AccountsNext == AccountsInv /\ [Next]_vars => AccountsInv'
<1> SUFFICES ASSUME AccountsInv, [Next]_vars PROVE AccountsInv'
  OBVIOUS
<1> USE AccountsAssumption DEF AccountsInv
<1>1. CASE startWebServer \/ PutUser \/ PutPrivilege \/ Restart
  <2>1. UNCHANGED <<webVars, synced, zone, now>>
    BY <1>1 DEF startWebServer, PutUser, PutPrivilege, Restart
  <2>2. HoldersAtWork'
    BY <2>1 DEF HoldersAtWork, Uses
  <2> QED
    BY <1>1, <2>1, <2>2 DEF startWebServer, PutUser, PutPrivilege, Restart, TypeOK
<1>2. CASE Sync
  <2>1. /\ synced' \in {<<users, synced[2]>>, <<synced[1], priv>>}
        /\ UNCHANGED <<server, users, priv, webVars, zone, now>>
    BY <1>2 DEF Sync
  <2>2. /\ synced'[1] \in {Absent, Default}
        /\ synced' \in (Passwords \cup {Absent}) \X {"admin", Absent}
        /\ priv = Absent => synced'[2] = Absent
    BY <2>1 DEF TypeOK
  <2>3. HoldersAtWork'
    BY <2>1 DEF HoldersAtWork, Uses
  <2> QED
    BY <2>1, <2>2, <2>3 DEF TypeOK
<1>3. CASE Crash \/ PowerLoss
  <2>1. NoRequests /\ server' = "down" /\ UNCHANGED <<synced, typed, cookie, zone, now>>
    BY <1>3 DEF Crash, PowerLoss
  <2>2. /\ users' \in {users, synced[1]} /\ priv' \in {priv, synced[2]}
        /\ priv' = Absent => synced[2] = Absent
    BY <1>3 DEF Crash, PowerLoss
  <2>3. HoldersAtWork'
    BY <2>1 DEF NoRequests, HoldersAtWork
  <2> QED
    BY <2>1, <2>2, <2>3 DEF TypeOK, NoRequests
<1>4. ASSUME NEW c \in Clients, Request(c) PROVE AccountsInv'
  <2>1. /\ UNCHANGED <<server, dbVars, holder, cookie, zone, now>>
        /\ pc[c] = "idle" /\ server = "serve"
        /\ \E step \in {"login", "count", "check"} \cup Databases :
              pc' = [pc EXCEPT ![c] = step]
        /\ \E password \in Passwords : typed' = [typed EXCEPT ![c] = password]
    BY <1>4 DEF Request
  <2>2. HoldersAtWork'
    BY <2>1 DEF HoldersAtWork, Uses, TypeOK
  <2> QED
    BY <2>1, <2>2 DEF TypeOK
<1>5. ASSUME NEW c \in Clients, Handler(c) PROVE AccountsInv'
  <2>1. cookie' \in [Clients -> -1..(MaxTime + TTL)] /\ \A d \in Clients : cookie'[d] <= now + TTL
    BY <1>5, HandlerTypes DEF TypeOK
  <2>2. server = "serve"
    BY <1>5 DEF Handler, OpenUsers, verify_user, OpenPriv, get_privilage, get_user_count,
                change_user_pass, ListDatabase
  <2> QED
    BY <1>5, <2>1, <2>2, HandlerTypes, HandlerHolds, HandlerVerifies DEF TypeOK
<1>6. ASSUME NEW c \in Clients, renew_JWT(c) \/ logout(c) PROVE AccountsInv'
  <2>1. /\ UNCHANGED <<server, dbVars, holder, pc, typed, zone, now>>
        /\ cookie' \in [Clients -> -1..(MaxTime + TTL)]
        /\ \A d \in Clients : cookie'[d] <= now + TTL
    BY <1>6 DEF renew_JWT, logout, TypeOK
  <2>2. HoldersAtWork'
    BY <2>1 DEF HoldersAtWork, Uses
  <2> QED
    BY <2>1, <2>2 DEF TypeOK
<1>7. CASE write_IR_detail \/ \E d \in Databases : Collect(d)
  <2>1. PICK d \in Databases :
          /\ holder[d] \in {"none", "left"}
          /\ \E h \in {"none", "left"} : holder' = [holder EXCEPT ![d] = h]
    BY <1>7 DEF write_IR_detail, Collect
  <2>2. UNCHANGED <<server, dbVars, pc, typed, cookie, zone, now>>
    BY <1>7 DEF write_IR_detail, Collect
  <2>3. HoldersAtWork'
    BY <2>1, <2>2 DEF HoldersAtWork, Uses, TypeOK
  <2> QED
    BY <2>1, <2>2, <2>3 DEF TypeOK
<1>8. CASE Tick \/ UNCHANGED vars
  <2>1. UNCHANGED <<server, dbVars, webVars, zone>> /\ now' \in 0..MaxTime /\ now' >= now
    BY <1>8 DEF Tick, vars, TypeOK
  <2>2. HoldersAtWork'
    BY <2>1 DEF HoldersAtWork, Uses
  <2> QED
    BY <2>1, <2>2 DEF TypeOK
<1> QED
  BY <1>1, <1>2, <1>3, <1>4, <1>5, <1>6, <1>7, <1>8 DEF Next
-----------------------------------------------------------------------------
(* A crash between reset_admin_user's puts leaves an account that nothing  *)
(* completes and that nobody can log in to.                                *)
THEOREM HalfAdminForGood == Spec => HalfAdminStays
<1> DEFINE Stays == HalfAdmin =>
                      /\ HalfAdmin' \/ users' = Absent
                      /\ \A c \in Clients : pc[c] = "grant" => cookie'[c] <= cookie[c]
<1>1. ASSUME AccountsInv, [Next]_vars PROVE Stays
  <2> SUFFICES ASSUME HalfAdmin PROVE Stays
    OBVIOUS
  <2> USE <1>1 DEF AccountsInv, TypeOK, HalfAdmin
  <2>1. CASE startWebServer
    BY <2>1 DEF startWebServer
  <2>2. CASE PutUser
    <3>1. FALSE
      BY <2>2 DEF PutUser
    <3> QED
      BY <3>1
  <2>3. CASE PutPrivilege \/ Sync \/ Crash \/ PowerLoss \/ Restart \/ Tick
    BY <2>3 DEF PutPrivilege, Sync, Crash, PowerLoss, Restart, Tick
  <2>4. ASSUME NEW c \in Clients, Request(c) PROVE Stays
    BY <2>4 DEF Request
  <2>5. ASSUME NEW c \in Clients, Handler(c) PROVE Stays
    BY <2>5, HandlerTypes
  <2>6. ASSUME NEW c \in Clients, renew_JWT(c) \/ logout(c) PROVE Stays
    BY <2>6 DEF renew_JWT, logout
  <2>7. CASE write_IR_detail \/ (\E d \in Databases : Collect(d)) \/ UNCHANGED vars
    BY <2>7 DEF write_IR_detail, Collect, vars
  <2> QED
    BY <2>1, <2>2, <2>3, <2>4, <2>5, <2>6, <2>7 DEF Next
<1> QED
  BY <1>1, AccountsInit, AccountsNext, PTL DEF Spec, HalfAdminStays

(* A server that takes requests has its administrator, whatever happened.  *)
THEOREM ServedKnown == Spec => []ServedAdminKnown
<1>1. AccountsInv => ServedAdminKnown
  BY DEF AccountsInv, ServedAdminKnown
<1> QED
  BY <1>1, AccountsInit, AccountsNext, PTL DEF Spec

(* No end of a request and no crash leaves a database locked, but for one  *)
(* whose traceback keeps it.                                               *)
THEOREM HoldersWork == Spec => []HoldersAtWork
<1>1. AccountsInv => HoldersAtWork
  BY DEF AccountsInv
<1> QED
  BY <1>1, AccountsInit, AccountsNext, PTL DEF Spec

(* The records, handles, requests, cookies and times have their types: no  *)
(* privilege is ever a password's hash, and no token outlives its hour.    *)
THEOREM AccountsTyped == Spec => []TypeOK
<1>1. AccountsInv => TypeOK
  BY DEF AccountsInv
<1> QED
  BY <1>1, AccountsInit, AccountsNext, PTL DEF Spec

(* Of all listings, only that of the privileges nobody has is answered. *)
THEOREM OnlyNobody == Spec => OnlyNobodyListed
<1> DEFINE Answered == \A c \in Clients : \A d \in Databases :
                         pc[c] = d /\ holder[d] = c /\ holder'[d] = "none" /\ server' = server =>
                           d = "priv" /\ HalfAdmin
<1>1. ASSUME AccountsInv, [Next]_vars PROVE Answered
  <2> SUFFICES ASSUME NEW c \in Clients, NEW d \in Databases, pc[c] = d, holder[d] = c,
                      holder'[d] = "none", server' = server
               PROVE  d = "priv" /\ HalfAdmin
    OBVIOUS
  <2> USE <1>1, AccountsAssumption DEF AccountsInv, TypeOK
  <2>1. server = "serve"
    OBVIOUS
  <2>2. ASSUME NEW e \in Clients, Handler(e) PROVE d = "priv" /\ HalfAdmin
    <3>1. UNCHANGED holder \/ (holder' = [holder EXCEPT ![d] = "none"] /\ d = pc[e]
                                 /\ holder[pc[e]] = e /\ ListDatabase(e))
      <4>1. CASE ListDatabase(e)
        BY <2>2, <4>1 DEF ListDatabase, Open, Close, Raise
      <4>2. CASE OpenUsers(e) \/ OpenPriv(e)
        BY <4>2 DEF OpenUsers, OpenPriv, Open
      <4>3. CASE verify_user(e) \/ get_privilage(e)
        BY <4>3 DEF verify_user, get_privilage, Close, HoldersAtWork, Uses
      <4>4. CASE get_user_count(e) \/ change_user_pass(e)
        BY <4>4 DEF get_user_count, change_user_pass, Open, Close, Raise
      <4> QED
        BY <2>2, <4>1, <4>2, <4>3, <4>4 DEF Handler
    <3> QED
      BY <2>1, <3>1 DEF ListDatabase, Close, Raise, Empty, HalfAdmin
  <2>3. CASE write_IR_detail \/ \E e \in Databases : Collect(e)
    BY <2>3 DEF write_IR_detail, Collect
  <2>4. CASE Crash \/ PowerLoss
    BY <2>1, <2>4 DEF Crash, PowerLoss
  <2>5. CASE UNCHANGED holder
    BY <2>5
  <2> QED
    BY <2>2, <2>3, <2>4, <2>5
       DEF Next, startWebServer, PutUser, PutPrivilege, Sync, Restart, Request, renew_JWT,
           logout, Tick, vars
<1> QED
  BY <1>1, AccountsInit, AccountsNext, PTL DEF Spec, OnlyNobodyListed

(* A token is given for the password and the privilege as they are stored  *)
(* at that moment, and prolonged at UTC only.                              *)
THEOREM TokensCorrect == Spec => TokensEarned
<1> DEFINE Earned(c) == IF pc[c] = "idle"
                        THEN zone = 0 /\ cookie[c] \in now..(now + Window - 1)
                        ELSE pc[c] = "grant" /\ typed[c] = users /\ priv = "admin"
       Given == \A c \in Clients :
                  cookie'[c] > cookie[c] =>
                    IF pc[c] = "idle" THEN zone = 0 /\ cookie[c] \in now..(now + Window - 1)
                    ELSE pc[c] = "grant" /\ typed[c] = users /\ priv = "admin"
<1>1. ASSUME AccountsInv, [Next]_vars, NEW c \in Clients, cookie'[c] > cookie[c] PROVE Earned(c)
  <2> USE <1>1 DEF AccountsInv, TypeOK
  <2>1. CASE UNCHANGED cookie
    BY <2>1
  <2>2. ASSUME NEW d \in Clients, Handler(d) PROVE Earned(c)
    <3>1. d = c /\ pc[c] = "grant" /\ priv # Absent
      BY <2>2, HandlerTypes, AccountsAssumption
    <3> QED
      BY <3>1
  <2>3. ASSUME NEW d \in Clients, logout(d) PROVE FALSE
    BY <2>3 DEF logout
  <2>4. ASSUME NEW d \in Clients, renew_JWT(d) PROVE Earned(c)
    <3>1. d = c /\ pc[c] = "idle"
      BY <2>4 DEF renew_JWT
    <3>2. /\ now <= cookie[c] /\ cookie[c] <= now + TTL /\ cookie[c] # now + TTL
          /\ cookie[c] >= now - zone /\ cookie[c] < now + Window - zone
      BY <2>4, <3>1, AccountsAssumption DEF renew_JWT, Valid, AsLocal
    <3>3. ~(zone >= TTL) /\ ~(zone <= -TTL)
      BY <3>2, AccountsAssumption
    <3>4. zone = 0
      BY <3>3, ZoneAssumption
    <3> QED
      BY <3>1, <3>2, <3>4, AccountsAssumption
  <2> QED
    BY <2>1, <2>2, <2>3, <2>4
       DEF Next, startWebServer, PutUser, PutPrivilege, Sync, Crash, PowerLoss, Restart,
           Request, write_IR_detail, Collect, Tick, vars, logout
<1>2. AccountsInv /\ [Next]_vars => Given
  BY <1>1
<1> QED
  BY <1>2, AccountsInit, AccountsNext, PTL DEF Spec, TokensEarned
=============================================================================
