------------------------------ MODULE Accounts ------------------------------
(***************************************************************************)
(* The web server's accounts: startWebServer and the request handlers for  *)
(* login, dashboard, password, listings and renewal (python/main.py), the  *)
(* databases (python/dbman.py) and the tokens (python/myjwt.py).           *)
(*                                                                         *)
(* LevelDB and plyvel, as dbman uses them: a database is open once at a    *)
(* time in the whole process, or opening it raises; a handle closes when   *)
(* the function that made it returns, and after an exception when the      *)
(* traceback is collected; a put survives the process, and the machine     *)
(* once it has been synced.                                                *)
(*                                                                         *)
(* There is one account and no IR record: nothing calls create_user, and   *)
(* nothing puts a new record into IRs.db.                                  *)
(***************************************************************************)
EXTENDS Integers

CONSTANTS Clients,      \* each with one request at a time and one cookie
          Passwords,    \* what is typed and stored, as hashed for comparison
          Default,      \* the hash reset_admin_user puts
          TTL,          \* life of a token (60 minutes)
          Window,       \* renewal in its last so many minutes (20)
          Zones,        \* the server's offset from UTC, east positive
          MaxTime       \* bound: the clock

Absent == "absent"      \* no record; no cookie is -1

ASSUME AccountsAssumption ==
    /\ Default \in Passwords /\ {Absent, "admin"} \cap Passwords = {}
    /\ {"none", "left"} \cap Clients = {}
    /\ TTL \in Nat /\ Window \in 0..TTL /\ Zones \subseteq Int /\ MaxTime \in Nat
(* No zone lies less than an hour, the life of a token, from UTC. *)
ASSUME ZoneAssumption == \A z \in Zones : z = 0 \/ z >= TTL \/ z <= -TTL

VARIABLES
    server,     \* "boot", "reset" and "grant" (reset_admin_user), "serve", "down"
    users,      \* admin's password in users.db, or Absent
    priv,       \* admin's privilege in priv.db: "admin", or Absent
    synced,     \* <<users, priv>> as the disk has them
    holder,     \* per database: "none", the client whose request has it
                \* open, or "left" (open until a traceback is collected)
    pc,         \* per client: what its request does next; the name of a
                \* database while it lists that one
    typed,      \* per client: the password sent
    cookie,     \* per client: exp of the token it holds, or -1
    zone, now

dbVars == <<users, priv, synced>>
webVars == <<holder, pc, typed, cookie>>
vars == <<server, dbVars, webVars, zone, now>>

Databases == {"users", "priv", "IRs"}

TypeOK ==
    /\ server \in {"boot", "reset", "grant", "serve", "down"}
    /\ users \in Passwords \cup {Absent} /\ priv \in {"admin", Absent}
    /\ synced \in (Passwords \cup {Absent}) \X {"admin", Absent}
    /\ holder \in [Databases -> Clients \cup {"none", "left"}]
    /\ pc \in [Clients -> {"idle", "login", "verify", "privilege", "grant",
                           "count", "check", "change", "store"} \cup Databases]
    /\ typed \in [Clients -> Passwords]
    /\ cookie \in [Clients -> -1..(MaxTime + TTL)]
    /\ zone \in Zones /\ now \in 0..MaxTime

NoRequests ==
    /\ holder' = [d \in Databases |-> "none"]
    /\ pc' = [c \in Clients |-> "idle"]

Init ==
    /\ server = "boot"
    /\ users = Absent /\ priv = Absent /\ synced = <<Absent, Absent>>
    /\ holder = [d \in Databases |-> "none"]
    /\ pc = [c \in Clients |-> "idle"]
    /\ typed = [c \in Clients |-> Default] /\ cookie = [c \in Clients |-> -1]
    /\ zone \in Zones /\ now = 0
-----------------------------------------------------------------------------
(* Mutant: the privilege is looked for as well. *)
startWebServerBoth ==
    /\ server = "boot"
    /\ server' = IF users = Absent \/ priv = Absent THEN "reset" ELSE "serve"
    /\ UNCHANGED <<dbVars, webVars, zone, now>>

(* startWebServer: the databases exist, is there a user "admin"? *)
startWebServer ==
    /\ server = "boot"
    /\ server' = IF users = Absent THEN "reset" ELSE "serve"
    /\ UNCHANGED <<dbVars, webVars, zone, now>>

(* reset_admin_user: the password into one database ... *)
PutUser ==
    /\ server = "reset" /\ server' = "grant"
    /\ users' = Default
    /\ UNCHANGED <<priv, synced, webVars, zone, now>>

(* Mutant: the value put is the other database's. *)
PutPrivilegePassword ==
    /\ server = "grant" /\ server' = "serve"
    /\ priv' = Default
    /\ UNCHANGED <<users, synced, webVars, zone, now>>

(* ... and the privilege into another. *)
PutPrivilege ==
    /\ server = "grant" /\ server' = "serve"
    /\ priv' = "admin"
    /\ UNCHANGED <<users, synced, webVars, zone, now>>

(* LevelDB's files reach the disk, each database's when it likes. *)
Sync ==
    /\ synced' \in {<<users, synced[2]>>, <<synced[1], priv>>}
    /\ UNCHANGED <<server, users, priv, webVars, zone, now>>

(* The process ends; clients keep their cookies. *)
Crash ==
    /\ server # "down" /\ server' = "down"
    /\ NoRequests
    /\ UNCHANGED <<dbVars, typed, cookie, zone, now>>

PowerLoss ==
    /\ server' = "down"
    /\ users' = synced[1] /\ priv' = synced[2]
    /\ NoRequests
    /\ UNCHANGED <<synced, typed, cookie, zone, now>>

Restart ==
    /\ server = "down" /\ server' = "boot"
    /\ UNCHANGED <<dbVars, webVars, zone, now>>
-----------------------------------------------------------------------------
(* plyvel.DB: the handle, or an exception that ends the request. *)
Open(c, d, step) ==
    IF holder[d] = "none"
    THEN holder' = [holder EXCEPT ![d] = c] /\ pc' = [pc EXCEPT ![c] = step]
    ELSE UNCHANGED holder /\ pc' = [pc EXCEPT ![c] = "idle"]

(* Mutant: the handle outlives the function. *)
CloseNot(d, c, step) ==
    /\ UNCHANGED holder
    /\ pc' = [pc EXCEPT ![c] = step]

(* The function returns and its handle closes; the request goes on. *)
Close(d, c, step) ==
    /\ holder' = [holder EXCEPT ![d] = "none"]
    /\ pc' = [pc EXCEPT ![c] = step]

(* jwt.decode takes a token until it expires. *)
Valid(c) == cookie[c] >= now

(* A request comes in: with a password, or for something only a valid      *)
(* token gets; the others are turned away at once.                         *)
Request(c) ==
    /\ server = "serve" /\ pc[c] = "idle"
    /\ \/ pc' = [pc EXCEPT ![c] = "login"]
       \/ /\ Valid(c)
          /\ \E step \in {"count", "check"} \cup Databases : pc' = [pc EXCEPT ![c] = step]
    /\ \E password \in Passwords : typed' = [typed EXCEPT ![c] = password]
    /\ UNCHANGED <<server, dbVars, holder, cookie, zone, now>>

(* verify_user opens users.db, for a login or before a change ... *)
OpenUsers(c) ==
    /\ \/ pc[c] = "login" /\ Open(c, "users", "verify")
       \/ pc[c] = "check" /\ Open(c, "users", "change")
    /\ UNCHANGED <<server, dbVars, typed, cookie, zone, now>>

(* ... compares, and returns. *)
verify_user(c) ==
    /\ \/ pc[c] = "verify"
          /\ Close("users", c, IF typed[c] = users THEN "privilege" ELSE "idle")
       \/ pc[c] = "change" /\ holder["users"] = c
          /\ Close("users", c, IF typed[c] = users THEN "store" ELSE "idle")
    /\ UNCHANGED <<server, dbVars, typed, cookie, zone, now>>

OpenPriv(c) ==
    /\ pc[c] = "privilege" /\ Open(c, "priv", "grant")
    /\ UNCHANGED <<server, dbVars, typed, cookie, zone, now>>

(* get_privilage; its text for nobody has no decode, which raises once the *)
(* handle is closed.  Else generate_JWT.                                   *)
get_privilage(c) ==
    /\ pc[c] = "grant" /\ Close("priv", c, "idle")
    /\ cookie' = IF priv = Absent THEN cookie ELSE [cookie EXCEPT ![c] = now + TTL]
    /\ UNCHANGED <<server, dbVars, typed, zone, now>>

(* get_user_count, for the dashboard, with the handle open as it counts. *)
get_user_count(c) ==
    /\ pc[c] = "count"
    /\ IF holder["users"] = c THEN Close("users", c, "idle") ELSE Open(c, "users", "count")
    /\ UNCHANGED <<server, dbVars, typed, cookie, zone, now>>

(* An exception: the request ends, the handle stays with the traceback. *)
Raise(d, c) ==
    /\ holder' = [holder EXCEPT ![d] = "left"]
    /\ pc' = [pc EXCEPT ![c] = "idle"]

(* change_user_pass finds the user, and sha1 of a str raises. *)
change_user_pass(c) ==
    /\ pc[c] = "store"
    /\ IF holder["users"] # c THEN Open(c, "users", "store") ELSE Raise("users", c)
    /\ UNCHANGED <<server, dbVars, typed, cookie, zone, now>>

Empty(d) == CASE d = "users" -> users = Absent [] d = "priv" -> priv = Absent [] OTHER -> TRUE

(* Mutant: num is made a number, and the records come. *)
ListDatabaseCounted(c) ==
    /\ pc[c] \in Databases
    /\ IF holder[pc[c]] # c THEN Open(c, pc[c], pc[c])
       ELSE Close(pc[c], c, "idle") \/ Raise(pc[c], c)
    /\ UNCHANGED <<server, dbVars, typed, cookie, zone, now>>

(* get_user_list, get_priv_list, get_IR_dict: to seek to a str raises, and *)
(* after a record so does the comparison of i with num, a str; from the    *)
(* start of a database without a record the answer is {}.  get_IR_dict     *)
(* always seeks.                                                           *)
ListDatabase(c) ==
    /\ pc[c] \in Databases
    /\ IF holder[pc[c]] # c THEN Open(c, pc[c], pc[c])
       ELSE \/ pc[c] # "IRs" /\ Empty(pc[c]) /\ Close(pc[c], c, "idle")
            \/ Raise(pc[c], c)
    /\ UNCHANGED <<server, dbVars, typed, cookie, zone, now>>

(* A learner's write_IR_detail: a str for a key raises. *)
write_IR_detail ==
    /\ server = "serve" /\ holder["IRs"] = "none"
    /\ holder' = [holder EXCEPT !["IRs"] = "left"]
    /\ UNCHANGED <<server, dbVars, pc, typed, cookie, zone, now>>

Collect(d) ==
    /\ holder[d] = "left"
    /\ holder' = [holder EXCEPT ![d] = "none"]
    /\ UNCHANGED <<server, dbVars, pc, typed, cookie, zone, now>>

(* Mutant: the time is converted as UTC. *)
AsUTC(time) == time

(* int(time.strftime('%s')) of a UTC time taken for a local one. *)
AsLocal(time) == time - zone

(* renew_JWT: an error for an expired token, a new one in the window. *)
renew_JWT(c) ==
    /\ server = "serve" /\ pc[c] = "idle" /\ Valid(c)
    /\ cookie[c] >= AsLocal(now) /\ cookie[c] < AsLocal(now + Window)
    /\ cookie' = [cookie EXCEPT ![c] = now + TTL]
    /\ UNCHANGED <<server, dbVars, holder, pc, typed, zone, now>>

logout(c) ==
    /\ server = "serve" /\ pc[c] = "idle"
    /\ cookie' = [cookie EXCEPT ![c] = -1]
    /\ UNCHANGED <<server, dbVars, holder, pc, typed, zone, now>>

Tick ==
    /\ now < MaxTime /\ now' = now + 1
    /\ UNCHANGED <<server, dbVars, webVars, zone>>

Handler(c) ==
    \/ OpenUsers(c) \/ verify_user(c) \/ OpenPriv(c) \/ get_privilage(c)
    \/ get_user_count(c) \/ change_user_pass(c) \/ ListDatabase(c)

Next ==
    \/ startWebServer \/ PutUser \/ PutPrivilege
    \/ Sync \/ Crash \/ PowerLoss \/ Restart
    \/ \E c \in Clients : Request(c) \/ Handler(c) \/ renew_JWT(c) \/ logout(c)
    \/ write_IR_detail \/ (\E d \in Databases : Collect(d)) \/ Tick

Spec == Init /\ [][Next]_vars
-----------------------------------------------------------------------------
(* main.py:250-253, dbman.py:26-33.  Whatever crash came before, a server  *)
(* that takes requests has the user "admin".                               *)
ServedAdminKnown == server = "serve" => users # Absent

(* The account is there, its privilege is not, and nobody is about to put it. *)
HalfAdmin == users # Absent /\ priv = Absent /\ server # "grant"

(* main.py:251-252 against dbman.py:31-33.  When a crash has come between  *)
(* the two puts, no start, no request and no further crash ever completes  *)
(* the account, unless the disk loses the first put too; and meanwhile no  *)
(* login gets a token.                                                     *)
HalfAdminStays ==
    [][ HalfAdmin =>
          /\ HalfAdmin' \/ users' = Absent
          /\ \A c \in Clients : pc[c] = "grant" => cookie'[c] <= cookie[c] ]_vars

(* The database a request has open at this point, if it has. *)
Uses(c) ==
    CASE pc[c] \in {"verify", "change", "count", "store"} -> "users"
      [] pc[c] = "grant" -> "priv"
      [] OTHER -> pc[c]

(* dbman.py:34-49, 59-64, 88-107, 115-160.  A database is held by a        *)
(* request that is using it or by an exception's traceback, never by one   *)
(* that has ended; and two requests that have opened a database, or look   *)
(* at a record, are never in the same one.                                 *)
HoldersAtWork ==
    /\ \A d \in Databases : holder[d] \in Clients => Uses(holder[d]) = d
    /\ \A c \in Clients : pc[c] \in {"verify", "change", "grant"} => holder[Uses(c)] = c

(* main.py:126-171, dbman.py:88-107, 115-152.  A listing is answered only  *)
(* by get_priv_list, and only while a crash has left the account without   *)
(* its privilege; all others end in an exception.                          *)
OnlyNobodyListed ==
    [][ \A c \in Clients : \A d \in Databases :
          pc[c] = d /\ holder[d] = c /\ holder'[d] = "none" /\ server' = server =>
            d = "priv" /\ HalfAdmin ]_vars

(* main.py:45-53, myjwt.py:42-51.  A client gets a token, or a longer one, *)
(* in two ways: for the administrator's password as it is stored when the  *)
(* token is made, not only when it was compared, and while the account has *)
(* its privilege; or for a token in its window, where local time is        *)
(* UTC: east of it no token ever comes into its window, and west of it     *)
(* every token is an expired one as soon as it is issued.                  *)
TokensEarned ==
    [][ \A c \in Clients :
          cookie'[c] > cookie[c] =>
            IF pc[c] = "idle" THEN zone = 0 /\ cookie[c] \in now..(now + Window - 1)
            ELSE pc[c] = "grant" /\ typed[c] = users /\ priv = "admin" ]_vars
=============================================================================
