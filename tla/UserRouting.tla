---------------------------- MODULE UserRouting ----------------------------
(***************************************************************************)
(* CREATE / ALTER / DROP USER and CREATE / DROP ROLE (dataglot-server,     *)
(* user_admin.rs).  The meta store keys a user by organisation and name; a *)
(* login knows only the name, so StoreUserPasswordSource looks it up with  *)
(* find_user, which gives the first organisation that has it.  The startup *)
(* observer (server.rs) then settles the organisation of the session: the  *)
(* one the configuration gives the name, else the one the lookup found,    *)
(* else the boot organisation.  CREATE USER does not look at the           *)
(* configuration.                                                          *)
(*                                                                         *)
(* A worker is a statement's run; it awaits the store between its reads    *)
(* and its write.  One whose client cancelled it at the write, which the   *)
(* store makes all the same, is a worker still at that write.  A password  *)
(* is a value the envelope cipher protects and gives back.  IF [NOT]       *)
(* EXISTS only chooses between NoOp and an error, so a statement just ends *)
(* there.                                                                  *)
(***************************************************************************)
EXTENDS Naturals, FiniteSetsExt

CONSTANTS
    Orgs,       \* organisations, in their sort order
    Names,      \* user names
    Roles,      \* role names
    Passwords,
    Workers,    \* runs of the statements that administer users
    HomeOrg,    \* the boot organisation
    None

UserConstants ==
    /\ Orgs \subseteq Nat /\ HomeOrg \in Orgs
    /\ None \notin Passwords /\ None \notin Orgs
    /\ "no user" \notin Passwords \cup {None}

VARIABLES
    mode,   \* how a login is authenticated: md5 and scram are "password"
    profile,\* the organisation of the identity the configuration has for a name
    cipher, \* DATAGLOT_SECRET_KEY is set
    users,  \* the stored user per organisation and name
    roles,  \* the stored roles: (organisation, role)
    pc,     \* where a worker's statement is
    stmt,   \* the statement; an ALTER keeps the superuser flag it has read
    raced   \* history: the names another statement wrote between the last read
            \* of a CREATE or ALTER and its write

config == <<mode, profile, cipher>>
vars == <<config, users, roles, pc, stmt, raced>>

Records == [super : BOOLEAN, password : Passwords \cup {None}]
NoUser == [super |-> FALSE, password |-> "no user"]
Statements ==
    [op : {"create", "alter", "drop"}, org : Orgs, name : Names,
     super : BOOLEAN, password : Passwords \cup {None}]
RoleStatements == [op : {"create role", "drop role"}, org : Orgs, name : Roles]

\* The type of every variable: what is about to be stored is a user whose
\* password could be protected.
TypeOK ==
    /\ mode \in {"trust", "password"}
    /\ profile \in [Names -> Orgs \cup {None}]
    /\ cipher \in BOOLEAN
    /\ users \in [Orgs -> [Names -> Records \cup {NoUser}]]
    /\ roles \subseteq Orgs \X Roles
    /\ pc \in [Workers -> {"idle", "get", "find", "put", "delete", "list", "put role", "delete role"}]
    /\ \A w \in Workers :
          /\ pc[w] \in {"get", "find", "put", "delete"} => stmt[w] \in Statements
          /\ pc[w] \in {"list", "put role", "delete role"} => stmt[w] \in RoleStatements
          /\ pc[w] = "put" => stmt[w].password = None \/ cipher
    /\ raced \subseteq Names

Init ==
    /\ mode \in {"trust", "password"}
    /\ profile \in [Names -> Orgs \cup {None}]
    /\ cipher \in BOOLEAN
    /\ users = [o \in Orgs |-> [n \in Names |-> NoUser]]
    /\ roles = {}
    /\ pc = [w \in Workers |-> "idle"]
    /\ stmt = [w \in Workers |-> None]
    /\ raced = {}

Record(w) == users[stmt[w].org][stmt[w].name]
Owners(n) == {o \in Orgs : users[o][n] # NoUser}

\* The organisation find_user gives a name.
FindUser(n) == IF Owners(n) = {} THEN None ELSE Min(Owners(n))

\* The store's passwords are asked before the configuration's, where logins
\* have passwords and the server can decrypt them.
AsksStore == mode = "password" /\ cipher
AuthOrg(n) == IF AsksStore THEN FindUser(n) ELSE None

\* The organisation a session of this name runs for.
SessionOrg(n) ==
    IF profile[n] # None THEN profile[n]
    ELSE IF AuthOrg(n) # None THEN AuthOrg(n)
    ELSE HomeOrg

\* A login with this name is let in by the password of a stored user.
ByStoredPassword(n) ==
    AsksStore /\ FindUser(n) # None /\ users[FindUser(n)][n].password # None

-----------------------------------------------------------------------------

Goes(w, at) == pc' = [pc EXCEPT ![w] = at] /\ UNCHANGED stmt
Ends(w) == pc' = [pc EXCEPT ![w] = "idle"] /\ stmt' = [stmt EXCEPT ![w] = None]
GoesIf(w, ok, at) == IF ok THEN Goes(w, at) ELSE Ends(w)
Reads == UNCHANGED <<config, users, roles, raced>>

\* History: another statement is about to write the user w writes.
Races(w) ==
    raced' = IF \E v \in Workers \ {w} : pc[v] = "put" /\ stmt[v].name = stmt[w].name
                THEN raced \cup {stmt[w].name} ELSE raced

FirstStep(op) ==
    CASE op = "drop" -> "delete"
      [] op = "create role" -> "list"
      [] op = "drop role" -> "delete role"
      [] OTHER -> "get"

Apply(w) ==
    /\ pc[w] = "idle"
    /\ \E s \in Statements \cup RoleStatements :
          /\ s.op = "alter" => s.password # None
          /\ stmt' = [stmt EXCEPT ![w] = s]
          /\ pc' = [pc EXCEPT ![w] = FirstStep(s.op)]
    /\ Reads

Protected(w) == stmt[w].password # None => cipher

\* get_user: a CREATE wants the name free in its own organisation.
CreateGet(w) ==
    /\ pc[w] = "get" /\ stmt[w].op = "create"
    /\ GoesIf(w, Record(w) = NoUser, "find")
    /\ Reads

\* find_user: and free in every other, then the password is protected.
NameFree_OwnOrgOnly(w) == TRUE   \* mutant: names are unique per organisation
NameFree(w) == FindUser(stmt[w].name) = None

CreateFind(w) ==
    /\ pc[w] = "find"
    /\ GoesIf(w, NameFree(w) /\ Protected(w), "put")
    /\ Reads

\* An ALTER reads the user, for the flag it writes back with the password.
KeptFlag(w) == Record(w).super

AlterGet(w) ==
    /\ pc[w] = "get" /\ stmt[w].op = "alter"
    /\ IF Record(w) # NoUser /\ Protected(w)
          THEN /\ stmt' = [stmt EXCEPT ![w].super = KeptFlag(w)]
               /\ pc' = [pc EXCEPT ![w] = "put"]
          ELSE Ends(w)
    /\ Reads

PutUser(w) ==
    /\ pc[w] = "put"
    /\ users' = [users EXCEPT ![stmt[w].org][stmt[w].name] =
                    [super |-> stmt[w].super, password |-> stmt[w].password]]
    /\ Ends(w)
    /\ Races(w)
    /\ UNCHANGED <<config, roles>>

DeleteUser(w) ==
    /\ pc[w] = "delete"
    /\ users' = [users EXCEPT ![stmt[w].org][stmt[w].name] = NoUser]
    /\ Ends(w)
    /\ Races(w)
    /\ UNCHANGED <<config, roles>>

CreateRoleList(w) ==
    /\ pc[w] = "list"
    /\ GoesIf(w, <<stmt[w].org, stmt[w].name>> \notin roles, "put role")
    /\ Reads

PutRole(w) ==
    /\ pc[w] = "put role"
    /\ roles' = roles \cup {<<stmt[w].org, stmt[w].name>>}
    /\ Ends(w)
    /\ UNCHANGED <<config, users, raced>>

DeleteRole(w) ==
    /\ pc[w] = "delete role"
    /\ roles' = roles \ {<<stmt[w].org, stmt[w].name>>}
    /\ Ends(w)
    /\ UNCHANGED <<config, users, raced>>

\* The store fails a call, or the process stops: the statement is gone and
\* what is stored stays.
Abandoned(w) == pc[w] # "idle" /\ Ends(w) /\ Reads

Next ==
    \E w \in Workers :
        \/ Apply(w) \/ CreateGet(w) \/ CreateFind(w) \/ AlterGet(w)
        \/ PutUser(w) \/ DeleteUser(w)
        \/ CreateRoleList(w) \/ PutRole(w) \/ DeleteRole(w)
        \/ Abandoned(w)

Spec == Init /\ [][Next]_vars

-----------------------------------------------------------------------------
(* Properties.                                                             *)

\* A session let in by a stored user's password runs for the organisation of
\* every user stored under its name, unless the configuration gives the name
\* an organisation, which wins over the stored one, or two statements raced
\* for the name: CREATE USER keeps names unique across organisations, so no
\* user is locked out by, or sent to the organisation of, another one.  (Under
\* trust, or without a key, no stored password lets anybody in.)
LoginFindsOwner ==
    \A o \in Orgs, n \in Names :
        /\ ByStoredPassword(n) /\ n \notin raced
        /\ users[o][n] # NoUser /\ profile[n] = None
        => SessionOrg(n) = o
=============================================================================
