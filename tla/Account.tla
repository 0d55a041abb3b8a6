---------------------------------- MODULE Account ----------------------------------
(***************************************************************************)
(* The Account service.  Every operation on an existing account reads the  *)
(* whole row, works on the copy, and writes every mutable column of the    *)
(* copy back in one UPDATE without a lock or a version check.  Requests    *)
(* interleave between the read and the write, and may end there.           *)
(*                                                                         *)
(* The two contact columns behave alike, so one of them stands for both.   *)
(* Field formats and token contents are left out; a hash is the password   *)
(* it was made of and the cost parameters it was made with.                *)
(***************************************************************************)
EXTENDS FiniteSets

CONSTANTS
  User,        \* account identifiers the id generator may hand out
  StudentNo,   \* student numbers
  Password,    \* passwords
  Nickname,    \* nicknames
  Contact,     \* contact values
  Worker       \* requests served at the same time

VARIABLES
  accounts,   \* accounts: row of each account, or NoAccount
  requests,   \* what each worker is doing
  tokens,     \* access tokens handed out: the account and the password proved
  chosen,     \* history: passwords the owner of each account ever set
  told,       \* history: the last value each owner gave every column
  since,      \* history: columns others have set since a request read its row
  undone      \* history: columns in which an older value was written back

history == <<chosen, told, since, undone>>
accountVars == <<accounts, requests, tokens, history>>

Cost == {"weak", "current"}   \* argon2id parameters, before and after a change
Null == "null"
ASSUME NullAssumption == Null \notin Password \cup Nickname \cup Contact

Hash == [of : Password, cost : Cost]
Account == [studentNo : StudentNo, hash : Hash, nickname : Nickname,
            contact : Contact \cup {Null}]
NoAccount == [studentNo |-> Null]
NoRequest == [pc |-> "idle"]

(* What a request asks for: a new value of some columns, Null for the rest. *)
Column == {"password", "nickname", "contact"}
Asks == [password : Password \cup {Null}, nickname : Nickname \cup {Null},
         contact : Contact \cup {Null}]
Nothing == [password |-> Null, nickname |-> Null, contact |-> Null]
Columns(row) == [password |-> row.hash.of, nickname |-> row.nickname, contact |-> row.contact]
NamedBy(asks) == {c \in Column : asks[c] # Null}

Exists(u) == accounts[u] # NoAccount
Verify(password, u) == accounts[u].hash.of = password

AccountInit ==
  /\ accounts = [u \in User |-> NoAccount]
  /\ requests = [w \in Worker |-> NoRequest]
  /\ tokens = {}
  /\ chosen = [u \in User |-> {}]
  /\ told = [u \in User |-> Nothing]
  /\ since = [w \in Worker |-> {}]
  /\ undone = [u \in User |-> {}]

Token(u, password) == [user |-> u, password |-> password]

-----------------------------------------------------------------------------
(* One INSERT; the unique constraint on student_no decides.  The parameters *)
(* of the hash may be the ones a later deployment no longer uses.          *)
Register(n, u, password, nickname, contact) ==
  /\ ~Exists(u)
  /\ \A v \in User : accounts[v].studentNo # n
  /\ \E cost \in Cost :
       accounts' = [accounts EXCEPT ![u] =
         [studentNo |-> n, hash |-> [of |-> password, cost |-> cost],
          nickname |-> nickname, contact |-> contact]]
  /\ chosen' = [chosen EXCEPT ![u] = {password}]
  /\ told' = [told EXCEPT ![u] =
       [password |-> password, nickname |-> nickname, contact |-> contact]]
  /\ tokens' = tokens \cup {Token(u, password)}
  /\ UNCHANGED <<requests, since, undone>>

(* The row a request will write: its copy of the row it has read.          *)
WillWrite(w, op, u, copy, asks) ==
  /\ requests' = [requests EXCEPT ![w] =
       [pc |-> "write", op |-> op, user |-> u, copy |-> copy, asks |-> asks]]
  /\ since' = [since EXCEPT ![w] = {}]

(* Mutant: a contact that is omitted is cleared. *)
UpdateProfileClearing(w, u) ==
  /\ requests[w] = NoRequest
  /\ Exists(u)
  /\ \E nickname \in Nickname \cup {Null}, contact \in Contact \cup {Null} :
       /\ {nickname, contact} # {Null}
       /\ WillWrite(w, "profile", u,
            [accounts[u] EXCEPT !.nickname = IF nickname = Null THEN @ ELSE nickname,
                                !.contact = contact],
            [Nothing EXCEPT !.nickname = nickname, !.contact = contact])
  /\ UNCHANGED <<accounts, tokens, chosen, told, undone>>

(* Omitted fields keep the value that was read. *)
UpdateProfile(w, u) ==
  /\ requests[w] = NoRequest
  /\ Exists(u)
  /\ \E nickname \in Nickname \cup {Null}, contact \in Contact \cup {Null} :
       /\ {nickname, contact} # {Null}
       /\ WillWrite(w, "profile", u,
            [accounts[u] EXCEPT !.nickname = IF nickname = Null THEN @ ELSE nickname,
                                !.contact = IF contact = Null THEN @ ELSE contact],
            [Nothing EXCEPT !.nickname = nickname, !.contact = contact])
  /\ UNCHANGED <<accounts, tokens, chosen, told, undone>>

ChangePassword(w, u, old, new) ==
  /\ requests[w] = NoRequest
  /\ Exists(u)
  /\ Verify(old, u)
  /\ WillWrite(w, "password", u,
       [accounts[u] EXCEPT !.hash = [of |-> new, cost |-> "current"]],
       [Nothing EXCEPT !.password = new])
  /\ chosen' = [chosen EXCEPT ![u] = @ \cup {new}]
  /\ UNCHANGED <<accounts, tokens, told, undone>>

(* Mutant: the token is issued before the password is verified. *)
LoginUnverified(w, u, password) ==
  /\ requests[w] = NoRequest
  /\ Exists(u)
  /\ tokens' = tokens \cup {Token(u, password)}
  /\ UNCHANGED <<accounts, requests, history>>

(* A hash made with other parameters than the current ones is replaced on  *)
(* the way, by the hash of the password just proved; otherwise, or when    *)
(* the replacement fails, the token is issued all the same.                *)
Login(w, u, password) ==
  /\ requests[w] = NoRequest
  /\ Exists(u)
  /\ Verify(password, u)
  /\ \/ /\ accounts[u].hash.cost = "weak"
        /\ WillWrite(w, "login", u, [accounts[u] EXCEPT !.hash.cost = "current"], Nothing)
        /\ UNCHANGED tokens
     \/ /\ tokens' = tokens \cup {Token(u, password)}
        /\ UNCHANGED <<requests, since>>
  /\ UNCHANGED <<accounts, chosen, told, undone>>

(* UPDATE ... SET password_hash, nickname, wechat, qq, updated_at. *)
Write(w) ==
  LET r == requests[w] IN
  /\ r.pc = "write"
  /\ accounts' = [accounts EXCEPT ![r.user] = r.copy]
  /\ requests' = [requests EXCEPT ![w] = NoRequest]
  /\ tokens' = IF r.op = "login"
               THEN tokens \cup {Token(r.user, r.copy.hash.of)} ELSE tokens
  /\ told' = [told EXCEPT ![r.user] =
       [c \in Column |-> IF r.asks[c] = Null THEN @[c] ELSE r.asks[c]]]
  /\ since' = [v \in Worker |->
       IF requests[v].pc = "write" /\ requests[v].user = r.user
       THEN since[v] \cup NamedBy(r.asks) ELSE since[v]]
  /\ undone' = [undone EXCEPT ![r.user] = (@ \cup since[w]) \ NamedBy(r.asks)]
  /\ UNCHANGED chosen

(* The database or the process fails before the write.  A login issues its *)
(* token even if the rehashed password could not be written.               *)
Fail(w) ==
  LET r == requests[w] IN
  /\ r.pc = "write"
  /\ requests' = [requests EXCEPT ![w] = NoRequest]
  /\ \/ tokens' = tokens
     \/ r.op = "login" /\ tokens' = tokens \cup {Token(r.user, r.copy.hash.of)}
  /\ UNCHANGED <<accounts, history>>

AccountNext ==
  \/ \E n \in StudentNo, u \in User, password \in Password, nickname \in Nickname,
        contact \in Contact \cup {Null} : Register(n, u, password, nickname, contact)
  \/ \E w \in Worker :
       \/ \E u \in User :
            \/ UpdateProfile(w, u)
            \/ \E old, new \in Password : ChangePassword(w, u, old, new)
            \/ \E password \in Password : Login(w, u, password)
       \/ Write(w)
       \/ Fail(w)

AccountSpec == AccountInit /\ [][AccountNext]_accountVars

-----------------------------------------------------------------------------
(* Properties. *)

(* However profile edits, rehashes and password changes overlap, the       *)
(* stored password is one the owner of the account set, and every token    *)
(* was given for such a password.                                          *)
PasswordsAreTheOwners ==
  /\ \A u \in User : Exists(u) => accounts[u].hash.of \in chosen[u]
  /\ \A k \in tokens : k.password \in chosen[k.user]

(* An edit, a rehash or a password change never loses what it does not     *)
(* change: the value an owner last gave a column is the one stored, unless *)
(* a request that had read the row before has written its older copy over  *)
(* it.  In particular an old password comes back only with a request that  *)
(* began before the change, and the next change settles it.                *)
LastChangeIsKept ==
  \A u \in User, c \in Column :
    Exists(u) /\ c \notin undone[u] => Columns(accounts[u])[c] = told[u][c]

(* The documents' sentence: a contact that was filled in cannot be deleted *)
(* (so a product on sale always has a seller who can be reached).          *)
ContactsStay ==
  [][\A u \in User :
       Exists(u) /\ accounts[u].contact # Null => accounts'[u].contact # Null]_accountVars
=============================================================================
