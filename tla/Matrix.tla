--------------------------------- MODULE Matrix ---------------------------------
(***************************************************************************)
(* CmMatrix with its clients, and how they are saved: opening the keyring  *)
(* and the database, the list of clients, and the flags with which         *)
(* CmClient keeps track of what has yet to be written to either            *)
(* (src/src/cm-matrix.c, src/src/cm-client.c, src/src/cm-secret-store.c).  *)
(*                                                                         *)
(* The keyring has one secret for each login, the database one account.    *)
(* A request to either takes effect when it is answered.                   *)
(***************************************************************************)
EXTENDS Integers, Sequences, SequencesExt, FiniteSets, FiniteSetsExt

CONSTANTS
  Login,        \* login IDs
  Client,       \* clients that are made at some time
  login,        \* [Client -> Login]
  Stored,       \* what the keyring may hold at first
  Given,        \* secrets the application may add, by login (a bound of the model)
  MaxChanges,   \* how often some client changes (a bound of the model)
  MaxStarts,    \* how often the program is started (a bound of the model)
  EarlyChanges, \* whether a stored client is enabled or disabled before it is loaded
  EarlyClients, \* whether clients are made while the database is being opened
  NULL

Secret  == [user: BOOLEAN, token: BOOLEAN, enabled: BOOLEAN]
Account == [pickle: BOOLEAN, batch: Nat]

ASSUME LoginAssumption ==
         /\ IsFiniteSet(Login) /\ login \in [Client -> Login]
         /\ \A l \in Login : \E c \in Client : login[c] = l
ASSUME SecretsAssumption ==
         /\ NULL \notin Secret
         /\ Stored \subseteq [Login -> Secret \cup {NULL}]
         /\ DOMAIN Given \subseteq Login /\ Given \in [DOMAIN Given -> Secret]
ASSUME BoundsAssumption ==
         /\ MaxChanges \in Nat /\ MaxStarts \in Nat
         /\ EarlyChanges \in BOOLEAN /\ EarlyClients \in BOOLEAN

VARIABLES
  matrix,   \* CmMatrix: opening, secrets_loaded, db_loaded, accounts (read from
            \* the keyring), clients, to_save, adding; starts and changes so far
  client,   \* the clients
  flight,   \* requests to the keyring and the database
  keyring,  \* [Login -> Secret \cup {NULL}]
  db        \* [Login -> Account \cup {NULL}]

vars == <<matrix, client, flight, keyring, db>>

\* use: none, made (the application or the matrix refers to it) or dropped;
\* self_change does not last longer than a call; in_store: it was enabled in the
\* keyring and is to be; enc: there is a CmEnc with the account's keys
NoClient ==
  [ use |-> "none", no_save |-> FALSE, user |-> FALSE, token |-> FALSE,
    enabled |-> FALSE, in_store |-> FALSE, enc |-> FALSE, batch |-> 0,
    saving_client |-> FALSE, pending_client |-> FALSE,
    saving_secret |-> FALSE, pending_secret |-> FALSE ]

\* With cm_client_get_enabled(): a client is stored as enabled while it is saved to
\* be listed
SecretOf(k, then) ==
  [ user |-> k.user, token |-> k.token,
    enabled |-> k.enabled \/ k.in_store \/ then = "list" ]
AccountOf(k) == [pickle |-> k.enc, batch |-> k.batch]

NoMatrix(starts, changes) ==
  [ opening |-> "no", secrets_loaded |-> FALSE, db_loaded |-> FALSE,
    accounts |-> [l \in Login |-> NULL], clients |-> <<>>, to_save |-> {},
    adding |-> <<>>, starts |-> starts, changes |-> changes ]

-----------------------------------------------------------------------------
(* Saving.  What a call does to a client is a function of s: the client,   *)
(* and the requests that the call has sent for it.                         *)

Storing(c, value, then) == [op |-> "store", client |-> c, value |-> value, then |-> then]
Saving(c, value) == [op |-> "save", client |-> c, value |-> value]
Loading(c)       == [op |-> "load", client |-> c]
Clearing(c)      == [op |-> "clear", client |-> c]

Only(k) == [k |-> k, sent |-> {}]

\* Without the flag that the account is being saved
UnflaggedSaveAccount(s, c) ==
  IF s.k.no_save \/ ~s.k.pending_client \/ s.k.saving_client \/ ~s.k.token THEN s
  ELSE [ k |-> [s.k EXCEPT !.pending_client = FALSE],
         sent |-> s.sent \cup {Saving(c, AccountOf(s.k))} ]

\* The first half of cm_client_save(): the account, with what is known now
SaveAccount(s, c) ==
  IF s.k.no_save \/ ~s.k.pending_client \/ s.k.saving_client \/ ~s.k.token THEN s
  ELSE [ k |-> [s.k EXCEPT !.saving_client = TRUE, !.pending_client = FALSE],
         sent |-> s.sent \cup {Saving(c, AccountOf(s.k))} ]

\* cm_client_save_secrets_async(), if they are not being saved already; it marks
\* them as saved, which saves the account
SaveSecrets(s, c, then) ==
  LET k == [s.k EXCEPT !.saving_secret = TRUE, !.pending_secret = FALSE]
      t == SaveAccount([k |-> k, sent |-> s.sent], c)
  IN  [k |-> t.k, sent |-> t.sent \cup {Storing(c, SecretOf(s.k, then), then)}]

\* cm_client_save()
Save(s, c) ==
  LET t == SaveAccount(s, c)
  IN  IF ~t.k.no_save /\ t.k.pending_secret /\ ~t.k.saving_secret
      THEN SaveSecrets(t, c, "nothing") ELSE t

\* client_mark_for_save()
Marked(s, c, account, secret) ==
  IF s.k.no_save THEN s
  ELSE Save([ k |-> [s.k EXCEPT !.pending_client = @ \/ account,
                                !.pending_secret = @ \/ secret],
              sent |-> s.sent ], c)

\* The call leaves these requests of those that were in flight
Becomes(c, s, rest) ==
  client' = [client EXCEPT ![c] = s.k] /\ flight' = rest \cup s.sent

Change(c) ==
  /\ matrix.changes < MaxChanges
  /\ EarlyChanges \/ client[c].enc \/ ~client[c].token
  /\ matrix' = [matrix EXCEPT !.changes = @ + 1]

-----------------------------------------------------------------------------
(* Opening.                                                                *)

cm_matrix_is_ready == matrix.db_loaded \/ matrix.secrets_loaded

Init ==
  /\ keyring \in Stored
  /\ db = [l \in Login |-> IF keyring[l] # NULL /\ keyring[l].token
                           THEN [pickle |-> TRUE, batch |-> 0] ELSE NULL]
  /\ client = [c \in Client |-> NoClient]
  /\ flight = {}
  /\ matrix = NoMatrix(1, 0)

\* cm_matrix_open_async(), which refuses to do so again once it is ready
Open ==
  /\ ~cm_matrix_is_ready /\ matrix.opening = "no"
  /\ matrix' = [matrix EXCEPT !.opening = "secrets"]
  /\ UNCHANGED <<client, flight, keyring, db>>

\* matrix_store_load_cb()
SecretsLoaded(ok) ==
  /\ matrix.opening = "secrets"
  /\ matrix' = IF ok THEN [matrix EXCEPT !.opening = "db", !.secrets_loaded = TRUE,
                                         !.accounts = keyring]
               ELSE [matrix EXCEPT !.opening = "no"]
  /\ UNCHANGED <<client, flight, keyring, db>>

\* cm_client_new_from_secret()
FromSecret(secret) ==
  [NoClient EXCEPT !.use = "made", !.user = secret.user, !.token = secret.token,
                   !.in_store = secret.enabled]

\* A client for each of these logins that has not been made yet
Unused(l) == CHOOSE c \in Client : login[c] = l /\ client[c] = NoClient
ClientsOf(logins) == [i \in DOMAIN logins |-> Unused(logins[i])]

\* cm_client_enable_as_in_store(), which saves nothing; a client is loaded first if
\* it has been stored
EnableAsInStore(s, c) ==
  IF ~s.k.in_store THEN s
  ELSE [ k |-> [s.k EXCEPT !.enabled = TRUE, !.in_store = FALSE],
         sent |-> s.sent \cup (IF s.k.token THEN {Loading(c)} ELSE {}) ]

\* load_accounts_from_secrets(), for one of the accounts
LoadAccount(c) == EnableAsInStore(Only(FromSecret(matrix.accounts[login[c]])), c)

\* db_open_cb(); the keyring has its secrets in any order
DbOpened(ok) ==
  /\ matrix.opening = "db"
  /\ IF ok
     THEN \E logins \in SetToSeqs({l \in Login : matrix.accounts[l] # NULL}) :
            LET clients == ClientsOf(logins)
            IN  /\ matrix' = [matrix EXCEPT !.opening = "no", !.db_loaded = TRUE,
                                            !.clients = @ \o clients]
                /\ client' = [c \in Client |-> IF c \in Range(clients) THEN LoadAccount(c).k
                                               ELSE client[c]]
                /\ flight' = flight \cup UNION {LoadAccount(c).sent : c \in Range(clients)}
     ELSE /\ matrix' = [matrix EXCEPT !.opening = "no"]
          /\ UNCHANGED <<client, flight>>
  /\ UNCHANGED <<keyring, db>>

-----------------------------------------------------------------------------
(* A client.                                                               *)

\* cm_matrix_client_new(); without a database it is of no use.  A bound: there is
\* another client for a login that is yet to be read.
New(c) ==
  /\ cm_matrix_is_ready
  /\ \/ matrix.db_loaded
     \/ EarlyClients /\ matrix.opening = "db"
        /\ \E d \in Client \ {c} : login[d] = login[c] /\ client[d] = NoClient
  /\ client[c] = NoClient /\ login[c] \notin DOMAIN Given
  /\ client' = [client EXCEPT ![c] = [NoClient EXCEPT !.use = "made", !.no_save = TRUE]]
  /\ UNCHANGED <<matrix, flight, keyring, db>>

\* cm_client_set_enabled(): matrix_start_sync() loads a stored client before the
\* account is saved, and cm_client_save() is called once more
Enabled(c, enable) ==
  LET k == client[c]
      s == [ k |-> [k EXCEPT !.enabled = enable],
             sent |-> IF enable /\ k.token /\ ~k.enc THEN {Loading(c)} ELSE {} ]
  IN  IF k.enabled = enable THEN Only(k) ELSE Marked(s, c, TRUE, TRUE)

\* Clients that are being added are the matrix's own.
Usable(c) == client[c].use = "made" /\ c \notin Range(matrix.adding)

SetEnabled(c) ==
  /\ Usable(c) /\ Change(c)
  /\ Becomes(c, Enabled(c, ~client[c].enabled), flight)
  /\ UNCHANGED <<keyring, db>>

\* db_load_client_cb()
Loaded(c) ==
  /\ Loading(c) \in flight
  /\ LET account == db[login[c]]
     IN  client' = IF account = NULL THEN client
                   ELSE [client EXCEPT ![c].enc = account.pickle, ![c].batch = account.batch]
  /\ flight' = flight \ {Loading(c)}
  /\ UNCHANGED <<matrix, keyring, db>>

\* client_password_login_cb(): the user ID is marked before the device and the
\* access token are set
LoginDone(c) ==
  /\ client[c].use = "made" /\ client[c].enabled /\ ~client[c].enc
  /\ Loading(c) \notin flight
  /\ LET known == Only([client[c] EXCEPT !.user = TRUE])
         s == IF client[c].user THEN known ELSE Marked(known, c, TRUE, TRUE)
         t == [k |-> [s.k EXCEPT !.token = TRUE, !.enc = TRUE], sent |-> s.sent]
     IN  Becomes(c, Marked(t, c, TRUE, TRUE), flight)
  /\ UNCHANGED <<matrix, keyring, db>>

\* matrix_take_red_pill_cb()
SyncDone(c) ==
  /\ client[c].use = "made" /\ Change(c)
  /\ client[c].enabled /\ client[c].enc
  /\ Becomes(c, Marked(Only([client[c] EXCEPT !.batch = @ + 1]), c, TRUE, FALSE), flight)
  /\ UNCHANGED <<keyring, db>>

-----------------------------------------------------------------------------
(* The list of clients.                                                    *)

\* Without the clients that are being saved
HasListedClient(l) == l \in {login[c] : c \in Range(matrix.clients)}

\* matrix_has_client()
HasClient(l) ==
  l \in {login[c] : c \in Range(matrix.clients)} \cup matrix.to_save

\* cm_matrix_save_client_async(): asked for, the client is saved from now on.  If its
\* secrets are being saved the caller is given an error.
SaveClient(c) ==
  /\ Usable(c) /\ ~client[c].user
  /\ LET s == Only([client[c] EXCEPT !.no_save = FALSE])
     IN  IF HasClient(login[c])
         THEN Becomes(c, s, flight) /\ UNCHANGED matrix
         ELSE /\ matrix' = [matrix EXCEPT !.to_save = @ \cup {login[c]}]
              /\ Becomes(c, IF client[c].saving_secret THEN s ELSE SaveSecrets(s, c, "list"),
                         flight)
  /\ UNCHANGED <<keyring, db>>

AddFirst(c) == SaveSecrets(Only(FromSecret(Given[login[c]])), c, "add")

\* cm_matrix_add_clients_async(): one after the other
Add ==
  /\ matrix.db_loaded /\ matrix.adding = <<>> /\ DOMAIN Given # {}
  /\ \A l \in DOMAIN Given :
       keyring[l] = NULL /\ \E c \in Client : login[c] = l /\ client[c] = NoClient
  /\ \E logins \in SetToSeqs(DOMAIN Given) :
       LET clients == ClientsOf(logins)
       IN  /\ matrix' = [matrix EXCEPT !.adding = clients]
           /\ client' = [c \in Client |-> IF c = Head(clients) THEN AddFirst(c).k
                                          ELSE IF c \in Range(clients)
                                          THEN FromSecret(Given[login[c]]) ELSE client[c]]
           /\ flight' = flight \cup AddFirst(Head(clients)).sent
  /\ UNCHANGED <<keyring, db>>

\* cm_matrix_delete_client_async()
Delete(c) ==
  /\ c \in Range(matrix.clients)
  /\ Clearing(c) \notin flight
  /\ Change(c) \/ (~client[c].enabled /\ UNCHANGED matrix)
  /\ Becomes(c, Enabled(c, FALSE), flight \cup {Clearing(c)})
  /\ UNCHANGED <<keyring, db>>

-----------------------------------------------------------------------------
(* Answers.                                                                *)

\* With what changed in the meantime left for the next change
SavedOnce(c, ok) ==
  \E r \in {x \in flight : x.op = "save" /\ x.client = c} :
    /\ Loading(c) \notin flight
    /\ db' = IF ok THEN [db EXCEPT ![login[c]] = r.value] ELSE db
    /\ client' = [client EXCEPT ![c].saving_client = FALSE,
                               ![c].pending_client = @ \/ ~ok]
    /\ flight' = flight \ {r}
    /\ UNCHANGED <<matrix, keyring>>

\* db_save_cb(): "If settings changed when we were saving the current settings,
\* repeat."  The load of the client has gone first.
Saved(c, ok) ==
  \E r \in {x \in flight : x.op = "save" /\ x.client = c} :
    /\ Loading(c) \notin flight
    /\ db' = IF ok THEN [db EXCEPT ![login[c]] = r.value] ELSE db
    /\ LET k == [client[c] EXCEPT !.saving_client = FALSE, !.pending_client = @ \/ ~ok]
       IN  Becomes(c, Save(Only(k), c), flight \ {r})
    /\ UNCHANGED <<matrix, keyring>>

\* With whatever was to be saved taken for saved
AllSecretsSaved(k, c, ok) ==
  LET s == IF ok THEN Only([k EXCEPT !.pending_secret = FALSE])
           ELSE Marked(Only(k), c, FALSE, TRUE)
  IN  [k |-> [s.k EXCEPT !.saving_secret = FALSE], sent |-> s.sent]

\* save_secrets_cb(): "Unset at the end so that the client won't initiate saving
\* the secret immediately on error."
SecretSaved(k, c, ok) ==
  LET s == IF ok THEN Only(k) ELSE Marked(Only(k), c, FALSE, TRUE)
  IN  [k |-> [s.k EXCEPT !.saving_secret = FALSE], sent |-> s.sent]

Written(r, ok) == keyring' = IF ok THEN [keyring EXCEPT ![login[r.client]] = r.value]
                             ELSE keyring

Kept(c, ok) ==
  \E r \in {x \in flight : x.op = "store" /\ x.client = c /\ x.then = "nothing"} :
    /\ Written(r, ok) /\ Becomes(c, SecretSaved(client[c], c, ok), flight \ {r})
    /\ UNCHANGED <<matrix, db>>

\* matrix_save_client_cb()
Listed(c, ok) ==
  \E r \in {x \in flight : x.op = "store" /\ x.client = c /\ x.then = "list"} :
    /\ Written(r, ok) /\ Becomes(c, SecretSaved(client[c], c, ok), flight \ {r})
    /\ matrix' = IF ok THEN [matrix EXCEPT !.clients = Append(@, c),
                                           !.to_save = @ \ {login[c]}]
                 ELSE matrix
    /\ UNCHANGED db

\* matrix_save_client(): a client that cannot be saved is dropped
Added(c, ok) ==
  \E r \in {x \in flight : x.op = "store" /\ x.client = c /\ x.then = "add"} :
    /\ Written(r, ok)
    /\ LET rest == Tail(matrix.adding)
           s == SecretSaved(client[c], c, ok)
           t == IF ok THEN EnableAsInStore(s, c)
                ELSE [k |-> [s.k EXCEPT !.use = "dropped"], sent |-> s.sent]
           next == SaveSecrets(Only(client[Head(rest)]), Head(rest), "add")
       IN  /\ matrix' = [matrix EXCEPT !.adding = rest,
                                       !.clients = IF ok THEN Append(@, c) ELSE @]
           /\ IF rest = <<>> THEN Becomes(c, t, flight \ {r})
              ELSE /\ client' = [client EXCEPT ![c] = t.k, ![Head(rest)] = next.k]
                   /\ flight' = (flight \ {r}) \cup t.sent \cup next.sent
    /\ UNCHANGED db

\* matrix_delete_client_cb(); the account stays in the database
Deleted(c, ok) ==
  /\ Clearing(c) \in flight
  /\ flight' = flight \ {Clearing(c)}
  /\ IF ok THEN /\ keyring' = [keyring EXCEPT ![login[c]] = NULL]
                /\ \E i \in DOMAIN matrix.clients :
                     /\ matrix.clients[i] = c
                     /\ matrix' = [matrix EXCEPT !.clients = RemoveAt(@, i)]
                /\ client' = [client EXCEPT ![c].use = "dropped"]
     ELSE UNCHANGED <<keyring, matrix, client>>
  /\ UNCHANGED db

\* The program ends, with whatever has not been answered, and is started again
Restart ==
  /\ matrix.starts < MaxStarts
  /\ matrix' = NoMatrix(matrix.starts + 1, matrix.changes)
  /\ client' = [c \in Client |-> NoClient]
  /\ flight' = {}
  /\ UNCHANGED <<keyring, db>>

Next ==
  \/ Open \/ \E ok \in BOOLEAN : SecretsLoaded(ok) \/ DbOpened(ok)
  \/ \E c \in Client : New(c) \/ SetEnabled(c) \/ Loaded(c) \/ LoginDone(c) \/ SyncDone(c)
  \/ \E c \in Client : SaveClient(c) \/ Delete(c)
  \/ Add
  \/ \E c \in Client, ok \in BOOLEAN :
       Saved(c, ok) \/ Kept(c, ok) \/ Listed(c, ok) \/ Added(c, ok) \/ Deleted(c, ok)
  \/ Restart

\* The database runs its tasks, and some save of an account succeeds
Fairness ==
  \A c \in Client : WF_vars(Loaded(c)) /\ SF_vars(Saved(c, TRUE))

Spec == Init /\ [][Next]_vars /\ Fairness
-----------------------------------------------------------------------------
(* Properties.                                                             *)

InFlight(op, c) == {r \in flight : r.op = op /\ r.client = c}

\* The types of the variables, and that a flag of a client stands for the one
\* request to save its account, and for the one to save its secrets.
TypeOK ==
  /\ matrix.opening \in {"no", "secrets", "db"}
  /\ \A l \in Login : keyring[l] \in Secret \cup {NULL}
  /\ \A l \in Login : db[l] # NULL => db[l].pickle \in BOOLEAN /\ db[l].batch \in Nat
  /\ \A c \in Client :
       /\ Cardinality(InFlight("save", c)) = IF client[c].saving_client THEN 1 ELSE 0
       /\ Cardinality(InFlight("store", c)) = IF client[c].saving_secret THEN 1 ELSE 0
  /\ \A c \in Range(matrix.clients) \cup Range(matrix.adding) :
       c \in Client /\ client[c].use = "made"

\* A login has one client in the list, whether it was read from the keyring, added
\* or saved, while other clients of the login are made, saved, refused or deleted.
ListedOnce ==
  \A i, j \in DOMAIN matrix.clients :
    login[matrix.clients[i]] = login[matrix.clients[j]] => i = j

\* Nothing that changed is forgotten: what is being written of a client, or else
\* has been written, is how the client is now, or a flag says that it has to be
\* written again.  Another client of the login, if it is saved, writes to the same
\* secret; and one that has been saved stays stored as enabled until it changes.
Alone(c) ==
  \A d \in Client \ {c} :
    login[d] = login[c] => client[d].no_save \/ client[d] = NoClient
Latest(op, c, written) ==
  IF InFlight(op, c) = {} THEN written ELSE (CHOOSE r \in InFlight(op, c) : TRUE).value
ChangesArePending ==
  \A c \in Range(matrix.clients) :
    Alone(c) =>
      /\ client[c].enc =>
           \/ client[c].pending_client
           \/ Latest("save", c, db[login[c]]) = AccountOf(client[c])
      /\ \/ client[c].pending_secret
         \/ Latest("store", c, keyring[login[c]]) = SecretOf(client[c], "nothing")
         \/ /\ ~client[c].user
            /\ Latest("store", c, keyring[login[c]]) = SecretOf(client[c], "list")

\* However often saving fails, and whatever changes in the meantime, the account of
\* a client in the list is in the database in the end.
AccountsAreSaved ==
  <>[](\A c \in Range(matrix.clients) :
         Alone(c) /\ client[c].enc => db[login[c]] = AccountOf(client[c]))

\* "Save the changes to associated CmDb.": the keys of an account that are in the
\* database are not overwritten with none.
KeysAreKept ==
  [][\A l \in Login : db[l] # NULL /\ db[l].pickle => db'[l].pickle]_vars

\* "User already exists": a login that is refused as being saved is being saved.
RefusedIsBeingSaved ==
  \A l \in matrix.to_save : \E r \in flight : r.op = "store" /\ login[r.client] = l
=================================================================================
