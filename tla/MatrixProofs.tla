------------------------------ MODULE MatrixProofs ------------------------------
(***************************************************************************)
(* The safety invariants of Matrix hold in every state: the types, that a  *)
(* login is in the list once, and that no change of a client is forgotten. *)
(* No client is made while the database is being opened (EarlyClients is   *)
(* FALSE), and for the last of them none is changed before it was loaded   *)
(* (EarlyChanges is FALSE): the code breaks them otherwise.                *)
(*                                                                         *)
(* What is known of a client concerns it, its own requests, and what is    *)
(* stored for its login.  Most steps are therefore those of one client     *)
(* (Calls): what they call makes of the client and of its requests is      *)
(* stated of the functions (Outcome, MarkedAs, Freed), and two lemmas say  *)
(* when such a step keeps the invariant, Calm if it leaves the list as it  *)
(* is and Relist if it does not.  The steps of several clients (DbOpened,  *)
(* Add, Added) are proved for themselves.                                  *)
(***************************************************************************)
EXTENDS Matrix, FiniteSetTheorems, SequenceTheorems, TLAPS

\* What the answer of the keyring is waited for.
Then == {"nothing", "list", "add"}

\* The values of a client.
ClientType ==
  [ use: {"none", "made", "dropped"}, no_save: BOOLEAN, user: BOOLEAN, token: BOOLEAN,
    enabled: BOOLEAN, in_store: BOOLEAN, enc: BOOLEAN, batch: Nat,
    saving_client: BOOLEAN, pending_client: BOOLEAN,
    saving_secret: BOOLEAN, pending_secret: BOOLEAN ]

\* The values of CmMatrix.
MatrixType ==
  [ opening: {"no", "secrets", "db"}, secrets_loaded: BOOLEAN, db_loaded: BOOLEAN,
    accounts: [Login -> Secret \cup {NULL}], clients: Seq(Client),
    to_save: SUBSET Login, adding: Seq(Client), starts: Nat, changes: Nat ]

\* The requests that may be on their way for a client.
RequestsOf(c) ==
  [op: {"store"}, client: {c}, value: Secret, then: Then]
    \cup [op: {"save"}, client: {c}, value: Account] \cup [op: {"load", "clear"}, client: {c}]

\* The requests for a client among some.
Mine(requests, c) == {r \in requests : r.client = c}

\* One of the requests is of this kind.
HasA(op, R) == \E r \in R : r.op = op

\* A client with the requests that are on their way for it
Shape(k, R, c) ==
  /\ k \in ClientType
  /\ \A r \in R : r \in RequestsOf(c)
  /\ \A q, r \in R : q.op = r.op => q = r
  /\ k.saving_client <=> HasA("save", R)
  /\ k.saving_secret <=> HasA("store", R)
  /\ k.no_save => R = {} /\ (k.enc => k.user) /\ (k.token => k.enc)
  /\ Loading(c) \in R =>
       k.token /\ ~k.enc /\ (EarlyChanges \/ (~k.pending_client /\ ~k.saving_client))
  /\ k.use = "none" => k = NoClient /\ R = {}

\* The account as it is now is being written, or is what was written last, or a flag
\* says that it has to be.
AccountNow(k, R, written) ==
  \/ k.pending_client
  \/ \E r \in R : r.op = "save" /\ r.value = AccountOf(k)
  \/ ~HasA("save", R) /\ written = AccountOf(k)

\* What the keyring may hold of a client: as it is, or as it was saved to be listed.
SecretIs(k, value) ==
  value = SecretOf(k, "nothing") \/ (~k.user /\ value = SecretOf(k, "list"))

\* The same as AccountNow for the secrets.
SecretNow(k, R, written) ==
  \/ k.pending_secret
  \/ \E r \in R : r.op = "store" /\ SecretIs(k, r.value)
  \/ ~HasA("store", R) /\ SecretIs(k, written)

\* The client is in the list.
IsListed(c) == \E i \in DOMAIN matrix.clients : matrix.clients[i] = c

\* The client waits to be added.
IsAdding(c) == \E i \in DOMAIN matrix.adding : matrix.adding[i] = c

\* What changed of a client is not forgotten, whether the client is in the list already
\* or its secrets are being saved for the first time.  Of the account this is so if the
\* client was loaded before it changed.
Known(c) ==
  Alone(c) /\ ~client[c].no_save =>
    /\ client[c].enc /\ ~EarlyChanges =>
         AccountNow(client[c], Mine(flight, c), db[login[c]])
    /\ IsListed(c) \/ HasA("store", Mine(flight, c)) =>
         SecretNow(client[c], Mine(flight, c), keyring[login[c]])

\* A client in the list may be saved, has a secret, and is not being saved to be
\* listed.
ListedOf(c) ==
  IsListed(c) =>
    /\ client[c].use = "made" /\ ~client[c].no_save
    /\ keyring[login[c]] # NULL /\ login[c] \notin matrix.to_save

\* A client that waits to be added has no account yet; only the secrets of the first
\* are being saved.  No other client of its login is in the list.
AddingOf(c) ==
  IsAdding(c) =>
    /\ login[c] \in DOMAIN Given
    /\ \A d \in Client : IsListed(d) => login[d] # login[c]
    /\ client[c].use = "made" /\ ~client[c].no_save /\ ~client[c].enabled /\ ~client[c].enc
    /\ ~client[c].pending_client /\ ~client[c].saving_client /\ Loading(c) \notin flight
    /\ c # matrix.adding[1] => ~client[c].saving_secret
    /\ c = matrix.adding[1] => client[c].saving_secret

\* The answers on their way for a client: only that of the first that is added adds
\* one, and no login is being saved by two clients.
AnswersOf(c) ==
  /\ \A r \in Mine(flight, c) : r.op = "store" =>
       /\ r.then = "add" <=> (matrix.adding # <<>> /\ c = matrix.adding[1])
       /\ r.then = "list" =>
            /\ login[c] \in matrix.to_save /\ client[c].use = "made"
            /\ \A q \in flight : q.op = "store" /\ q.then = "list" /\ login[q.client] = login[c]
                                   => q = r
  /\ Clearing(c) \in flight => IsListed(c)
  /\ client[c].use = "made" /\ login[c] \in DOMAIN Given => IsListed(c) \/ IsAdding(c)

\* Before the database is open there is nothing to save and nobody to list.
Opening ==
  /\ matrix.opening # "no" => ~matrix.db_loaded
  /\ matrix.opening = "db" => matrix.accounts = keyring
  /\ ~matrix.db_loaded =>
       /\ matrix.clients = <<>> /\ matrix.adding = <<>> /\ matrix.to_save = {}
       /\ flight = {} /\ client = [c \in Client |-> NoClient]

\* The values of the variables.
Types ==
  /\ matrix \in MatrixType /\ client \in [Client -> ClientType]
  /\ \A r \in flight : \E c \in Client : r \in RequestsOf(c)
  /\ keyring \in [Login -> Secret \cup {NULL}] /\ db \in [Login -> Account \cup {NULL}]

\* A login is in the list once and is added once, and the logins that are given are not
\* saved by the application.
Lists ==
  /\ ListedOnce
  /\ \A i, j \in DOMAIN matrix.adding :
       login[matrix.adding[i]] = login[matrix.adding[j]] => i = j
  /\ matrix.to_save \cap DOMAIN Given = {}

\* All that is known of one client.
Good(c) ==
  /\ Shape(client[c], Mine(flight, c), c) /\ Known(c)
  /\ ListedOf(c) /\ AddingOf(c) /\ AnswersOf(c)

\* The inductive invariant.
IInv == Types /\ Opening /\ Lists /\ \A c \in Client : Good(c)

-----------------------------------------------------------------------------

\* The client is the same but for the four flags about saving.
Alike(k, m) ==
  /\ m.use = k.use /\ m.no_save = k.no_save /\ m.user = k.user /\ m.token = k.token
  /\ m.enabled = k.enabled /\ m.in_store = k.in_store /\ m.enc = k.enc /\ m.batch = k.batch

\* What saving the account makes of a client k and the requests S.
AccountTaken(k, S, c, t) ==
  \/ /\ k.no_save \/ ~k.pending_client \/ k.saving_client \/ ~k.token
     /\ t = [k |-> k, sent |-> S]
  \/ /\ ~k.no_save /\ k.pending_client /\ ~k.saving_client /\ k.token
     /\ t.k \in ClientType /\ Alike(k, t.k)
     /\ t.k.saving_client /\ ~t.k.pending_client
     /\ t.k.saving_secret = k.saving_secret /\ t.k.pending_secret = k.pending_secret
     /\ t.sent = S \cup {Saving(c, AccountOf(k))} /\ t = [k |-> t.k, sent |-> t.sent]

\* SaveAccount does this.
LEMMA SaveAccountTakes ==
  ASSUME NEW k \in ClientType, NEW S, NEW c
  PROVE  AccountTaken(k, S, c, SaveAccount([k |-> k, sent |-> S], c))
<1> DEFINE s == [k |-> k, sent |-> S]
<1>1. CASE k.no_save \/ ~k.pending_client \/ k.saving_client \/ ~k.token
  BY <1>1 DEF SaveAccount, AccountTaken
<1>2. CASE ~(k.no_save \/ ~k.pending_client \/ k.saving_client \/ ~k.token)
  <2>1. PICK m : m = [k EXCEPT !.saving_client = TRUE, !.pending_client = FALSE]
    OBVIOUS
  <2>2. m \in ClientType /\ m.saving_client /\ ~m.pending_client
    BY <2>1 DEF ClientType
  <2>3. Alike(k, m) /\ m.saving_secret = k.saving_secret /\ m.pending_secret = k.pending_secret
    BY <2>1 DEF ClientType, Alike
  <2>4. SaveAccount(s, c) = [k |-> m, sent |-> S \cup {Saving(c, AccountOf(k))}]
    BY <1>2, <2>1 DEF SaveAccount
  <2> QED
    BY <1>2, <2>2, <2>3, <2>4 DEF AccountTaken
<1> QED
  BY <1>1, <1>2

\* What saving the secrets makes of a client k and the requests S.
SecretTaken(k, S, c, then, t) ==
  /\ t.k \in ClientType /\ Alike(k, t.k) /\ t.k.saving_secret /\ ~t.k.pending_secret
  /\ \/ /\ k.no_save \/ ~k.pending_client \/ k.saving_client \/ ~k.token
        /\ t.k.saving_client = k.saving_client /\ t.k.pending_client = k.pending_client
        /\ t.sent = S \cup {Storing(c, SecretOf(k, then), then)}
     \/ /\ ~k.no_save /\ k.pending_client /\ ~k.saving_client /\ k.token
        /\ t.k.saving_client /\ ~t.k.pending_client
        /\ t.sent = S \cup {Saving(c, AccountOf(k)), Storing(c, SecretOf(k, then), then)}

\* SaveSecrets does this.
LEMMA SaveSecretsTakes ==
  ASSUME NEW k \in ClientType, NEW S, NEW c, NEW then
  PROVE  SecretTaken(k, S, c, then, SaveSecrets([k |-> k, sent |-> S], c, then))
<1>1. PICK m : m = [k EXCEPT !.saving_secret = TRUE, !.pending_secret = FALSE]
  OBVIOUS
<1>2. m \in ClientType /\ m.saving_secret /\ ~m.pending_secret
  BY <1>1 DEF ClientType
<1>3. Alike(k, m) /\ m.saving_client = k.saving_client /\ m.pending_client = k.pending_client
  BY <1>1 DEF ClientType, Alike
<1>4. PICK t : t = SaveAccount([k |-> m, sent |-> S], c)
  OBVIOUS
<1>5. AccountTaken(m, S, c, t)
  BY <1>2, <1>4, SaveAccountTakes
<1>6. SaveSecrets([k |-> k, sent |-> S], c, then) =
        [k |-> t.k, sent |-> t.sent \cup {Storing(c, SecretOf(k, then), then)}]
  BY <1>1, <1>4 DEF SaveSecrets
<1>7. AccountOf(m) = AccountOf(k)
  BY <1>3 DEF AccountOf, Alike
<1> DEFINE r == [k |-> t.k, sent |-> t.sent \cup {Storing(c, SecretOf(k, then), then)}]
<1>8. CASE m.no_save \/ ~m.pending_client \/ m.saving_client \/ ~m.token
  <2>1. t = [k |-> m, sent |-> S]
    BY <1>5, <1>8 DEF AccountTaken
  <2>2. r.k = m /\ r.sent = S \cup {Storing(c, SecretOf(k, then), then)}
    BY <2>1
  <2>3. k.no_save \/ ~k.pending_client \/ k.saving_client \/ ~k.token
    BY <1>8, <1>3 DEF Alike
  <2> QED
    BY <1>2, <1>3, <1>6, <2>2, <2>3 DEF SecretTaken
<1>9. CASE ~(m.no_save \/ ~m.pending_client \/ m.saving_client \/ ~m.token)
  <2>1. /\ t.k \in ClientType /\ Alike(m, t.k) /\ t.k.saving_client /\ ~t.k.pending_client
        /\ t.k.saving_secret = m.saving_secret /\ t.k.pending_secret = m.pending_secret
        /\ t.sent = S \cup {Saving(c, AccountOf(m))}
    BY <1>5, <1>9 DEF AccountTaken
  <2>2. r.k = t.k /\ r.sent = t.sent \cup {Storing(c, SecretOf(k, then), then)}
    OBVIOUS
  <2>3. ~k.no_save /\ k.pending_client /\ ~k.saving_client /\ k.token
    BY <1>9, <1>3 DEF Alike
  <2>4. Alike(k, t.k)
    BY <1>3, <2>1 DEF Alike
  <2>5. r.sent = S \cup {Saving(c, AccountOf(k)), Storing(c, SecretOf(k, then), then)}
    BY <2>1, <2>2, <1>7
  <2> QED
    BY <1>2, <1>6, <2>1, <2>2, <2>3, <2>4, <2>5 DEF SecretTaken
<1> QED
  BY <1>8, <1>9

\* The requests and their parts.
LEMMA SpecOfRequests ==
  ASSUME NEW c
  PROVE  /\ \A v, t : /\ Storing(c, v, t).op = "store" /\ Storing(c, v, t).client = c
                      /\ Storing(c, v, t).value = v /\ Storing(c, v, t).then = t
         /\ \A v : /\ Saving(c, v).op = "save" /\ Saving(c, v).client = c
                   /\ Saving(c, v).value = v
         /\ Loading(c).op = "load" /\ Loading(c).client = c
         /\ Clearing(c).op = "clear" /\ Clearing(c).client = c
         /\ \A v \in Secret, t \in Then : Storing(c, v, t) \in RequestsOf(c)
         /\ \A v \in Account : Saving(c, v) \in RequestsOf(c)
         /\ Loading(c) \in RequestsOf(c) /\ Clearing(c) \in RequestsOf(c)
BY DEF Storing, Saving, Loading, Clearing, RequestsOf

\* What is written of a client, which the flags do not change.
LEMMA SpecOfValues ==
  ASSUME NEW k \in ClientType
  PROVE  /\ AccountOf(k) \in Account /\ \A then : SecretOf(k, then) \in Secret
         /\ \A m : Alike(k, m) => /\ AccountOf(m) = AccountOf(k)
                                  /\ \A then : SecretOf(m, then) = SecretOf(k, then)
                                  /\ \A v : SecretIs(m, v) <=> SecretIs(k, v)
BY DEF AccountOf, SecretOf, SecretIs, Account, Secret, ClientType, Alike

\* What a call that saves the secrets for some purpose, or nothing, does
Outcome(k, R, S, c, then, m) ==
  /\ S \subseteq m.sent /\ Alike(k, m.k) /\ Shape(m.k, R \cup m.sent, c)
  /\ \A r \in m.sent \ S : r.op = "save" \/ (r.op = "store" /\ r.then = then)
  /\ \A w : AccountNow(k, R \cup S, w) => AccountNow(m.k, R \cup m.sent, w)
  /\ k.saving_secret => /\ \A r \in m.sent \ S : r.op = "save"
                        /\ m.k.pending_secret = k.pending_secret

\* And the secrets are as well known as before.
SecretKept(k, T, m, U) ==
  /\ \A w : SecretNow(k, T, w) => SecretNow(m, U, w)
  /\ m.saving_secret => k.saving_secret \/ \A w : SecretNow(m, U, w)

\* Saving the account keeps the shape, and the account is no less known.
LEMMA SaveAccountOutcome ==
  ASSUME NEW c, NEW k, NEW R, NEW S, Shape(k, R \cup S, c), ~k.no_save, k.use # "none",
         NEW then,
         NEW m, AccountTaken(k, S, c, m)
  PROVE  Outcome(k, R, S, c, then, m) /\ SecretKept(k, R \cup S, m.k, R \cup m.sent)
<1> USE SpecOfRequests, SpecOfValues
<1>1. k \in ClientType
  BY DEF Shape
<1>2. CASE m = [k |-> k, sent |-> S] /\ (~k.pending_client \/ k.saving_client \/ ~k.token)
  <2>1. m.k = k /\ m.sent = S
    BY <1>2
  <2> QED
    BY <1>2, <2>1 DEF Outcome, Alike, SecretKept
<1>3. CASE /\ k.pending_client /\ ~k.saving_client /\ k.token
           /\ m.k \in ClientType /\ Alike(k, m.k)
           /\ m.k.saving_client /\ ~m.k.pending_client
           /\ m.k.saving_secret = k.saving_secret /\ m.k.pending_secret = k.pending_secret
           /\ m.sent = S \cup {Saving(c, AccountOf(k))}
  <2> DEFINE new == Saving(c, AccountOf(k))
             T == R \cup S
  <2>1. R \cup m.sent = T \cup {new}
    BY <1>3
  <2>2. ~HasA("save", T)
    BY <1>3 DEF Shape
  <2>3. new \in RequestsOf(c) /\ new.op = "save" /\ new.value = AccountOf(m.k)
    BY <1>1, <1>3
  <2> HIDE DEF new
  <2>4. \A r \in T \cup {new} : r \in RequestsOf(c)
    BY <2>3 DEF Shape
  <2>5. \A q, r \in T \cup {new} : q.op = r.op => q = r
    BY <2>2, <2>3 DEF Shape, HasA
  <2>6. HasA("save", T \cup {new}) /\ (HasA("store", T \cup {new}) <=> HasA("store", T))
    BY <2>3 DEF HasA
  <2>7. Loading(c) \in T \cup {new} => m.k.token /\ ~m.k.enc /\ EarlyChanges
    BY <1>3, <2>3 DEF Shape, Alike
  <2>8. m.k.use # "none" /\ ~m.k.no_save
    BY <1>3 DEF Alike
  <2>9. Shape(m.k, T \cup {new}, c)
    BY <1>3, <2>4, <2>5, <2>6, <2>7, <2>8 DEF Shape
  <2>10. \A w : AccountNow(m.k, T \cup {new}, w)
    BY <2>3 DEF AccountNow
  <2>11. \A w : SecretNow(k, T, w) => SecretNow(m.k, T \cup {new}, w)
    BY <1>1, <1>3, <2>6 DEF SecretNow
  <2>12. \A r \in m.sent \ S : r = new
    BY <1>3 DEF new
  <2> QED
    BY <1>3, <2>1, <2>3, <2>9, <2>10, <2>11, <2>12 DEF Outcome, SecretKept
<1> QED
  BY <1>2, <1>3 DEF AccountTaken

\* Saving the secrets keeps the shape, and the secrets are known.
LEMMA SaveSecretsOutcome ==
  ASSUME NEW c, NEW k, NEW R, NEW S, Shape(k, R \cup S, c), ~k.no_save, k.use # "none",
         ~k.saving_secret, NEW then \in Then,
         NEW m, m = SaveSecrets([k |-> k, sent |-> S], c, then)
  PROVE  /\ Outcome(k, R, S, c, then, m)
         /\ then # "list" \/ ~k.user => \A w : SecretNow(m.k, R \cup m.sent, w)
         /\ m.k.saving_secret /\ ~m.k.pending_secret
<1> USE SpecOfRequests, SpecOfValues
<1> DEFINE T == R \cup S
           store == Storing(c, SecretOf(k, then), then)
           save == Saving(c, AccountOf(k))
<1>1. k \in ClientType
  BY DEF Shape
<1>2. SecretTaken(k, S, c, then, m)
  BY <1>1, SaveSecretsTakes
<1>3. m.k \in ClientType /\ Alike(k, m.k) /\ m.k.saving_secret /\ ~m.k.pending_secret
  BY <1>2 DEF SecretTaken
<1>4. m.k.use # "none" /\ ~m.k.no_save
  BY <1>3 DEF Alike
<1>5. ~HasA("store", T)
  BY DEF Shape
<1>6. /\ store \in RequestsOf(c) /\ store.op = "store" /\ store.then = then
      /\ store.value = SecretOf(m.k, then)
  BY <1>1, <1>3
<1>7. /\ save \in RequestsOf(c) /\ save.op = "save" /\ save.value = AccountOf(m.k)
  BY <1>1, <1>3
<1> HIDE DEF store, save
<1>8. then # "list" \/ ~k.user => SecretIs(m.k, store.value)
  <2>1. SecretOf(m.k, "add") = SecretOf(m.k, "nothing")
    BY DEF SecretOf
  <2>2. m.k.user = k.user
    BY <1>3 DEF Alike
  <2> QED
    BY <1>6, <2>1, <2>2 DEF SecretIs, Then
<1>9. CASE /\ ~k.pending_client \/ k.saving_client \/ ~k.token
           /\ m.k.saving_client = k.saving_client /\ m.k.pending_client = k.pending_client
           /\ m.sent = S \cup {store}
  <2>1. R \cup m.sent = T \cup {store}
    BY <1>9
  <2>2. \A r \in T \cup {store} : r \in RequestsOf(c)
    BY <1>6 DEF Shape
  <2>3. \A q, r \in T \cup {store} : q.op = r.op => q = r
    BY <1>5, <1>6 DEF Shape, HasA
  <2>4. HasA("store", T \cup {store}) /\ (HasA("save", T \cup {store}) <=> HasA("save", T))
    BY <1>6 DEF HasA
  <2>5. Loading(c) \in T \cup {store} =>
          /\ m.k.token /\ ~m.k.enc
          /\ EarlyChanges \/ (~m.k.pending_client /\ ~m.k.saving_client)
    BY <1>3, <1>6, <1>9 DEF Shape, Alike
  <2>6. Shape(m.k, T \cup {store}, c)
    BY <1>3, <1>4, <1>9, <2>2, <2>3, <2>4, <2>5 DEF Shape
  <2>7. \A w : AccountNow(k, T, w) => AccountNow(m.k, T \cup {store}, w)
    BY <1>1, <1>3, <1>9, <2>4 DEF AccountNow
  <2>8. then # "list" \/ ~k.user => \A w : SecretNow(m.k, T \cup {store}, w)
    BY <1>6, <1>8 DEF SecretNow
  <2>9. \A r \in m.sent \ S : r = store
    BY <1>9
  <2> QED
    BY <1>3, <1>6, <1>9, <2>1, <2>6, <2>7, <2>8, <2>9 DEF Outcome
<1>10. CASE /\ k.pending_client /\ ~k.saving_client /\ k.token
            /\ m.k.saving_client /\ ~m.k.pending_client
            /\ m.sent = S \cup {save, store}
  <2>1. R \cup m.sent = T \cup {save, store}
    BY <1>10
  <2>2. ~HasA("save", T)
    BY <1>10 DEF Shape
  <2>3. \A r \in T \cup {save, store} : r \in RequestsOf(c)
    BY <1>6, <1>7 DEF Shape
  <2>4. \A q, r \in T \cup {save, store} : q.op = r.op => q = r
    BY <1>5, <1>6, <1>7, <2>2 DEF Shape, HasA
  <2>5. HasA("store", T \cup {save, store}) /\ HasA("save", T \cup {save, store})
    BY <1>6, <1>7 DEF HasA
  <2>6. Loading(c) \in T \cup {save, store} => m.k.token /\ ~m.k.enc /\ EarlyChanges
    <3>1. Loading(c) \in T \cup {save, store} => Loading(c) \in T
      BY <1>6, <1>7
    <3>2. Loading(c) \in T => k.token /\ ~k.enc /\ EarlyChanges
      BY <1>10 DEF Shape
    <3> QED
      BY <1>3, <3>1, <3>2 DEF Alike
  <2>7. Shape(m.k, T \cup {save, store}, c)
    BY <1>3, <1>4, <1>10, <2>3, <2>4, <2>5, <2>6 DEF Shape
  <2>8. \A w : AccountNow(m.k, T \cup {save, store}, w)
    BY <1>7 DEF AccountNow
  <2>9. then # "list" \/ ~k.user => \A w : SecretNow(m.k, T \cup {save, store}, w)
    BY <1>6, <1>8 DEF SecretNow
  <2>10. \A r \in m.sent \ S : r = store \/ r = save
    BY <1>10
  <2> QED
    BY <1>3, <1>6, <1>7, <1>10, <2>1, <2>7, <2>8, <2>9, <2>10 DEF Outcome
<1> QED
  BY <1>2, <1>9, <1>10 DEF SecretTaken, store, save

\* cm_client_save() keeps the shape and what is known.
LEMMA SaveOutcome ==
  ASSUME NEW c, NEW k, NEW R, NEW S, Shape(k, R \cup S, c), ~k.no_save, k.use # "none",
         NEW m, m = Save([k |-> k, sent |-> S], c)
  PROVE  Outcome(k, R, S, c, "nothing", m) /\ SecretKept(k, R \cup S, m.k, R \cup m.sent)
<1>1. k \in ClientType
  BY DEF Shape
<1>2. PICK t : t = SaveAccount([k |-> k, sent |-> S], c)
  OBVIOUS
<1>3. AccountTaken(k, S, c, t)
  BY <1>1, <1>2, SaveAccountTakes
<1>4. Outcome(k, R, S, c, "nothing", t) /\ SecretKept(k, R \cup S, t.k, R \cup t.sent)
  BY <1>3, SaveAccountOutcome
<1>5. t = [k |-> t.k, sent |-> t.sent]
  BY <1>3 DEF AccountTaken
<1>6. CASE ~t.k.no_save /\ t.k.pending_secret /\ ~t.k.saving_secret
  <2>1. m = SaveSecrets([k |-> t.k, sent |-> t.sent], c, "nothing")
    BY <1>2, <1>5, <1>6 DEF Save
  <2>2. Shape(t.k, R \cup t.sent, c) /\ ~t.k.no_save /\ t.k.use # "none" /\ Alike(k, t.k)
    BY <1>4, <1>6 DEF Outcome, Alike
  <2>3. Outcome(t.k, R, t.sent, c, "nothing", m) /\ \A w : SecretNow(m.k, R \cup m.sent, w)
    BY <1>6, <2>1, <2>2, SaveSecretsOutcome DEF Then
  <2>4. S \subseteq t.sent /\ t.sent \subseteq m.sent /\ Alike(k, m.k)
    BY <1>4, <2>3 DEF Outcome, Alike
  <2>5. \A r \in m.sent \ S : r.op = "save" \/ (r.op = "store" /\ r.then = "nothing")
    BY <1>4, <2>3, <2>4 DEF Outcome
  <2>6. \A w : AccountNow(k, R \cup S, w) => AccountNow(m.k, R \cup m.sent, w)
    BY <1>4, <2>3 DEF Outcome
  <2>7. ~k.saving_secret
    <3>1. t.k.saving_secret = k.saving_secret
      BY <1>3 DEF AccountTaken
    <3> QED
      BY <1>6, <3>1
  <2> QED
    BY <2>3, <2>4, <2>5, <2>6, <2>7 DEF Outcome, SecretKept
<1>7. CASE ~(~t.k.no_save /\ t.k.pending_secret /\ ~t.k.saving_secret)
  <2>1. m = t
    BY <1>2, <1>7 DEF Save
  <2> QED
    BY <1>4, <2>1
<1> QED
  BY <1>6, <1>7

\* What client_mark_for_save() does to a client that may be saved
MarkedFrom(k, R, S, c, account, secret, m) ==
  /\ S \subseteq m.sent /\ Alike(k, m.k) /\ Shape(m.k, R \cup m.sent, c)
  /\ \A r \in m.sent \ S : r.op = "save" \/ (r.op = "store" /\ r.then = "nothing")
  /\ \A w : account \/ AccountNow(k, R \cup S, w) => AccountNow(m.k, R \cup m.sent, w)
  /\ \A w : secret \/ SecretNow(k, R \cup S, w) => SecretNow(m.k, R \cup m.sent, w)
  /\ m.k.saving_secret => k.saving_secret \/ \A w : SecretNow(m.k, R \cup m.sent, w)
  /\ k.saving_secret => /\ \A r \in m.sent \ S : r.op = "save"
                        /\ m.k.pending_secret = (k.pending_secret \/ secret)

\* client_mark_for_save() keeps the shape; what is marked is known.
LEMMA MarkedOutcome ==
  ASSUME NEW c, NEW k, NEW R, NEW S, Shape(k, R \cup S, c), ~k.no_save, k.use # "none",
         NEW account \in BOOLEAN, NEW secret \in BOOLEAN,
         account => EarlyChanges \/ Loading(c) \notin R \cup S,
         NEW m, m = Marked([k |-> k, sent |-> S], c, account, secret)
  PROVE  MarkedFrom(k, R, S, c, account, secret, m)
<1> USE SpecOfValues
<1>1. k \in ClientType
  BY DEF Shape
<1>2. PICK n : n = [k EXCEPT !.pending_client = @ \/ account, !.pending_secret = @ \/ secret]
  OBVIOUS
<1>3. n = [k EXCEPT !.pending_client = (k.pending_client \/ account),
                    !.pending_secret = (k.pending_secret \/ secret)]
  BY <1>2
<1>4. PICK a \in BOOLEAN : a = (k.pending_client \/ account)
  OBVIOUS
<1>5. PICK b \in BOOLEAN : b = (k.pending_secret \/ secret)
  OBVIOUS
<1>6. n = [k EXCEPT !.pending_client = a, !.pending_secret = b]
  BY <1>3, <1>4, <1>5
<1>7. n \in ClientType /\ n.pending_client = a /\ n.pending_secret = b
  BY <1>1, <1>6 DEF ClientType
<1>8. Alike(k, n) /\ n.saving_client = k.saving_client /\ n.saving_secret = k.saving_secret
  BY <1>1, <1>6 DEF ClientType, Alike
<1>9. n.use # "none" /\ ~n.no_save
  BY <1>8 DEF Alike
<1>10. Loading(c) \in R \cup S =>
         n.token /\ ~n.enc /\ (EarlyChanges \/ (~n.pending_client /\ ~n.saving_client))
  BY <1>4, <1>7, <1>8 DEF Shape, Alike
<1>11. Shape(n, R \cup S, c)
  BY <1>7, <1>8, <1>9, <1>10 DEF Shape
<1>12. m = Save([k |-> n, sent |-> S], c)
  BY <1>2 DEF Marked
<1>13. Outcome(n, R, S, c, "nothing", m) /\ SecretKept(n, R \cup S, m.k, R \cup m.sent)
  BY <1>9, <1>11, <1>12, SaveOutcome
<1>14. \A w : account \/ AccountNow(k, R \cup S, w) => AccountNow(n, R \cup S, w)
  BY <1>1, <1>4, <1>7, <1>8 DEF AccountNow
<1>15. \A w : secret \/ SecretNow(k, R \cup S, w) => SecretNow(n, R \cup S, w)
  BY <1>1, <1>5, <1>7, <1>8 DEF SecretNow
<1>16. Alike(k, m.k)
  BY <1>8, <1>13 DEF Alike, Outcome
<1>17. k.saving_secret => /\ \A r \in m.sent \ S : r.op = "save"
                          /\ m.k.pending_secret = (k.pending_secret \/ secret)
  BY <1>5, <1>7, <1>8, <1>13 DEF Outcome
<1> QED
  BY <1>8, <1>13, <1>14, <1>15, <1>16, <1>17 DEF Outcome, SecretKept, MarkedFrom

-----------------------------------------------------------------------------

\* A step changes one client, to k, and its requests, to R.
Calls(c, k, R) ==
  /\ client' = [client EXCEPT ![c] = k] /\ Mine(flight', c) = R
  /\ \A d \in Client \ {c} : Mine(flight', d) = Mine(flight, d)
  /\ \A r \in flight' : r \in flight \/ r.client = c

\* A call of the model is such a step.
LEMMA BecomesCalls ==
  ASSUME NEW c \in Client, NEW s, NEW rest, Becomes(c, s, rest),
         \A r \in s.sent : r.client = c,
         \A d \in Client \ {c} : Mine(rest, d) = Mine(flight, d),
         \A r \in rest : r \in flight \/ r.client = c
  PROVE  Calls(c, s.k, Mine(rest, c) \cup s.sent)
BY DEF Becomes, Calls, Mine

\* At most this client's secret and account are written.
Writes(c) ==
  /\ keyring' \in [Login -> Secret \cup {NULL}] /\ db' \in [Login -> Account \cup {NULL}]
  /\ \A l \in Login \ {login[c]} : keyring'[l] = keyring[l] /\ db'[l] = db[l]
  /\ \/ keyring'[login[c]] = keyring[login[c]] /\ db'[login[c]] = db[login[c]]
     \/ client[c].use # "none" /\ ~client[c].no_save

\* The step does not make a client one that is not saved.
NotReset(k, m) == m.no_save \/ m = NoClient => k.no_save \/ k = NoClient

\* What is known of the other clients, which a step for one client leaves as it is.
LEMMA OthersKept ==
  ASSUME IInv, NEW c \in Client, NEW k, NEW R, Calls(c, k, R), Writes(c),
         NotReset(client[c], k),
         NEW d \in Client, d # c, IsListed(d)' => IsListed(d)
  PROVE  Shape(client[d], Mine(flight, d), d)' /\ Known(d)'
<1>1. client'[d] = client[d] /\ client'[c] = k /\ \A e \in Client \ {c} : client'[e] = client[e]
  BY DEF Calls, IInv, Types
<1>2. Mine(flight', d) = Mine(flight, d)
  BY DEF Calls
<1>3. Shape(client[d], Mine(flight, d), d) /\ Known(d)
  BY DEF IInv, Good
<1>4. Shape(client[d], Mine(flight, d), d)'
  BY <1>1, <1>2, <1>3 DEF Shape
<1>5. Alone(d)' => Alone(d)
  BY <1>1 DEF Alone, NotReset
<1>6. login[c] \in Login /\ login[d] \in Login
  BY LoginAssumption
<1>7. Alone(d)' => keyring'[login[d]] = keyring[login[d]] /\ db'[login[d]] = db[login[d]]
  <2>1. SUFFICES ASSUME Alone(d)', login[d] = login[c]
                 PROVE  keyring'[login[d]] = keyring[login[d]] /\ db'[login[d]] = db[login[d]]
    BY <1>6 DEF Writes
  <2>2. client[c].no_save \/ client[c] = NoClient
    BY <1>5, <2>1 DEF Alone
  <2>3. ~(client[c].use # "none" /\ ~client[c].no_save)
    BY <2>2 DEF NoClient
  <2> QED
    BY <2>1, <2>3 DEF Writes
<1>8. Known(d)'
  BY <1>1, <1>2, <1>3, <1>5, <1>7 DEF Known
<1> QED
  BY <1>4, <1>8

\* A step for one client that leaves the list as it is: it keeps the invariant when it
\* keeps the shape and what is known of this client.
LEMMA Calm ==
  ASSUME IInv, NEW c \in Client, NEW k, NEW R, Calls(c, k, R), Writes(c),
         matrix' \in MatrixType, matrix.db_loaded, matrix'.db_loaded,
         matrix'.opening = matrix.opening,
         matrix'.clients = matrix.clients, matrix'.adding = matrix.adding,
         \/ matrix'.to_save = matrix.to_save
         \/ /\ matrix'.to_save = matrix.to_save \cup {login[c]} /\ ~HasClient(login[c])
            /\ login[c] \notin DOMAIN Given,
         keyring'[login[c]] # NULL \/ keyring'[login[c]] = keyring[login[c]],
         ~IsAdding(c), Shape(k, R, c), Known(c)',
         \/ k.use = client[c].use
         \/ client[c].use = "none" /\ k.use = "made" /\ login[c] \notin DOMAIN Given,
         NotReset(client[c], k),
         \A r \in R : r.op = "store" =>
           \/ r \in flight \/ r.then = "nothing"
           \/ /\ r.then = "list" /\ login[c] \in matrix'.to_save \ matrix.to_save
              /\ k.use = "made",
         Clearing(c) \in R => IsListed(c)
  PROVE  IInv'
<1>1. client'[c] = k /\ \A d \in Client \ {c} : client'[d] = client[d]
  BY DEF Calls, IInv, Types
<1>2. Mine(flight', c) = R /\ \A d \in Client \ {c} : Mine(flight', d) = Mine(flight, d)
  BY DEF Calls
<1>3. \A d : (IsListed(d)' <=> IsListed(d)) /\ (IsAdding(d)' <=> IsAdding(d))
  BY DEF IsListed, IsAdding
<1>4. \A d \in Client : Shape(client[d], Mine(flight, d), d)' /\ Known(d)'
  <2>1. ASSUME NEW d \in Client, d # c PROVE Shape(client[d], Mine(flight, d), d)' /\ Known(d)'
    BY <1>3, <2>1, OthersKept
  <2>2. Shape(client[c], Mine(flight, c), c)'
    BY <1>1, <1>2
  <2> QED
    BY <2>1, <2>2
<1>5. Types'
  <2>1. client' \in [Client -> ClientType]
    BY DEF Calls, IInv, Types, Shape
  <2>2. \A r \in flight' : \E d \in Client : r \in RequestsOf(d)
    BY <1>2 DEF IInv, Types, Calls, Shape, Mine
  <2> QED
    BY <2>1, <2>2 DEF Types, Writes
<1>6. Opening'
  BY DEF IInv, Opening
<1>7. login \in [Client -> Login]
  BY LoginAssumption
<1>8. Lists'
  BY DEF IInv, Lists, ListedOnce
<1>9. \A d \in Client : ListedOf(d)'
  <2>1. SUFFICES ASSUME NEW d \in Client, IsListed(d)'
                 PROVE  /\ client'[d].use = "made" /\ ~client'[d].no_save
                        /\ keyring'[login[d]] # NULL /\ login[d] \notin matrix'.to_save
    BY DEF ListedOf
  <2>2. /\ IsListed(d) /\ client[d].use = "made" /\ ~client[d].no_save
        /\ keyring[login[d]] # NULL /\ login[d] \notin matrix.to_save
    BY <1>3, <2>1 DEF IInv, Good, ListedOf
  <2>3. client'[d].use = "made" /\ ~client'[d].no_save
    BY <1>1, <2>2 DEF NotReset, NoClient
  <2>4. keyring'[login[d]] # NULL
    BY <1>7, <2>2 DEF Writes
  <2>5. HasClient(login[d])
    BY <2>2 DEF HasClient, IsListed, Range
  <2>6. login[d] \notin matrix'.to_save
    BY <2>2, <2>5
  <2> QED
    BY <2>3, <2>4, <2>6
<1>10. \A d \in Client : AddingOf(d)'
  <2>1. SUFFICES ASSUME NEW d \in Client, IsAdding(d) PROVE AddingOf(d)'
    BY <1>3 DEF AddingOf
  <2>2. d # c /\ AddingOf(d)
    BY <2>1 DEF IInv, Good
  <2>3. Loading(d) \notin flight'
    <3>1. Loading(d).client = d
      BY DEF Loading
    <3> QED
      BY <2>1, <2>2, <3>1 DEF AddingOf, Calls
  <2> QED
    BY <1>1, <1>3, <2>1, <2>2, <2>3 DEF AddingOf
<1>11. \A d \in Client : \A r \in Mine(flight', d) : r.op = "store" =>
         (r.then = "add" <=> (matrix'.adding # <<>> /\ d = matrix'.adding[1]))
  <2>1. SUFFICES ASSUME NEW d \in Client, NEW r \in Mine(flight', d), r.op = "store"
                 PROVE  r.then = "add" <=> (matrix.adding # <<>> /\ d = matrix.adding[1])
    OBVIOUS
  <2>2. CASE r \in Mine(flight, d)
    BY <2>1, <2>2 DEF IInv, Good, AnswersOf
  <2>3. CASE r \notin Mine(flight, d)
    <3>1. d = c /\ r \in R /\ r \notin flight
      BY <1>2, <2>3 DEF Mine, Calls
    <3>2. r.then # "add"
      BY <2>1, <3>1
    <3>3. matrix.adding # <<>> => c # matrix.adding[1]
      BY DEF IsAdding, IInv, Types, MatrixType
    <3> QED
      BY <3>1, <3>2, <3>3
  <2> QED
    BY <2>2, <2>3
<1>12. \A d \in Client : \A r \in Mine(flight', d) : r.op = "store" /\ r.then = "list" =>
         /\ login[d] \in matrix'.to_save /\ client'[d].use = "made"
         /\ \A q \in flight' : /\ q.op = "store" /\ q.then = "list"
                               /\ login[q.client] = login[d]
                              => q = r
  <2>1. SUFFICES ASSUME NEW d \in Client, NEW r \in Mine(flight', d),
                        r.op = "store", r.then = "list"
                 PROVE  /\ login[d] \in matrix'.to_save /\ client'[d].use = "made"
                        /\ \A q \in flight' : /\ q.op = "store" /\ q.then = "list"
                                              /\ login[q.client] = login[d]
                                             => q = r
    OBVIOUS
  <2>2. \A q \in flight' \ flight : q \in R
    BY <1>2 DEF Calls, Mine
  <2>3. \A q \in flight : q.op = "store" /\ q.then = "list" => login[q.client] \in matrix.to_save
    <3>1. \A q \in flight : q.client \in Client
      BY DEF IInv, Types, RequestsOf
    <3> QED
      BY <3>1 DEF IInv, Good, AnswersOf, Mine
  <2>4. CASE r \in flight
    <3>1. r \in Mine(flight, d)
      BY <2>1, <2>4 DEF Mine
    <3>2. /\ login[d] \in matrix.to_save /\ client[d].use = "made"
          /\ \A q \in flight : /\ q.op = "store" /\ q.then = "list"
                               /\ login[q.client] = login[d]
                              => q = r
      BY <2>1, <3>1 DEF IInv, Good, AnswersOf
    <3>3. client'[d].use = "made"
      BY <1>1, <3>2
    <3>4. ASSUME NEW q \in flight' \ flight, q.op = "store", q.then = "list",
                 login[q.client] = login[d]
          PROVE  FALSE
      BY <1>2, <2>2, <3>2, <3>4 DEF Mine
    <3> QED
      BY <3>2, <3>3, <3>4
  <2>5. CASE r \notin flight
    <3>1. d = c /\ r \in R
      BY <1>2, <2>1, <2>5 DEF Mine, Calls
    <3>2. login[c] \in matrix'.to_save \ matrix.to_save /\ k.use = "made"
      BY <2>1, <2>5, <3>1
    <3>3. ASSUME NEW q \in flight', q.op = "store", q.then = "list", login[q.client] = login[d]
          PROVE  q = r
      BY <2>1, <2>2, <2>3, <3>1, <3>2, <3>3 DEF Shape
    <3> QED
      BY <1>1, <3>1, <3>2, <3>3
  <2> QED
    BY <2>4, <2>5
<1>13. \A d \in Client : Clearing(d) \in flight' => IsListed(d)'
  <2>1. \A d \in Client : Clearing(d).client = d
    BY DEF Clearing
  <2>2. \A d \in Client : Clearing(d) \in flight => IsListed(d)
    BY DEF IInv, Good, AnswersOf
  <2> QED
    BY <1>2, <1>3, <2>1, <2>2 DEF Mine
<1>14. \A d \in Client : client'[d].use = "made" /\ login[d] \in DOMAIN Given =>
         IsListed(d)' \/ IsAdding(d)'
  BY <1>1, <1>3 DEF IInv, Good, AnswersOf
<1>15. \A d \in Client : AnswersOf(d)'
  BY <1>11, <1>12, <1>13, <1>14 DEF AnswersOf
<1> QED
  BY <1>4, <1>5, <1>6, <1>8, <1>9, <1>10, <1>15 DEF IInv, Good

\* The step changes no list and does not open the database.
SameLists ==
  /\ matrix' \in MatrixType /\ matrix'.clients = matrix.clients
  /\ matrix'.adding = matrix.adding /\ matrix'.to_save = matrix.to_save
  /\ matrix'.opening = matrix.opening /\ matrix'.db_loaded = matrix.db_loaded

\* Counting a change changes no list.
LEMMA ChangeKeepsLists ==
  ASSUME IInv, NEW c, Change(c) \/ UNCHANGED matrix
  PROVE  SameLists
<1>1. matrix \in MatrixType
  BY DEF IInv, Types
<1>2. CASE UNCHANGED matrix
  BY <1>1, <1>2 DEF SameLists
<1>3. CASE Change(c)
  <2>1. matrix' = [matrix EXCEPT !.changes = matrix.changes + 1]
    BY <1>3 DEF Change
  <2>2. matrix' \in MatrixType
    <3>1. PICK n \in Nat : n = matrix.changes + 1
      BY <1>1 DEF MatrixType
    <3>2. matrix' = [matrix EXCEPT !.changes = n]
      BY <2>1, <3>1
    <3> QED
      BY <1>1, <3>2 DEF MatrixType
  <2>3. /\ matrix'.clients = matrix.clients /\ matrix'.adding = matrix.adding
        /\ matrix'.to_save = matrix.to_save /\ matrix'.opening = matrix.opening
        /\ matrix'.db_loaded = matrix.db_loaded
    BY <1>1, <2>1 DEF MatrixType
  <2> QED
    BY <2>2, <2>3 DEF SameLists
<1> QED
  BY <1>2, <1>3

\* A client, or a request, is there when the database is open.
LEMMA IsOpen ==
  ASSUME IInv, NEW c \in Client, client[c].use # "none" \/ Mine(flight, c) # {}
  PROVE  matrix.db_loaded
<1>1. CASE client[c].use # "none"
  BY <1>1 DEF IInv, Opening, NoClient
<1>2. CASE Mine(flight, c) # {}
  BY <1>2 DEF IInv, Opening, Mine
<1> QED
  BY <1>1, <1>2

\* The application has no client that is being added.
LEMMA UsableIsNotAdding ==
  ASSUME IInv, NEW c \in Client, Usable(c)
  PROVE  ~IsAdding(c)
BY DEF Usable, IsAdding, Range

\* What marking a client does, when no request has been sent for it.
MarkedAs(k, Q, c, account, secret, m) ==
  /\ Alike(k, m.k) /\ Shape(m.k, Q \cup m.sent, c)
  /\ \A r \in m.sent : r.op = "save" \/ (r.op = "store" /\ r.then = "nothing")
  /\ \A w : account \/ AccountNow(k, Q, w) => AccountNow(m.k, Q \cup m.sent, w)
  /\ \A w : secret \/ SecretNow(k, Q, w) => SecretNow(m.k, Q \cup m.sent, w)
  /\ m.k.saving_secret => k.saving_secret \/ \A w : SecretNow(m.k, Q \cup m.sent, w)
  /\ k.saving_secret => /\ \A r \in m.sent : r.op = "save"
                        /\ m.k.pending_secret = (k.pending_secret \/ secret)

\* client_mark_for_save() does this.
LEMMA MarkedOnly ==
  ASSUME NEW c, NEW k, NEW Q, Shape(k, Q, c), ~k.no_save, k.use # "none",
         NEW account \in BOOLEAN, NEW secret \in BOOLEAN,
         account => EarlyChanges \/ Loading(c) \notin Q
  PROVE  MarkedAs(k, Q, c, account, secret, Marked(Only(k), c, account, secret))
<1>1. PICK S : S = {}
  OBVIOUS
<1>2. PICK m : m = Marked([k |-> k, sent |-> S], c, account, secret)
  OBVIOUS
<1>3. Q \cup S = Q /\ m.sent \ S = m.sent /\ Only(k) = [k |-> k, sent |-> S]
  BY <1>1 DEF Only
<1>4. Shape(k, Q \cup S, c) /\ (account => EarlyChanges \/ Loading(c) \notin Q \cup S)
  BY <1>3
<1>5. MarkedFrom(k, Q, S, c, account, secret, m)
  BY <1>2, <1>4, MarkedOutcome
<1> QED
  BY <1>2, <1>3, <1>5 DEF MarkedAs, MarkedFrom

\* A call that leaves the list and what is stored as they are and marks the client
LEMMA MarkedStep ==
  ASSUME IInv, NEW c \in Client, NEW k, NEW rest,
         NEW account \in BOOLEAN, NEW secret \in BOOLEAN,
         Shape(k, Mine(rest, c), c), client[c].use # "none",
         k.use = client[c].use, k.no_save = client[c].no_save, ~IsAdding(c),
         \/ account
         \/ /\ k.enc => client[c].enc
            /\ \A w : AccountNow(client[c], Mine(flight, c), w) => AccountNow(k, Mine(rest, c), w),
         \/ secret
         \/ \A w : SecretNow(client[c], Mine(flight, c), w) => SecretNow(k, Mine(rest, c), w),
         account => EarlyChanges \/ Loading(c) \notin Mine(rest, c),
         \A d \in Client \ {c} : Mine(rest, d) = Mine(flight, d),
         \A r \in rest : r \in flight \/ r.client = c,
         \A r \in Mine(rest, c) : r.op = "store" => r \in flight,
         Clearing(c) \in Mine(rest, c) => IsListed(c),
         SameLists, UNCHANGED <<keyring, db>>,
         NEW s, s = Marked(Only(k), c, account, secret), Becomes(c, s, rest)
  PROVE  IInv'
<1> DEFINE Q == Mine(rest, c)
<1>1. matrix.db_loaded
  BY IsOpen
<1>2. Only(k) = [k |-> k, sent |-> {}] /\ Q \cup {} = Q
  BY DEF Only
<1>3. NotReset(client[c], s.k)
  <2>1. CASE k.no_save
    BY <2>1 DEF NotReset
  <2>2. CASE ~k.no_save
    <3>1. Alike(k, s.k)
      <4>1. MarkedAs(k, Q, c, account, secret, s)
        BY <2>2, MarkedOnly
      <4> QED
        BY <4>1 DEF MarkedAs
    <3> QED
      BY <2>2, <3>1 DEF NotReset, Alike, NoClient
  <2> QED
    BY <2>1, <2>2
<1>4. Writes(c)
  BY DEF IInv, Types, Writes
<1>5. CASE k.no_save
  <2>1. s.k = k /\ s.sent = {}
    BY <1>2, <1>5 DEF Marked
  <2>2. Calls(c, k, Q)
    <3>1. Calls(c, s.k, Q \cup s.sent)
      BY <2>1, BecomesCalls
    <3> QED
      BY <1>2, <2>1, <3>1
  <2>3. client'[c] = k
    BY <2>2 DEF Calls, IInv, Types
  <2>4. Known(c)'
    BY <1>5, <2>3 DEF Known
  <2> QED
    BY <1>1, <1>3, <1>4, <2>1, <2>2, <2>4, Calm DEF SameLists
<1>6. CASE ~k.no_save
  <2>1. /\ Alike(k, s.k) /\ Shape(s.k, Q \cup s.sent, c)
        /\ \A r \in s.sent : r.op = "save" \/ (r.op = "store" /\ r.then = "nothing")
        /\ \A w : account \/ AccountNow(k, Q, w) => AccountNow(s.k, Q \cup s.sent, w)
        /\ \A w : secret \/ SecretNow(k, Q, w) => SecretNow(s.k, Q \cup s.sent, w)
        /\ s.k.saving_secret =>
              k.saving_secret \/ \A w : SecretNow(s.k, Q \cup s.sent, w)
    <3>1. MarkedAs(k, Q, c, account, secret, s)
      BY <1>6, MarkedOnly
    <3> QED
      BY <3>1 DEF MarkedAs
  <2>2. \A r \in s.sent : r.client = c
    BY <2>1 DEF Shape, RequestsOf
  <2>3. Calls(c, s.k, Q \cup s.sent)
    BY <2>2, BecomesCalls
  <2>4. client'[c] = s.k /\ Mine(flight', c) = Q \cup s.sent
    BY <2>3 DEF Calls, IInv, Types
  <2>5. Known(c) /\ Shape(client[c], Mine(flight, c), c)
    BY DEF IInv, Good
  <2>6. Alone(c)' => Alone(c)
    BY <2>3 DEF Alone, Calls, IInv, Types
  <2>7. Known(c)'
    <3>1. SUFFICES ASSUME Alone(c)
                   PROVE  /\ s.k.enc /\ ~EarlyChanges =>
                               AccountNow(s.k, Q \cup s.sent, db[login[c]])
                          /\ IsListed(c) \/ HasA("store", Q \cup s.sent) =>
                               SecretNow(s.k, Q \cup s.sent, keyring[login[c]])
      BY <2>4, <2>6 DEF Known, IsListed, SameLists
    <3>2. /\ client[c].enc /\ ~EarlyChanges => AccountNow(client[c], Mine(flight, c), db[login[c]])
          /\ IsListed(c) \/ HasA("store", Mine(flight, c)) =>
               SecretNow(client[c], Mine(flight, c), keyring[login[c]])
      BY <1>6, <2>5, <3>1 DEF Known
    <3>3. s.k.enc /\ ~EarlyChanges => AccountNow(s.k, Q \cup s.sent, db[login[c]])
      BY <2>1, <3>2 DEF Alike
    <3>4. ASSUME IsListed(c) \/ HasA("store", Q \cup s.sent)
          PROVE  SecretNow(s.k, Q \cup s.sent, keyring[login[c]])
      <4>1. CASE IsListed(c) \/ HasA("store", Mine(flight, c))
        BY <2>1, <3>2, <4>1
      <4>2. CASE ~(IsListed(c) \/ HasA("store", Mine(flight, c)))
        <5>1. s.k.saving_secret /\ ~k.saving_secret
          <6>1. ~HasA("store", Q)
            BY <4>2 DEF HasA, Mine
          <6> QED
            BY <2>1, <3>4, <4>2, <6>1 DEF Shape
        <5> QED
          BY <2>1, <5>1
      <4> QED
        BY <4>1, <4>2
    <3> QED
      BY <3>3, <3>4
  <2>8. s.k.use = client[c].use
    BY <2>1 DEF Alike
  <2>9. \A r \in Q \cup s.sent : r.op = "store" => r \in flight \/ r.then = "nothing"
    BY <2>1
  <2>10. Clearing(c) \in Q \cup s.sent => IsListed(c)
    BY <2>1 DEF Clearing
  <2> QED
    BY <1>1, <1>3, <1>4, <2>1, <2>3, <2>7, <2>8, <2>9, <2>10, Calm DEF SameLists
<1> QED
  BY <1>5, <1>6

\* Enabling a client leaves the rest of it as it is.
LEMMA EnabledKeeps ==
  ASSUME NEW k \in ClientType, NEW enable \in BOOLEAN
  PROVE  LET m == [k EXCEPT !.enabled = enable]
         IN  /\ m \in ClientType /\ m.use = k.use /\ m.no_save = k.no_save /\ m.enc = k.enc
             /\ m.user = k.user /\ m.token = k.token
             /\ m.saving_client = k.saving_client /\ m.pending_client = k.pending_client
             /\ m.saving_secret = k.saving_secret
BY DEF ClientType

\* What a call sends is added to what it has sent.
Adds(s, t, L) == s = [k |-> t.k, sent |-> L \cup t.sent]

\* Marking sends the same whatever was sent before.
LEMMA MarkedAdds ==
  ASSUME NEW c, NEW k, NEW L, NEW a \in BOOLEAN, NEW b \in BOOLEAN
  PROVE  Adds(Marked([k |-> k, sent |-> L], c, a, b), Marked(Only(k), c, a, b), L)
<1>1. ASSUME NEW n, NEW S
      PROVE  Adds(SaveAccount([k |-> n, sent |-> L \cup S], c),
                  SaveAccount([k |-> n, sent |-> S], c), L)
  BY DEF Adds, SaveAccount
<1>2. ASSUME NEW n, NEW S
      PROVE  Adds(SaveSecrets([k |-> n, sent |-> L \cup S], c, "nothing"),
                  SaveSecrets([k |-> n, sent |-> S], c, "nothing"), L)
  <2>1. PICK m : m = [n EXCEPT !.saving_secret = TRUE, !.pending_secret = FALSE]
    OBVIOUS
  <2>2. PICK t : t = SaveAccount([k |-> m, sent |-> S], c)
    OBVIOUS
  <2>3. SaveAccount([k |-> m, sent |-> L \cup S], c) = [k |-> t.k, sent |-> L \cup t.sent]
    BY <1>1, <2>2 DEF Adds
  <2>4. SaveSecrets([k |-> n, sent |-> S], c, "nothing") =
          [k |-> t.k, sent |-> t.sent \cup {Storing(c, SecretOf(n, "nothing"), "nothing")}]
    BY <2>1, <2>2 DEF SaveSecrets
  <2>5. SaveSecrets([k |-> n, sent |-> L \cup S], c, "nothing") =
          [k |-> t.k,
           sent |-> (L \cup t.sent) \cup {Storing(c, SecretOf(n, "nothing"), "nothing")}]
    BY <2>1, <2>3 DEF SaveSecrets
  <2> QED
    BY <2>4, <2>5 DEF Adds
<1>3. ASSUME NEW n
      PROVE  Adds(Save([k |-> n, sent |-> L], c), Save([k |-> n, sent |-> {}], c), L)
  <2>1. PICK t : t = SaveAccount([k |-> n, sent |-> {}], c)
    OBVIOUS
  <2>2. SaveAccount([k |-> n, sent |-> L \cup {}], c) = [k |-> t.k, sent |-> L \cup t.sent]
    BY <1>1, <2>1 DEF Adds
  <2>3. L \cup {} = L /\ t = [k |-> t.k, sent |-> t.sent]
    BY <2>1 DEF SaveAccount
  <2>4. Adds(SaveSecrets([k |-> t.k, sent |-> L \cup t.sent], c, "nothing"),
             SaveSecrets([k |-> t.k, sent |-> t.sent], c, "nothing"), L)
    BY <1>2
  <2>5. CASE ~t.k.no_save /\ t.k.pending_secret /\ ~t.k.saving_secret
    BY <2>1, <2>2, <2>3, <2>4, <2>5 DEF Save
  <2>6. CASE ~(~t.k.no_save /\ t.k.pending_secret /\ ~t.k.saving_secret)
    <3>1. PICK v : v = [k |-> t.k, sent |-> L \cup t.sent]
      OBVIOUS
    <3>2. v.k = t.k /\ SaveAccount([k |-> n, sent |-> L], c) = v
      BY <2>2, <2>3, <3>1
    <3>3. Save([k |-> n, sent |-> L], c) = v
      BY <2>6, <3>2 DEF Save
    <3>4. Save([k |-> n, sent |-> {}], c) = t
      BY <2>1, <2>6 DEF Save
    <3> QED
      BY <3>1, <3>3, <3>4 DEF Adds
  <2> QED
    BY <2>5, <2>6
<1>4. CASE k.no_save
  BY <1>4 DEF Marked, Only, Adds
<1>5. CASE ~k.no_save
  <2>1. PICK n : n = [k EXCEPT !.pending_client = @ \/ a, !.pending_secret = @ \/ b]
    OBVIOUS
  <2>2. /\ Marked(Only(k), c, a, b) = Save([k |-> n, sent |-> {}], c)
        /\ Marked([k |-> k, sent |-> L], c, a, b) = Save([k |-> n, sent |-> L], c)
    BY <1>5, <2>1 DEF Marked, Only
  <2> QED
    BY <1>3, <2>2
<1> QED
  BY <1>4, <1>5

\* A client is enabled or disabled; it is loaded first if it has to be.
LEMMA EnabledStep ==
  ASSUME IInv, NEW c \in Client, NEW enable \in BOOLEAN, NEW rest,
         client[c].use # "none", ~IsAdding(c), Change(c), client[c].enabled # enable,
         rest = flight \/ (rest = flight \cup {Clearing(c)} /\ IsListed(c)),
         Clearing(c) \notin flight \/ rest = flight,
         Becomes(c, Enabled(c, enable), rest), UNCHANGED <<keyring, db>>
  PROVE  IInv'
<1> DEFINE k == client[c]
<1>1. PICK m : m = [k EXCEPT !.enabled = enable]
  OBVIOUS
<1>2. Shape(k, Mine(flight, c), c) /\ k \in ClientType /\ AnswersOf(c)
  BY DEF IInv, Good, Shape
<1>3. /\ m \in ClientType /\ m.use = k.use /\ m.no_save = k.no_save /\ m.enc = k.enc
      /\ m.user = k.user /\ m.token = k.token
      /\ m.saving_client = k.saving_client /\ m.pending_client = k.pending_client
      /\ m.saving_secret = k.saving_secret
  BY <1>1, <1>2, EnabledKeeps
<1>4. PICK L : L = IF enable /\ k.token /\ ~k.enc THEN {Loading(c)} ELSE {}
  OBVIOUS
<1>5. Enabled(c, enable) = Marked([k |-> m, sent |-> L], c, TRUE, TRUE)
  BY <1>1, <1>4 DEF Enabled
<1>6. /\ Clearing(c).client = c /\ Clearing(c).op = "clear" /\ Clearing(c) \in RequestsOf(c)
      /\ Loading(c).client = c /\ Loading(c).op = "load" /\ Loading(c) \in RequestsOf(c)
  BY SpecOfRequests
<1>7. /\ \A r \in L : r = Loading(c)
      /\ L # {} => k.token /\ ~k.enc /\ EarlyChanges /\ ~k.no_save
  BY <1>2, <1>4 DEF Change, Shape
<1>8. k.no_save => rest = flight
  BY DEF IInv, Good, ListedOf
<1> DEFINE Q == Mine(flight, c)
           all == rest \cup L
           T == Mine(all, c)
<1>9. /\ \A r \in rest : r \in flight \/ r = Clearing(c)
      /\ flight \subseteq rest
  OBVIOUS
<1>10. /\ \A d \in Client \ {c} : Mine(all, d) = Mine(flight, d)
       /\ \A r \in T : r \in Q \/ r = Clearing(c) \/ r = Loading(c)
       /\ \A r \in Q : r \in T
  BY <1>6, <1>7, <1>9 DEF Mine
<1>11. Loading(c) \in T =>
         k.token /\ ~k.enc /\ (EarlyChanges \/ (~k.pending_client /\ ~k.saving_client))
  <2>1. Loading(c) \in T => Loading(c) \in Q \/ L # {}
    BY <1>6, <1>9 DEF Mine
  <2> QED
    BY <1>2, <1>7, <2>1 DEF Shape
<1>12. Shape(m, T, c)
  <2>1. \A r \in T : r \in RequestsOf(c)
    BY <1>2, <1>6, <1>10 DEF Shape
  <2>2. \A r \in Q : /\ r.op = "clear" => r = Clearing(c)
                     /\ r.op = "load" => r = Loading(c)
    BY <1>2 DEF Shape, RequestsOf, Clearing, Loading
  <2>3. \A q, r \in T : q.op = r.op => q = r
    BY <1>2, <1>6, <1>10, <2>2 DEF Shape
  <2>4. /\ HasA("save", T) <=> HasA("save", Q)
        /\ HasA("store", T) <=> HasA("store", Q)
    BY <1>6, <1>10 DEF HasA
  <2>5. k.no_save => T = Q
    <3>1. SUFFICES ASSUME k.no_save PROVE T = Q
      OBVIOUS
    <3>2. rest = flight /\ L = {}
      BY <1>7, <1>8, <3>1
    <3> QED
      BY <3>2
  <2>6. /\ m.saving_client <=> HasA("save", T)
        /\ m.saving_secret <=> HasA("store", T)
    BY <1>2, <1>3, <2>4 DEF Shape
  <2>7. m.no_save => T = {} /\ (m.enc => m.user) /\ (m.token => m.enc)
    BY <1>2, <1>3, <2>5 DEF Shape
  <2>8. m.use # "none"
    BY <1>3
  <2> HIDE DEF T, Q
  <2> QED
    BY <1>3, <1>11, <2>1, <2>3, <2>6, <2>7, <2>8 DEF Shape
<1>13. \A r \in T : r.op = "store" => r \in flight
  BY <1>6, <1>10 DEF Mine
<1>14. Clearing(c) \in T => IsListed(c)
  <2>1. Clearing(c) # Loading(c)
    BY <1>6
  <2>2. Clearing(c) \in T => Clearing(c) \in flight \/ rest # flight
    BY <1>7, <2>1 DEF Mine
  <2> QED
    BY <1>2, <2>2 DEF AnswersOf
<1>15. \A r \in all : r \in flight \/ r.client = c
  BY <1>6, <1>7, <1>9
<1>16. PICK s : s = Marked(Only(m), c, TRUE, TRUE)
  OBVIOUS
<1>17. Becomes(c, s, all)
  <2>1. Enabled(c, enable) = [k |-> s.k, sent |-> L \cup s.sent]
    <3>1. PICK u : u = Marked([k |-> m, sent |-> L], c, TRUE, TRUE)
      OBVIOUS
    <3>2. Adds(u, s, L)
      BY <1>16, <3>1, MarkedAdds
    <3> QED
      BY <1>5, <3>1, <3>2 DEF Adds
  <2> QED
    BY <2>1 DEF Becomes
<1>18. TRUE => EarlyChanges \/ Loading(c) \notin T
  BY <1>3, <1>11 DEF Change
<1>19. SameLists
  BY ChangeKeepsLists
<1> HIDE DEF T, Q, all
<1> QED
  BY <1>3, <1>10, <1>12, <1>13, <1>14, <1>15, <1>16, <1>17, <1>18, <1>19, MarkedStep DEF T

\* cm_client_set_enabled() keeps the invariant.
LEMMA SetEnabledKeeps ==
  ASSUME IInv, NEW c \in Client, SetEnabled(c)
  PROVE  IInv'
<1>1. client[c].use # "none" /\ ~IsAdding(c)
  BY UsableIsNotAdding DEF SetEnabled, Usable
<1>2. client[c].enabled \in BOOLEAN
  BY DEF IInv, Types, ClientType
<1> QED
  BY <1>1, <1>2, EnabledStep DEF SetEnabled

\* A synchronisation keeps the invariant.
LEMMA SyncDoneKeeps ==
  ASSUME IInv, NEW c \in Client, SyncDone(c)
  PROVE  IInv'
<1> DEFINE k == client[c]
<1>1. Shape(k, Mine(flight, c), c) /\ k \in ClientType /\ AnswersOf(c) /\ AddingOf(c)
  BY DEF IInv, Good, Shape
<1>2. k.use = "made" /\ Change(c) /\ k.enabled /\ k.enc
  BY DEF SyncDone
<1>3. PICK m : m = [k EXCEPT !.batch = k.batch + 1]
  OBVIOUS
<1>4. PICK n \in Nat : n = k.batch + 1
  BY <1>1 DEF ClientType
<1>5. m = [k EXCEPT !.batch = n]
  BY <1>3, <1>4
<1>6. m \in ClientType
  BY <1>1, <1>5 DEF ClientType
<1>7. /\ m.use = k.use /\ m.no_save = k.no_save /\ m.user = k.user /\ m.token = k.token
      /\ m.enabled = k.enabled /\ m.in_store = k.in_store /\ m.enc = k.enc
      /\ m.saving_client = k.saving_client /\ m.pending_client = k.pending_client
      /\ m.saving_secret = k.saving_secret /\ m.pending_secret = k.pending_secret
  BY <1>1, <1>5 DEF ClientType
<1>8. ~IsAdding(c)
  BY <1>1, <1>2 DEF AddingOf
<1>9. Shape(m, Mine(flight, c), c)
  BY <1>1, <1>2, <1>6, <1>7 DEF Shape
<1>10. \A v : SecretIs(m, v) <=> SecretIs(k, v)
  BY <1>7 DEF SecretIs, SecretOf
<1>11. \A w : SecretNow(k, Mine(flight, c), w) => SecretNow(m, Mine(flight, c), w)
  BY <1>7, <1>10 DEF SecretNow
<1>12. Loading(c) \notin Mine(flight, c)
  BY <1>1, <1>2 DEF Shape
<1>13. Clearing(c) \in Mine(flight, c) => IsListed(c)
  BY <1>1 DEF AnswersOf, Mine
<1>14. Becomes(c, Marked(Only(m), c, TRUE, FALSE), flight) /\ UNCHANGED <<keyring, db>>
  BY <1>3 DEF SyncDone
<1>15. SameLists
  BY <1>2, ChangeKeepsLists
<1>16. \A r \in Mine(flight, c) : r.op = "store" => r \in flight
  BY DEF Mine
<1> QED
  BY <1>2, <1>7, <1>8, <1>9, <1>11, <1>12, <1>13, <1>14, <1>15, <1>16, MarkedStep

\* The list and the clients in it.
LEMMA ListedIs ==
  ASSUME IInv, NEW c
  PROVE  /\ c \in Range(matrix.clients) <=> IsListed(c)
         /\ c \in Range(matrix.adding) <=> IsAdding(c)
         /\ HasClient(login[c]) <=> \/ \E d : IsListed(d) /\ login[d] = login[c]
                                    \/ login[c] \in matrix.to_save
BY DEF IsListed, IsAdding, Range, HasClient

\* A client in the list may be saved and is not being added.
LEMMA ListedFacts ==
  ASSUME IInv, NEW c \in Client, IsListed(c)
  PROVE  client[c].use = "made" /\ ~client[c].no_save /\ ~IsAdding(c)
BY DEF IInv, Good, ListedOf, AddingOf

\* A call that adds nothing to what is known of a client, with its requests in rest
LEMMA QuietStep ==
  ASSUME IInv, NEW c \in Client, NEW k, NEW rest,
         Becomes(c, Only(k), rest), Shape(k, Mine(rest, c), c), ~IsAdding(c),
         client[c].use # "none", k.use = client[c].use, NotReset(client[c], k),
         \A d \in Client \ {c} : Mine(rest, d) = Mine(flight, d),
         \A r \in rest : r \in flight \/ r.client = c,
         \A r \in Mine(rest, c) : r.op = "store" => r \in flight,
         Clearing(c) \in Mine(rest, c) => IsListed(c),
         SameLists, Writes(c),
         keyring'[login[c]] # NULL \/ keyring'[login[c]] = keyring[login[c]],
         Alone(c) /\ ~k.no_save =>
           /\ k.enc /\ ~EarlyChanges => AccountNow(k, Mine(rest, c), db'[login[c]])
           /\ IsListed(c) \/ HasA("store", Mine(rest, c)) =>
                SecretNow(k, Mine(rest, c), keyring'[login[c]])
  PROVE  IInv'
<1> DEFINE Q == Mine(rest, c)
<1>1. Only(k).k = k /\ Only(k).sent = {}
  BY DEF Only
<1>2. Calls(c, k, Q)
  <2>1. Calls(c, Only(k).k, Q \cup Only(k).sent)
    BY <1>1, BecomesCalls
  <2> QED
    BY <1>1, <2>1
<1>3. client'[c] = k /\ Mine(flight', c) = Q
  BY <1>2 DEF Calls, IInv, Types
<1>4. Alone(c)' => Alone(c)
  BY <1>2 DEF Alone, Calls, IInv, Types
<1>5. Known(c)'
  BY <1>3, <1>4 DEF Known, IsListed, SameLists
<1>6. matrix.db_loaded
  BY IsOpen
<1> QED
  BY <1>2, <1>5, <1>6, Calm DEF SameLists

\* cm_matrix_delete_client_async() keeps the invariant.
LEMMA DeleteKeeps ==
  ASSUME IInv, NEW c \in Client, Delete(c)
  PROVE  IInv'
<1> DEFINE k == client[c]
           rest == flight \cup {Clearing(c)}
           Q == Mine(flight, c)
<1>1. IsListed(c) /\ Clearing(c) \notin flight /\ UNCHANGED <<keyring, db>>
  BY ListedIs DEF Delete
<1>2. Becomes(c, Enabled(c, FALSE), rest)
  BY DEF Delete
<1>3. k.use = "made" /\ ~k.no_save /\ ~IsAdding(c)
  BY <1>1, ListedFacts
<1>4. CASE k.enabled
  <2>1. Change(c) /\ k.enabled # FALSE
    BY <1>4 DEF Delete
  <2> HIDE DEF rest
  <2> QED
    BY <1>1, <1>2, <1>3, <2>1, EnabledStep DEF rest
<1>5. CASE ~k.enabled
  <2>1. Becomes(c, Only(k), rest)
    <3>1. k.enabled \in BOOLEAN
      BY DEF IInv, Types, ClientType
    <3>2. Enabled(c, FALSE) = Only(k)
      BY <1>5, <3>1 DEF Enabled
    <3> QED
      BY <1>2, <3>2
  <2>2. Shape(k, Q, c) /\ Known(c)
    BY DEF IInv, Good
  <2>3. Clearing(c).client = c /\ Clearing(c).op = "clear" /\ Clearing(c) \in RequestsOf(c)
    BY SpecOfRequests
  <2>4. Loading(c).client = c /\ Loading(c).op = "load"
    BY SpecOfRequests
  <2>5. /\ Mine(rest, c) = Q \cup {Clearing(c)}
        /\ \A d \in Client \ {c} : Mine(rest, d) = Mine(flight, d)
    BY <2>3 DEF Mine
  <2>6. \A r \in Q : r.op # "clear"
    <3>1. \A r \in Q : r.op = "clear" => r = Clearing(c)
      BY <2>2 DEF Shape, RequestsOf, Clearing
    <3> QED
      BY <1>1, <3>1 DEF Mine
  <2>7. /\ HasA("save", Q \cup {Clearing(c)}) <=> HasA("save", Q)
        /\ HasA("store", Q \cup {Clearing(c)}) <=> HasA("store", Q)
        /\ Loading(c) \in Q \cup {Clearing(c)} <=> Loading(c) \in Q
    BY <2>3, <2>4 DEF HasA
  <2>8. Shape(k, Q \cup {Clearing(c)}, c)
    <3>1. \A q, r \in Q \cup {Clearing(c)} : q.op = r.op => q = r
      BY <2>2, <2>3, <2>6 DEF Shape
    <3> QED
      BY <1>3, <2>2, <2>3, <2>7, <3>1 DEF Shape
  <2>9. Alone(c) /\ ~k.no_save =>
           /\ k.enc /\ ~EarlyChanges => AccountNow(k, Q \cup {Clearing(c)}, db[login[c]])
           /\ IsListed(c) \/ HasA("store", Q \cup {Clearing(c)}) =>
                SecretNow(k, Q \cup {Clearing(c)}, keyring[login[c]])
    BY <2>2, <2>7 DEF Known, AccountNow, SecretNow
  <2>10. SameLists /\ Writes(c)
    <3>1. SameLists
      BY ChangeKeepsLists DEF Delete
    <3> QED
      BY <1>1, <3>1 DEF Writes, IInv, Types
  <2>11. \A r \in Q \cup {Clearing(c)} : r.op = "store" => r \in flight
    BY <2>3 DEF Mine
  <2>12. \A r \in rest : r \in flight \/ r.client = c
    BY <2>3
  <2> HIDE DEF rest
  <2> QED
    BY <1>1, <1>3, <2>1, <2>5, <2>8, <2>9, <2>10, <2>11, <2>12, QuietStep DEF NotReset
<1> QED
  BY <1>4, <1>5 DEF IInv, Types, ClientType

\* cm_matrix_client_new() keeps the invariant.
LEMMA NewKeeps ==
  ASSUME IInv, ~EarlyClients, NEW c \in Client, New(c)
  PROVE  IInv'
<1>1. /\ matrix.db_loaded /\ client[c] = NoClient /\ login[c] \notin DOMAIN Given
      /\ UNCHANGED <<matrix, flight, keyring, db>>
  BY DEF New
<1>2. PICK k : k = [NoClient EXCEPT !.use = "made", !.no_save = TRUE]
  OBVIOUS
<1>3. NoClient \in ClientType
  BY DEF NoClient, ClientType
<1>4. k \in ClientType
  BY <1>2, <1>3 DEF ClientType
<1>5. /\ k.use = "made" /\ k.no_save /\ ~k.enc /\ ~k.token
      /\ ~k.saving_client /\ ~k.saving_secret
  BY <1>2 DEF NoClient
<1>6. /\ Mine(flight, c) = {} /\ client[c].use = "none"
      /\ AddingOf(c) /\ AnswersOf(c)
  BY <1>1 DEF IInv, Good, Shape, NoClient
<1>7. Calls(c, k, {})
  BY <1>1, <1>2, <1>6 DEF Calls, New
<1>8. client'[c] = k
  BY <1>7 DEF Calls, IInv, Types
<1>9. Shape(k, {}, c)
  BY <1>4, <1>5 DEF Shape, HasA
<1>10. Known(c)'
  BY <1>5, <1>8 DEF Known
<1>11. Writes(c)
  BY <1>1 DEF Writes, IInv, Types
<1>12. ~IsAdding(c)
  BY <1>6 DEF AddingOf
<1>13. SameLists
  BY <1>1, ChangeKeepsLists
<1>14. NotReset(client[c], k)
  BY <1>1 DEF NotReset
<1>15. \A r \in {} : r.op = "store" => r \in flight
  OBVIOUS
<1> QED
  BY <1>1, <1>5, <1>6, <1>7, <1>9, <1>10, <1>11, <1>12, <1>13, <1>14, <1>15, Calm DEF SameLists

\* db_load_client_cb() keeps the invariant.
LEMMA LoadedKeeps ==
  ASSUME IInv, NEW c \in Client, Loaded(c)
  PROVE  IInv'
<1> DEFINE k == client[c]
           account == db[login[c]]
           Q == Mine(flight, c) \ {Loading(c)}
<1>1. Loading(c).client = c /\ Loading(c).op = "load" /\ Loading(c) \in flight
  BY SpecOfRequests DEF Loaded
<1>2. /\ Shape(k, Mine(flight, c), c) /\ k \in ClientType /\ Known(c) /\ AddingOf(c)
      /\ AnswersOf(c) /\ Loading(c) \in Mine(flight, c)
  BY <1>1 DEF IInv, Good, Shape, Mine
<1>3. /\ k.token /\ ~k.enc /\ ~k.no_save /\ k.use # "none"
      /\ EarlyChanges \/ (~k.pending_client /\ ~k.saving_client)
  BY <1>2 DEF Shape
<1>4. PICK m : m = IF account = NULL THEN k
                   ELSE [k EXCEPT !.enc = account.pickle, !.batch = account.batch]
  OBVIOUS
<1>5. account \in Account \cup {NULL}
  BY LoginAssumption DEF IInv, Types
<1>6. m \in ClientType
  BY <1>2, <1>4, <1>5 DEF ClientType, Account
<1>7. /\ m.use = k.use /\ m.no_save = k.no_save /\ m.user = k.user /\ m.token = k.token
      /\ m.enabled = k.enabled /\ m.in_store = k.in_store
      /\ m.saving_client = k.saving_client /\ m.pending_client = k.pending_client
      /\ m.saving_secret = k.saving_secret /\ m.pending_secret = k.pending_secret
  BY <1>2, <1>4 DEF ClientType
<1>8. m.enc => account = AccountOf(m)
  <2>1. CASE account = NULL
    BY <1>3, <1>4, <2>1
  <2>2. CASE account # NULL
    <3>1. m.enc = account.pickle /\ m.batch = account.batch
      BY <1>2, <1>4, <2>2 DEF ClientType
    <3>2. account = [pickle |-> account.pickle, batch |-> account.batch]
      BY <1>5, <2>2 DEF Account
    <3> QED
      BY <3>1, <3>2 DEF AccountOf
  <2> QED
    BY <2>1, <2>2
<1>9. client' = [client EXCEPT ![c] = m]
  BY <1>4 DEF Loaded, IInv, Types, ClientType
<1>10. Becomes(c, Only(m), flight \ {Loading(c)})
  BY <1>9 DEF Becomes, Only, Loaded
<1>11. /\ Mine(flight \ {Loading(c)}, c) = Q
       /\ \A d \in Client \ {c} : Mine(flight \ {Loading(c)}, d) = Mine(flight, d)
  BY <1>1 DEF Mine
<1>12. /\ HasA("save", Q) <=> HasA("save", Mine(flight, c))
       /\ HasA("store", Q) <=> HasA("store", Mine(flight, c))
  BY <1>1 DEF HasA
<1>13. Shape(m, Q, c)
  BY <1>2, <1>3, <1>6, <1>7, <1>12 DEF Shape
<1>14. \A v : SecretIs(m, v) <=> SecretIs(k, v)
  BY <1>7 DEF SecretIs, SecretOf
<1>15. EarlyChanges \/ ~HasA("save", Q)
  BY <1>2, <1>3, <1>12 DEF Shape
<1>16. Alone(c) /\ ~m.no_save =>
         /\ m.enc /\ ~EarlyChanges => AccountNow(m, Q, db[login[c]])
         /\ IsListed(c) \/ HasA("store", Q) => SecretNow(m, Q, keyring[login[c]])
  <2>1. SUFFICES ASSUME Alone(c)
                 PROVE  /\ m.enc /\ ~EarlyChanges => AccountNow(m, Q, db[login[c]])
                        /\ IsListed(c) \/ HasA("store", Q) => SecretNow(m, Q, keyring[login[c]])
    OBVIOUS
  <2>2. m.enc /\ ~EarlyChanges => AccountNow(m, Q, db[login[c]])
    BY <1>8, <1>15 DEF AccountNow
  <2>3. IsListed(c) \/ HasA("store", Q) => SecretNow(k, Mine(flight, c), keyring[login[c]])
    BY <1>2, <1>3, <1>12, <2>1 DEF Known
  <2>4. SecretNow(k, Mine(flight, c), keyring[login[c]]) => SecretNow(m, Q, keyring[login[c]])
    BY <1>1, <1>7, <1>12, <1>14 DEF SecretNow
  <2> QED
    BY <2>2, <2>3, <2>4
<1>17. UNCHANGED <<matrix, keyring, db>>
  BY DEF Loaded
<1>18. SameLists /\ Writes(c)
  BY <1>17, ChangeKeepsLists DEF Writes, IInv, Types
<1>19. ~IsAdding(c)
  BY <1>1, <1>2 DEF AddingOf
<1>20. NotReset(k, m)
  BY <1>3, <1>7 DEF NotReset, NoClient
<1>21. \A r \in Q : r.op = "store" => r \in flight
  BY DEF Mine
<1>22. Clearing(c) \in Q => IsListed(c)
  BY <1>2 DEF AnswersOf, Mine
<1> HIDE DEF Q
<1> QED
  BY <1>3, <1>7, <1>10, <1>11, <1>13, <1>16, <1>17, <1>18, <1>19, <1>20, <1>21, <1>22, QuietStep

\* cm_matrix_save_client_async() keeps the invariant.
LEMMA SaveClientKeeps ==
  ASSUME IInv, NEW c \in Client, SaveClient(c)
  PROVE  IInv'
<1> DEFINE k == client[c]
           Q == Mine(flight, c)
<1>1. k.use = "made" /\ ~k.user /\ UNCHANGED <<keyring, db>> /\ ~IsAdding(c)
  BY UsableIsNotAdding DEF SaveClient, Usable
<1>2. /\ Shape(k, Q, c) /\ k \in ClientType /\ Known(c) /\ AnswersOf(c) /\ ListedOf(c)
  BY DEF IInv, Good, Shape
<1>3. PICK m : m = [k EXCEPT !.no_save = FALSE]
  OBVIOUS
<1>4. m \in ClientType /\ ~m.no_save
  BY <1>2, <1>3 DEF ClientType
<1>5. /\ m.use = k.use /\ m.user = k.user /\ m.token = k.token
      /\ m.enabled = k.enabled /\ m.in_store = k.in_store /\ m.enc = k.enc /\ m.batch = k.batch
      /\ m.saving_client = k.saving_client /\ m.pending_client = k.pending_client
      /\ m.saving_secret = k.saving_secret /\ m.pending_secret = k.pending_secret
  BY <1>2, <1>3 DEF ClientType
<1>6. k.no_save => Q = {} /\ ~k.enc /\ ~IsListed(c)
  BY <1>1, <1>2 DEF Shape, ListedOf
<1>7. Shape(m, Q, c)
  <2>1. CASE k.no_save
    <3>1. Q = {}
      BY <1>6, <2>1
    <3> QED
      BY <1>1, <1>2, <1>4, <1>5, <3>1 DEF Shape
  <2>2. CASE ~k.no_save
    BY <1>1, <1>2, <1>4, <1>5, <2>2 DEF Shape
  <2> QED
    BY <2>1, <2>2
<1>8. \A v : SecretIs(m, v) <=> SecretIs(k, v)
  BY <1>5 DEF SecretIs, SecretOf
<1>9. AccountOf(m) = AccountOf(k)
  BY <1>5 DEF AccountOf
<1>10. Alone(c) => /\ m.enc /\ ~EarlyChanges => AccountNow(m, Q, db[login[c]])
                   /\ IsListed(c) \/ HasA("store", Q) => SecretNow(m, Q, keyring[login[c]])
  <2>1. CASE k.no_save
    BY <1>5, <1>6, <2>1 DEF HasA
  <2>2. CASE ~k.no_save
    <3>1. Alone(c) => /\ k.enc /\ ~EarlyChanges => AccountNow(k, Q, db[login[c]])
                      /\ IsListed(c) \/ HasA("store", Q) => SecretNow(k, Q, keyring[login[c]])
      BY <1>2, <2>2 DEF Known
    <3>2. AccountNow(k, Q, db[login[c]]) => AccountNow(m, Q, db[login[c]])
      BY <1>5, <1>9 DEF AccountNow
    <3>3. SecretNow(k, Q, keyring[login[c]]) => SecretNow(m, Q, keyring[login[c]])
      BY <1>5, <1>8 DEF SecretNow
    <3> QED
      BY <1>5, <3>1, <3>2, <3>3
  <2> QED
    BY <2>1, <2>2
<1>11. NotReset(k, m)
  BY <1>1, <1>4, <1>5 DEF NotReset, NoClient
<1>12. Writes(c)
  BY <1>1 DEF Writes, IInv, Types
<1>13. \A r \in Q : r.op = "store" => r \in flight
  BY DEF Mine
<1>14. Clearing(c) \in Q => IsListed(c)
  BY <1>2 DEF AnswersOf, Mine
<1>15. CASE HasClient(login[c])
  <2>1. Becomes(c, Only(m), flight) /\ UNCHANGED matrix
    BY <1>3, <1>15 DEF SaveClient
  <2>2. SameLists
    BY <2>1, ChangeKeepsLists
  <2> QED
    BY <1>1, <1>4, <1>5, <1>7, <1>10, <1>11, <1>12, <1>13, <1>14, <2>1, <2>2, QuietStep
<1>16. CASE ~HasClient(login[c])
  <2>1. /\ matrix' = [matrix EXCEPT !.to_save = matrix.to_save \cup {login[c]}]
        /\ Becomes(c, IF k.saving_secret THEN Only(m) ELSE SaveSecrets(Only(m), c, "list"), flight)
    BY <1>3, <1>16 DEF SaveClient
  <2>2. matrix \in MatrixType /\ login[c] \in Login
    BY LoginAssumption DEF IInv, Types
  <2>3. matrix' \in MatrixType
    BY <2>1, <2>2 DEF MatrixType
  <2>4. /\ matrix'.to_save = matrix.to_save \cup {login[c]}
        /\ matrix'.clients = matrix.clients /\ matrix'.adding = matrix.adding
        /\ matrix'.opening = matrix.opening /\ matrix'.db_loaded = matrix.db_loaded
    BY <2>1, <2>2 DEF MatrixType
  <2>5. ~IsListed(c) /\ login[c] \notin DOMAIN Given /\ login[c] \notin matrix.to_save
    BY <1>1, <1>2, <1>16, ListedIs DEF AnswersOf
  <2>6. matrix.db_loaded
    BY <1>1, IsOpen
  <2>7. CASE k.saving_secret
    <3>1. Becomes(c, Only(m), flight) /\ Only(m).k = m /\ Only(m).sent = {}
      BY <2>1, <2>7 DEF Only
    <3>2. Calls(c, m, Q)
      <4>1. Calls(c, Only(m).k, Q \cup Only(m).sent)
        BY <3>1, BecomesCalls
      <4> QED
        BY <3>1, <4>1
    <3>3. client'[c] = m /\ Mine(flight', c) = Q
      BY <3>2 DEF Calls, IInv, Types
    <3>4. Alone(c)' => Alone(c)
      BY <3>2 DEF Alone, Calls, IInv, Types
    <3>5. Known(c)'
      BY <1>1, <1>10, <2>4, <3>3, <3>4 DEF Known, IsListed
    <3> QED
      BY <1>1, <1>5, <1>7, <1>11, <1>12, <1>13, <1>14, <1>16, <2>3, <2>4, <2>5, <2>6,
         <3>2, <3>5, Calm
  <2>8. CASE ~k.saving_secret
    <3>1. PICK S : S = {}
      OBVIOUS
    <3>2. PICK t : t = SaveSecrets([k |-> m, sent |-> S], c, "list")
      OBVIOUS
    <3>3. Becomes(c, t, flight)
      BY <2>1, <2>8, <3>1, <3>2 DEF Only
    <3>4. Q \cup S = Q /\ t.sent \ S = t.sent /\ Shape(m, Q \cup S, c)
      BY <1>7, <3>1
    <3>5. Outcome(m, Q, S, c, "list", t) /\ \A w : SecretNow(t.k, Q \cup t.sent, w)
      BY <1>1, <1>4, <1>5, <2>8, <3>2, <3>4, SaveSecretsOutcome DEF Then
    <3>6. /\ Alike(m, t.k) /\ Shape(t.k, Q \cup t.sent, c)
          /\ \A r \in t.sent : r.op = "save" \/ (r.op = "store" /\ r.then = "list")
          /\ \A w : AccountNow(m, Q, w) => AccountNow(t.k, Q \cup t.sent, w)
      BY <3>4, <3>5 DEF Outcome
    <3>7. \A r \in t.sent : r.client = c
      BY <3>6 DEF Shape, RequestsOf
    <3>8. Calls(c, t.k, Q \cup t.sent)
      BY <3>3, <3>7, BecomesCalls
    <3>9. client'[c] = t.k /\ Mine(flight', c) = Q \cup t.sent
      BY <3>8 DEF Calls, IInv, Types
    <3>10. Alone(c)' => Alone(c)
      BY <3>8 DEF Alone, Calls, IInv, Types
    <3>11. t.k.enc = m.enc /\ t.k.use = k.use /\ ~t.k.no_save
      BY <1>4, <1>5, <3>6 DEF Alike
    <3>12. Known(c)'
      BY <1>1, <1>10, <3>5, <3>6, <3>9, <3>10, <3>11 DEF Known
    <3>13. NotReset(k, t.k)
      BY <1>1, <3>11 DEF NotReset, NoClient
    <3>14. \A r \in Q \cup t.sent : r.op = "store" =>
             \/ r \in flight \/ r.then = "nothing"
             \/ /\ r.then = "list" /\ login[c] \in matrix'.to_save \ matrix.to_save
                /\ t.k.use = "made"
      BY <1>1, <1>13, <2>4, <2>5, <3>6, <3>11
    <3>15. Clearing(c) \in Q \cup t.sent => IsListed(c)
      BY <1>14, <3>6 DEF Clearing
    <3> QED
      BY <1>1, <1>12, <1>16, <2>3, <2>4, <2>5, <2>6, <3>6, <3>8, <3>11, <3>12, <3>13, <3>14,
         <3>15, Calm
  <2> QED
    BY <2>7, <2>8
<1> QED
  BY <1>15, <1>16

\* client_password_login_cb() keeps the invariant.
LEMMA LoginDoneKeeps ==
  ASSUME IInv, NEW c \in Client, LoginDone(c)
  PROVE  IInv'
<1> DEFINE k == client[c]
           Q == Mine(flight, c)
<1>1. /\ k.use = "made" /\ k.enabled /\ ~k.enc /\ Loading(c) \notin flight
      /\ UNCHANGED <<matrix, keyring, db>>
  BY DEF LoginDone
<1>2. /\ Shape(k, Q, c) /\ k \in ClientType /\ Known(c) /\ AnswersOf(c) /\ AddingOf(c)
  BY DEF IInv, Good, Shape
<1>3. PICK m : m = [k EXCEPT !.user = TRUE]
  OBVIOUS
<1>4. m \in ClientType /\ m.user
  BY <1>2, <1>3 DEF ClientType
<1>5. /\ m.use = k.use /\ m.no_save = k.no_save /\ m.token = k.token
      /\ m.enabled = k.enabled /\ m.in_store = k.in_store /\ m.enc = k.enc /\ m.batch = k.batch
      /\ m.saving_client = k.saving_client /\ m.pending_client = k.pending_client
      /\ m.saving_secret = k.saving_secret /\ m.pending_secret = k.pending_secret
  BY <1>2, <1>3 DEF ClientType
<1>6. Shape(m, Q, c)
  BY <1>1, <1>2, <1>4, <1>5 DEF Shape
<1>7. PICK s : s = IF k.user THEN Only(m) ELSE Marked(Only(m), c, TRUE, TRUE)
  OBVIOUS
<1>8. PICK n : n = [s.k EXCEPT !.token = TRUE, !.enc = TRUE]
  OBVIOUS
<1>9. PICK t : t = Marked([k |-> n, sent |-> s.sent], c, TRUE, TRUE)
  OBVIOUS
<1>10. Becomes(c, t, flight)
  BY <1>3, <1>7, <1>8, <1>9 DEF LoginDone
<1>11. Loading(c) \notin Q
  BY <1>1 DEF Mine
<1>12. /\ Alike(m, s.k) /\ Shape(s.k, Q \cup s.sent, c)
       /\ k.no_save => s.sent = {}
       /\ \A r \in s.sent : r.op = "save" \/ (r.op = "store" /\ r.then = "nothing")
  <2>1. CASE k.user \/ k.no_save
    <3>1. s.k = m /\ s.sent = {}
      BY <1>5, <1>7, <2>1 DEF Only, Marked
    <3>2. Q \cup s.sent = Q
      BY <3>1
    <3> QED
      BY <1>6, <3>1, <3>2 DEF Alike
  <2>2. CASE ~(k.user \/ k.no_save)
    <3>1. MarkedAs(m, Q, c, TRUE, TRUE, Marked(Only(m), c, TRUE, TRUE))
      BY <1>1, <1>5, <1>6, <1>11, <2>2, MarkedOnly
    <3> QED
      BY <1>7, <2>2, <3>1 DEF MarkedAs
  <2> QED
    BY <2>1, <2>2
<1>13. s.k \in ClientType
  BY <1>12 DEF Shape
<1>14. n \in ClientType /\ n.token /\ n.enc
  BY <1>8, <1>13 DEF ClientType
<1>15. /\ n.use = k.use /\ n.no_save = k.no_save /\ n.user
       /\ n.saving_client = s.k.saving_client /\ n.pending_client = s.k.pending_client
       /\ n.saving_secret = s.k.saving_secret
  BY <1>4, <1>5, <1>8, <1>12, <1>13 DEF ClientType, Alike
<1>16. Loading(c) \notin Q \cup s.sent
  BY <1>11, <1>12 DEF Loading
<1>17. Shape(n, Q \cup s.sent, c)
  BY <1>1, <1>2, <1>12, <1>14, <1>15, <1>16 DEF Shape
<1>18. ~IsAdding(c)
  BY <1>1, <1>2 DEF AddingOf
<1>19. Clearing(c) \in Q => IsListed(c)
  BY <1>2 DEF AnswersOf, Mine
<1>20. SameLists /\ Writes(c)
  BY <1>1, ChangeKeepsLists DEF Writes, IInv, Types
<1>21. matrix.db_loaded
  BY <1>1, IsOpen
<1>22. \A r \in Q : r.op = "store" => r \in flight
  BY DEF Mine
<1>23. CASE k.no_save
  <2>1. t.k = n /\ t.sent = {} /\ s.sent = {}
    BY <1>9, <1>12, <1>15, <1>23 DEF Marked
  <2>2. Becomes(c, Only(n), flight) /\ Shape(n, Q, c)
    <3>1. Q \cup s.sent = Q
      BY <2>1
    <3> QED
      BY <1>10, <1>17, <2>1, <3>1 DEF Becomes, Only
  <2>3. NotReset(k, n)
    BY <1>23 DEF NotReset
  <2>4. ~(~n.no_save)
    BY <1>15, <1>23
  <2> QED
    BY <1>1, <1>15, <1>18, <1>19, <1>20, <1>22, <2>2, <2>3, <2>4, QuietStep
<1>24. CASE ~k.no_save
  <2>1. MarkedFrom(n, Q, s.sent, c, TRUE, TRUE, t)
    BY <1>1, <1>9, <1>15, <1>16, <1>17, <1>24, MarkedOutcome
  <2>2. /\ Alike(n, t.k) /\ Shape(t.k, Q \cup t.sent, c)
        /\ \A w : AccountNow(t.k, Q \cup t.sent, w)
        /\ \A w : SecretNow(t.k, Q \cup t.sent, w)
    BY <2>1 DEF MarkedFrom
  <2>3. \A r \in t.sent : r.op = "save" \/ (r.op = "store" /\ r.then = "nothing")
    BY <1>12, <2>1 DEF MarkedFrom
  <2>4. \A r \in t.sent : r.client = c
    BY <2>2 DEF Shape, RequestsOf
  <2>5. Calls(c, t.k, Q \cup t.sent)
    BY <1>10, <2>4, BecomesCalls
  <2>6. client'[c] = t.k /\ Mine(flight', c) = Q \cup t.sent
    BY <2>5 DEF Calls, IInv, Types
  <2>7. Known(c)'
    BY <2>2, <2>6 DEF Known
  <2>8. t.k.use = k.use /\ NotReset(k, t.k)
    BY <1>1, <1>15, <1>24, <2>2 DEF Alike, NotReset, NoClient
  <2>9. \A r \in Q \cup t.sent : r.op = "store" => r \in flight \/ r.then = "nothing"
    BY <1>22, <2>3
  <2>10. Clearing(c) \in Q \cup t.sent => IsListed(c)
    BY <1>19, <2>3 DEF Clearing
  <2> QED
    BY <1>1, <1>18, <1>20, <1>21, <2>2, <2>5, <2>7, <2>8, <2>9, <2>10, Calm DEF SameLists
<1> QED
  BY <1>23, <1>24

\* db_save_cb() keeps the invariant.
LEMMA SavedKeeps ==
  ASSUME IInv, NEW c \in Client, NEW ok \in BOOLEAN, Saved(c, ok)
  PROVE  IInv'
<1> DEFINE k == client[c]
           Q == Mine(flight, c)
<1>1. PICK r \in flight : /\ r.op = "save" /\ r.client = c /\ Loading(c) \notin flight
                          /\ db' = IF ok THEN [db EXCEPT ![login[c]] = r.value] ELSE db
                          /\ LET m == [k EXCEPT !.saving_client = FALSE,
                                                !.pending_client = @ \/ ~ok]
                             IN  Becomes(c, Save(Only(m), c), flight \ {r})
                          /\ UNCHANGED <<matrix, keyring>>
  BY DEF Saved
<1>2. /\ Shape(k, Q, c) /\ k \in ClientType /\ Known(c) /\ AnswersOf(c) /\ AddingOf(c)
      /\ r \in Q
  BY <1>1 DEF IInv, Good, Shape, Mine
<1>3. /\ k.saving_client /\ ~k.no_save /\ k.use # "none" /\ r \in RequestsOf(c)
  BY <1>1, <1>2 DEF Shape, HasA
<1>4. PICK b \in BOOLEAN : b = (k.pending_client \/ ~ok)
  OBVIOUS
<1>5. PICK m : m = [k EXCEPT !.saving_client = FALSE, !.pending_client = b]
  OBVIOUS
<1>6. m \in ClientType /\ ~m.saving_client /\ m.pending_client = b
  BY <1>2, <1>5 DEF ClientType
<1>7. /\ m.use = k.use /\ m.no_save = k.no_save /\ m.user = k.user /\ m.token = k.token
      /\ m.enabled = k.enabled /\ m.in_store = k.in_store /\ m.enc = k.enc /\ m.batch = k.batch
      /\ m.saving_secret = k.saving_secret /\ m.pending_secret = k.pending_secret
  BY <1>2, <1>5 DEF ClientType
<1> DEFINE P == Q \ {r}
<1>8. PICK S : S = {}
  OBVIOUS
<1>9. PICK t : t = Save([k |-> m, sent |-> S], c)
  OBVIOUS
<1>10. Becomes(c, t, flight \ {r})
  BY <1>1, <1>4, <1>5, <1>8, <1>9 DEF Only
<1>11. /\ Mine(flight \ {r}, c) = P
       /\ \A d \in Client \ {c} : Mine(flight \ {r}, d) = Mine(flight, d)
  BY <1>1 DEF Mine
<1>12. ~HasA("save", P) /\ (HasA("store", P) <=> HasA("store", Q))
  BY <1>1, <1>2 DEF HasA, Shape
<1>13. Loading(c) \notin P
  BY <1>1 DEF Mine
<1>14. Shape(m, P, c)
  BY <1>2, <1>3, <1>6, <1>7, <1>12, <1>13 DEF Shape
<1>15. P \cup S = P /\ t.sent \ S = t.sent
  BY <1>8
<1>16. Shape(m, P \cup S, c)
  BY <1>14, <1>15
<1>17. Outcome(m, P, S, c, "nothing", t) /\ SecretKept(m, P \cup S, t.k, P \cup t.sent)
  BY <1>3, <1>7, <1>9, <1>16, SaveOutcome
<1>18. /\ Alike(m, t.k) /\ Shape(t.k, P \cup t.sent, c)
       /\ \A q \in t.sent : q.op = "save" \/ (q.op = "store" /\ q.then = "nothing")
       /\ \A w : AccountNow(m, P, w) => AccountNow(t.k, P \cup t.sent, w)
       /\ \A w : SecretNow(m, P, w) => SecretNow(t.k, P \cup t.sent, w)
       /\ t.k.saving_secret => m.saving_secret \/ \A w : SecretNow(t.k, P \cup t.sent, w)
  BY <1>15, <1>17 DEF Outcome, SecretKept
<1>19. \A q \in t.sent : q.client = c
  BY <1>18 DEF Shape, RequestsOf
<1>20. Calls(c, t.k, P \cup t.sent)
  <2>1. Calls(c, t.k, Mine(flight \ {r}, c) \cup t.sent)
    BY <1>10, <1>11, <1>19, BecomesCalls
  <2> QED
    BY <1>11, <2>1
<1>21. client'[c] = t.k /\ Mine(flight', c) = P \cup t.sent
  BY <1>20 DEF Calls, IInv, Types
<1>22. r.value \in Account
  BY <1>1, <1>3 DEF RequestsOf
<1>23. login[c] \in Login
  BY LoginAssumption
<1>24. /\ db' \in [Login -> Account \cup {NULL}]
       /\ \A l \in Login \ {login[c]} : db'[l] = db[l]
       /\ ok => db'[login[c]] = r.value
  BY <1>1, <1>22, <1>23 DEF IInv, Types
<1>25. Writes(c)
  BY <1>1, <1>3, <1>24 DEF Writes, IInv, Types
<1>26. Alone(c)' => Alone(c)
  BY <1>20 DEF Alone, Calls, IInv, Types
<1>27. Known(c)'
  <2>1. SUFFICES ASSUME Alone(c)
                 PROVE  /\ t.k.enc /\ ~EarlyChanges => AccountNow(t.k, P \cup t.sent, db'[login[c]])
                        /\ IsListed(c) \/ HasA("store", P \cup t.sent) =>
                             SecretNow(t.k, P \cup t.sent, keyring[login[c]])
    BY <1>1, <1>21, <1>26 DEF Known, IsListed
  <2>2. /\ k.enc /\ ~EarlyChanges => AccountNow(k, Q, db[login[c]])
        /\ IsListed(c) \/ HasA("store", Q) => SecretNow(k, Q, keyring[login[c]])
    BY <1>2, <1>3, <2>1 DEF Known
  <2>3. k.enc /\ ~EarlyChanges => AccountNow(m, P, db'[login[c]])
    <3>1. CASE m.pending_client
      BY <3>1 DEF AccountNow
    <3>2. CASE ~m.pending_client
      <4>1. ok /\ ~k.pending_client
        BY <1>4, <1>6, <3>2
      <4>2. k.enc /\ ~EarlyChanges => r.value = AccountOf(k)
        BY <1>1, <1>2, <2>2, <4>1 DEF AccountNow, Shape, HasA
      <4>3. AccountOf(m) = AccountOf(k)
        BY <1>7 DEF AccountOf
      <4> QED
        BY <1>12, <1>24, <4>1, <4>2, <4>3 DEF AccountNow
    <3> QED
      BY <3>1, <3>2
  <2>4. t.k.enc /\ ~EarlyChanges => AccountNow(t.k, P \cup t.sent, db'[login[c]])
    BY <1>7, <1>18, <2>3 DEF Alike
  <2>5. \A w : SecretNow(k, Q, w) => SecretNow(m, P, w)
    <3>1. \A v : SecretIs(m, v) <=> SecretIs(k, v)
      BY <1>7 DEF SecretIs, SecretOf
    <3> QED
      BY <1>1, <1>7, <1>12, <3>1 DEF SecretNow
  <2>6. ASSUME IsListed(c) \/ HasA("store", P \cup t.sent)
        PROVE  SecretNow(t.k, P \cup t.sent, keyring[login[c]])
    <3>1. CASE IsListed(c) \/ HasA("store", Q)
      BY <1>18, <2>2, <2>5, <3>1
    <3>2. CASE ~(IsListed(c) \/ HasA("store", Q))
      <4>1. t.k.saving_secret /\ ~m.saving_secret
        BY <1>2, <1>7, <1>18, <2>6, <3>2 DEF Shape
      <4> QED
        BY <1>18, <4>1
    <3> QED
      BY <3>1, <3>2
  <2> QED
    BY <2>4, <2>6
<1>28. ~IsAdding(c)
  BY <1>2, <1>3 DEF AddingOf
<1>29. t.k.use = k.use /\ NotReset(k, t.k)
  BY <1>3, <1>7, <1>18 DEF Alike, NotReset, NoClient
<1>30. \A q \in P \cup t.sent : q.op = "store" => q \in flight \/ q.then = "nothing"
  BY <1>18 DEF Mine
<1>31. Clearing(c) \in P \cup t.sent => IsListed(c)
  BY <1>2, <1>18 DEF AnswersOf, Mine, Clearing
<1>32. matrix.db_loaded /\ SameLists
  BY <1>1, <1>3, IsOpen, ChangeKeepsLists
<1> QED
  BY <1>1, <1>18, <1>20, <1>25, <1>27, <1>28, <1>29, <1>30, <1>31, <1>32, Calm DEF SameLists

\* What is left of a client, and of its requests Q, when its secrets were answered
Freed(k, Q, r, c, ok, s) ==
  LET T == (Q \ {r}) \cup s.sent
  IN  /\ Alike(k, s.k) /\ Shape(s.k, T, c) /\ ~HasA("store", T)
      /\ \A q \in s.sent : q.op = "save"
      /\ \A w : AccountNow(k, Q, w) => AccountNow(s.k, T, w)
      /\ s.k.pending_secret = (k.pending_secret \/ ~ok)
      /\ ok => /\ s.sent = {} /\ s.k.pending_client = k.pending_client
               /\ s.k.saving_client = k.saving_client
      /\ \A w : SecretNow(k, Q, w) => SecretNow(s.k, T, IF ok THEN r.value ELSE w)

\* save_secrets_cb() does this.
LEMMA SecretSavedFrees ==
  ASSUME NEW c, NEW k, NEW Q, Shape(k, Q, c), NEW r \in Q, r.op = "store", NEW ok \in BOOLEAN
  PROVE  Freed(k, Q, r, c, ok, SecretSaved(k, c, ok))
<1>1. k \in ClientType /\ k.saving_secret /\ ~k.no_save /\ k.use # "none"
  BY DEF Shape, HasA
<1>2. PICK m : m = IF ok THEN Only(k) ELSE Marked(Only(k), c, FALSE, TRUE)
  OBVIOUS
<1>3. PICK n : n = [m.k EXCEPT !.saving_secret = FALSE]
  OBVIOUS
<1>4. PICK s : s = [k |-> n, sent |-> m.sent]
  OBVIOUS
<1>5. s = SecretSaved(k, c, ok) /\ s.k = n /\ s.sent = m.sent
  BY <1>2, <1>3, <1>4 DEF SecretSaved
<1>6. /\ Alike(k, m.k) /\ Shape(m.k, Q \cup m.sent, c)
      /\ \A q \in m.sent : q.op = "save"
      /\ \A w : AccountNow(k, Q, w) => AccountNow(m.k, Q \cup m.sent, w)
      /\ m.k.pending_secret = (k.pending_secret \/ ~ok)
      /\ ok => /\ m.sent = {} /\ m.k.pending_client = k.pending_client
               /\ m.k.saving_client = k.saving_client
  <2>1. CASE ok
    <3>1. m.k = k /\ m.sent = {}
      BY <1>2, <2>1 DEF Only
    <3>2. Q \cup m.sent = Q
      BY <3>1
    <3>3. k.pending_secret \in BOOLEAN
      BY <1>1 DEF ClientType
    <3> QED
      BY <2>1, <3>1, <3>2, <3>3 DEF Alike
  <2>2. CASE ~ok
    <3>1. MarkedAs(k, Q, c, FALSE, TRUE, m)
      BY <1>1, <1>2, <2>2, MarkedOnly
    <3> QED
      BY <1>1, <2>2, <3>1 DEF MarkedAs
  <2> QED
    BY <2>1, <2>2
<1>7. m.k \in ClientType
  BY <1>6 DEF Shape
<1>8. n \in ClientType /\ ~n.saving_secret
  BY <1>3, <1>7 DEF ClientType
<1>9. /\ Alike(m.k, n) /\ n.saving_client = m.k.saving_client
      /\ n.pending_client = m.k.pending_client /\ n.pending_secret = m.k.pending_secret
  BY <1>3, <1>7 DEF ClientType, Alike
<1> DEFINE T == (Q \ {r}) \cup m.sent
<1>10. T = (Q \cup m.sent) \ {r}
  BY <1>6
<1>11. ~HasA("store", T)
  BY <1>6, <1>10 DEF Shape, HasA
<1>12. HasA("save", T) <=> HasA("save", Q \cup m.sent)
  BY <1>10 DEF HasA
<1>13. n.use # "none" /\ ~n.no_save
  BY <1>1, <1>6, <1>9 DEF Alike
<1>14. Loading(c) \in T =>
         n.token /\ ~n.enc /\ (EarlyChanges \/ (~n.pending_client /\ ~n.saving_client))
  BY <1>6, <1>9, <1>10 DEF Shape, Alike
<1>15. Shape(n, T, c)
  BY <1>6, <1>8, <1>9, <1>10, <1>11, <1>12, <1>13, <1>14 DEF Shape
<1>16. AccountOf(n) = AccountOf(m.k)
  BY <1>9 DEF Alike, AccountOf
<1>17. \A w : AccountNow(k, Q, w) => AccountNow(n, T, w)
  BY <1>6, <1>9, <1>10, <1>12, <1>16 DEF AccountNow
<1>18. Alike(k, n)
  BY <1>6, <1>9 DEF Alike
<1>19. \A w : SecretNow(k, Q, w) => SecretNow(n, T, IF ok THEN r.value ELSE w)
  <2>1. \A v : SecretIs(n, v) <=> SecretIs(k, v)
    BY <1>18 DEF Alike, SecretIs, SecretOf
  <2>2. CASE n.pending_secret
    BY <2>2 DEF SecretNow
  <2>3. CASE ~n.pending_secret
    <3>1. ok /\ ~k.pending_secret
      BY <1>6, <1>9, <2>3
    <3>2. \A w : SecretNow(k, Q, w) => SecretIs(k, r.value)
      BY <3>1 DEF SecretNow, Shape, HasA
    <3> QED
      BY <1>11, <2>1, <3>1, <3>2 DEF SecretNow
  <2> QED
    BY <2>2, <2>3
<1> QED
  BY <1>5, <1>6, <1>9, <1>11, <1>15, <1>17, <1>18, <1>19 DEF Freed

\* What an answer of the keyring is
LEMMA AnswerFacts ==
  ASSUME IInv, NEW c \in Client, NEW r \in flight, r.op = "store", r.client = c,
         NEW ok \in BOOLEAN, Written(r, ok), UNCHANGED db
  PROVE  /\ Shape(client[c], Mine(flight, c), c) /\ r \in Mine(flight, c) /\ r.value \in Secret
         /\ client[c] \in ClientType /\ ~client[c].no_save /\ client[c].use # "none"
         /\ matrix.db_loaded
         /\ Freed(client[c], Mine(flight, c), r, c, ok, SecretSaved(client[c], c, ok))
         /\ Writes(c) /\ keyring'[login[c]] = IF ok THEN r.value ELSE keyring[login[c]]
         /\ Mine(flight \ {r}, c) = Mine(flight, c) \ {r}
         /\ \A d \in Client \ {c} : Mine(flight \ {r}, d) = Mine(flight, d)
<1>1. Shape(client[c], Mine(flight, c), c) /\ r \in Mine(flight, c)
  BY DEF IInv, Good, Mine
<1>2. /\ client[c] \in ClientType /\ ~client[c].no_save /\ client[c].use # "none"
      /\ r \in RequestsOf(c)
  BY <1>1 DEF Shape
<1>3. r.value \in Secret
  BY <1>2 DEF RequestsOf
<1>4. Freed(client[c], Mine(flight, c), r, c, ok, SecretSaved(client[c], c, ok))
  BY <1>1, SecretSavedFrees
<1>5. login[c] \in Login
  BY LoginAssumption
<1>6. /\ keyring' \in [Login -> Secret \cup {NULL}]
      /\ \A l \in Login \ {login[c]} : keyring'[l] = keyring[l]
      /\ keyring'[login[c]] = IF ok THEN r.value ELSE keyring[login[c]]
  BY <1>3, <1>5 DEF Written, IInv, Types
<1>7. Writes(c)
  BY <1>2, <1>6 DEF Writes, IInv, Types
<1>8. matrix.db_loaded
  BY <1>2, IsOpen
<1>9. /\ Mine(flight \ {r}, c) = Mine(flight, c) \ {r}
      /\ \A d \in Client \ {c} : Mine(flight \ {r}, d) = Mine(flight, d)
  BY DEF Mine
<1> QED
  BY <1>1, <1>2, <1>3, <1>4, <1>6, <1>7, <1>8, <1>9

\* An answer that leaves the list as it is
LEMMA AnsweredStep ==
  ASSUME IInv, NEW c \in Client, NEW r \in flight, r.op = "store", r.client = c,
         r.then # "add", NEW ok \in BOOLEAN, Written(r, ok), UNCHANGED <<matrix, db>>,
         Becomes(c, SecretSaved(client[c], c, ok), flight \ {r})
  PROVE  IInv'
<1> DEFINE k == client[c]
           Q == Mine(flight, c)
<1>1. PICK s : s = SecretSaved(k, c, ok)
  OBVIOUS
<1>2. /\ Shape(k, Q, c) /\ r \in Q /\ r.value \in Secret
      /\ k \in ClientType /\ ~k.no_save /\ k.use # "none" /\ matrix.db_loaded
      /\ Freed(k, Q, r, c, ok, s)
      /\ Writes(c) /\ keyring'[login[c]] = IF ok THEN r.value ELSE keyring[login[c]]
      /\ Mine(flight \ {r}, c) = Q \ {r}
      /\ \A d \in Client \ {c} : Mine(flight \ {r}, d) = Mine(flight, d)
  BY <1>1, AnswerFacts
<1> DEFINE T == (Q \ {r}) \cup s.sent
<1>3. /\ Alike(k, s.k) /\ Shape(s.k, T, c) /\ ~HasA("store", T)
      /\ \A q \in s.sent : q.op = "save"
      /\ \A w : AccountNow(k, Q, w) => AccountNow(s.k, T, w)
      /\ \A w : SecretNow(k, Q, w) => SecretNow(s.k, T, IF ok THEN r.value ELSE w)
  BY <1>2 DEF Freed
<1>4. \A q \in s.sent : q.client = c
  BY <1>3 DEF Shape, RequestsOf
<1>5. Calls(c, s.k, T)
  <2>1. Calls(c, s.k, Mine(flight \ {r}, c) \cup s.sent)
    BY <1>1, <1>2, <1>4, BecomesCalls
  <2> QED
    BY <1>2, <2>1
<1>6. client'[c] = s.k /\ Mine(flight', c) = T
  BY <1>5 DEF Calls, IInv, Types
<1>7. Alone(c)' => Alone(c)
  BY <1>5 DEF Alone, Calls, IInv, Types
<1>8. Known(c) /\ AddingOf(c) /\ AnswersOf(c)
  BY DEF IInv, Good
<1>9. Known(c)'
  <2>1. SUFFICES ASSUME Alone(c)
                 PROVE  /\ s.k.enc /\ ~EarlyChanges => AccountNow(s.k, T, db[login[c]])
                        /\ IsListed(c) => SecretNow(s.k, T, keyring'[login[c]])
    BY <1>3, <1>6, <1>7 DEF Known, IsListed
  <2>2. /\ k.enc /\ ~EarlyChanges => AccountNow(k, Q, db[login[c]])
        /\ IsListed(c) => SecretNow(k, Q, keyring[login[c]])
    BY <1>2, <1>8, <2>1 DEF Known
  <2>3. s.k.enc = k.enc
    BY <1>3 DEF Alike
  <2> QED
    BY <1>2, <1>3, <2>2, <2>3
<1>10. ~IsAdding(c)
  <2>1. ~(matrix.adding # <<>> /\ c = matrix.adding[1])
    BY <1>2, <1>8 DEF AnswersOf
  <2>2. k.saving_secret
    BY <1>2 DEF Shape, HasA
  <2>3. IsAdding(c) => matrix.adding # <<>>
    BY DEF IsAdding, IInv, Types, MatrixType
  <2> QED
    BY <1>8, <2>1, <2>2, <2>3 DEF AddingOf
<1>11. s.k.use = k.use /\ NotReset(k, s.k)
  BY <1>2, <1>3 DEF Alike, NotReset, NoClient
<1>12. \A q \in T : q.op = "store" => q \in flight \/ q.then = "nothing"
  BY <1>3 DEF HasA
<1>13. Clearing(c) \in T => IsListed(c)
  BY <1>3, <1>8 DEF AnswersOf, Mine, Clearing
<1>14. keyring'[login[c]] # NULL \/ keyring'[login[c]] = keyring[login[c]]
  BY <1>2, SecretsAssumption
<1>15. SameLists
  BY ChangeKeepsLists
<1> HIDE DEF T
<1> QED
  BY <1>2, <1>3, <1>5, <1>9, <1>10, <1>11, <1>12, <1>13, <1>14, <1>15, Calm DEF SameLists

\* An answer that no one waits for keeps the invariant.
LEMMA KeptKeeps ==
  ASSUME IInv, NEW c \in Client, NEW ok \in BOOLEAN, Kept(c, ok)
  PROVE  IInv'
<1>1. PICK r \in flight : /\ r.op = "store" /\ r.client = c /\ r.then = "nothing"
                          /\ Written(r, ok)
                          /\ Becomes(c, SecretSaved(client[c], c, ok), flight \ {r})
                          /\ UNCHANGED <<matrix, db>>
  BY DEF Kept
<1> QED
  BY <1>1, AnsweredStep

-----------------------------------------------------------------------------
In(q, x)  == \E i \in DOMAIN q : q[i] = x
Once(q)   == \A i, j \in DOMAIN q : login[q[i]] = login[q[j]] => i = j

\* A client of another login put at the end.
LEMMA AppendOnce ==
  ASSUME NEW q \in Seq(Client), NEW x \in Client, Once(q),
         \A y : In(q, y) => login[y] # login[x]
  PROVE  /\ Append(q, x) \in Seq(Client) /\ Once(Append(q, x))
         /\ \A y : In(Append(q, x), y) <=> In(q, y) \/ y = x
<1> DEFINE r == Append(q, x)
<1>1. /\ r \in Seq(Client) /\ DOMAIN q = 1..Len(q) /\ DOMAIN r = 1..(Len(q) + 1)
      /\ Len(q) \in Nat /\ r[Len(q) + 1] = x /\ \A i \in 1..Len(q) : r[i] = q[i]
  OBVIOUS
<1> HIDE DEF r
<1>2. \A y : In(r, y) <=> In(q, y) \/ y = x
  BY <1>1 DEF In
<1>3. Once(r)
  <2>1. SUFFICES ASSUME NEW i \in DOMAIN r, NEW j \in DOMAIN r, login[r[i]] = login[r[j]]
                 PROVE  i = j
    BY DEF Once
  <2>2. CASE i \in 1..Len(q) /\ j \in 1..Len(q)
    BY <1>1, <2>1, <2>2 DEF Once
  <2>3. CASE i = Len(q) + 1 /\ j # Len(q) + 1
    BY <1>1, <2>1, <2>3 DEF In
  <2>4. CASE i # Len(q) + 1 /\ j = Len(q) + 1
    BY <1>1, <2>1, <2>4 DEF In
  <2> QED
    BY <1>1, <2>2, <2>3, <2>4
<1> QED
  BY <1>1, <1>2, <1>3 DEF r

\* A client taken out.
LEMMA RemoveOnce ==
  ASSUME NEW q \in Seq(Client), NEW n \in DOMAIN q, Once(q)
  PROVE  /\ RemoveAt(q, n) \in Seq(Client) /\ Once(RemoveAt(q, n))
         /\ \A y : In(RemoveAt(q, n), y) <=> In(q, y) /\ y # q[n]
<1> DEFINE r == RemoveAt(q, n)
<1>1. DOMAIN q = 1..Len(q) /\ Len(q) \in Nat /\ n \in Nat /\ 1 <= n /\ n <= Len(q)
  OBVIOUS
<1> DEFINE a == SubSeq(q, 1, n - 1)
           b == SubSeq(q, n + 1, Len(q))
<1>2. /\ a \in Seq(Client) /\ Len(a) = n - 1 /\ \A i \in 1..(n - 1) : a[i] = q[i]
  <2>1. \A i \in 1..(n - 1) : q[i] \in Client
    BY <1>1
  <2>2. /\ a \in Seq(Client) /\ Len(a) = IF 1 <= n - 1 THEN (n - 1) - 1 + 1 ELSE 0
        /\ \A i \in 1..((n - 1) - 1 + 1) : a[i] = q[1 + i - 1]
    BY <1>1, <2>1, SubSeqProperties
  <2> QED
    BY <1>1, <2>2
<1>3. /\ b \in Seq(Client) /\ Len(b) = Len(q) - n
      /\ \A i \in 1..(Len(q) - n) : b[i] = q[n + i]
  <2>1. \A i \in (n + 1)..Len(q) : q[i] \in Client
    BY <1>1
  <2>2. /\ b \in Seq(Client)
        /\ Len(b) = IF n + 1 <= Len(q) THEN Len(q) - (n + 1) + 1 ELSE 0
        /\ \A i \in 1..(Len(q) - (n + 1) + 1) : b[i] = q[(n + 1) + i - 1]
    BY <1>1, <2>1, SubSeqProperties
  <2>3. Len(q) - (n + 1) + 1 = Len(q) - n /\ Len(b) = Len(q) - n
    BY <1>1, <2>2
  <2>4. ASSUME NEW i \in 1..(Len(q) - n) PROVE b[i] = q[n + i]
    <3>1. b[i] = q[(n + 1) + i - 1]
      BY <2>2, <2>3, <2>4
    <3>2. (n + 1) + i - 1 = n + i
      BY <1>1, <2>4
    <3> QED
      BY <3>1, <3>2
  <2> QED
    BY <2>2, <2>3, <2>4
<1>4. r = a \o b
  BY DEF RemoveAt
<1>5. Len(a) = n - 1 /\ \A i \in 1..(n - 1) : a[i] = q[i]
  BY <1>2
<1>6. Len(b) = Len(q) - n /\ \A i \in 1..(Len(q) - n) : b[i] = q[n + i]
  BY <1>3
<1> HIDE DEF a, b, r
<1>7. /\ r \in Seq(Client) /\ Len(r) = Len(q) - 1 /\ DOMAIN r = 1..(Len(q) - 1)
      /\ \A i \in 1..(Len(q) - 1) : r[i] = IF i < n THEN q[i] ELSE q[i + 1]
  <2>1. r \in Seq(Client) /\ Len(r) = Len(q) - 1 /\ DOMAIN r = 1..(Len(q) - 1)
    <3>1. r \in Seq(Client) /\ Len(r) = Len(a) + Len(b)
      BY <1>2, <1>3, <1>4, ConcatProperties
    <3> QED
      BY <1>1, <1>5, <1>6, <3>1
  <2>2. ASSUME NEW i \in 1..(Len(q) - 1) PROVE r[i] = IF i < n THEN q[i] ELSE q[i + 1]
    <3>1. r[i] = IF i <= Len(a) THEN a[i] ELSE b[i - Len(a)]
      BY <1>1, <1>2, <1>3, <1>4, ConcatProperties
    <3>2. CASE i < n
      BY <1>1, <1>5, <3>1, <3>2
    <3>3. CASE ~(i < n)
      <4>1. i - (n - 1) \in 1..(Len(q) - n) /\ n + (i - (n - 1)) = i + 1
        BY <1>1, <3>3
      <4> QED
        BY <1>1, <1>5, <1>6, <3>1, <3>3, <4>1
    <3> QED
      BY <3>2, <3>3
  <2> QED
    BY <2>1, <2>2
<1>8. Once(r)
  <2>1. SUFFICES ASSUME NEW i \in DOMAIN r, NEW j \in DOMAIN r, login[r[i]] = login[r[j]]
                 PROVE  i = j
    BY DEF Once
  <2> DEFINE At(k) == IF k < n THEN k ELSE k + 1
  <2>2. At(i) \in DOMAIN q /\ At(j) \in DOMAIN q /\ r[i] = q[At(i)] /\ r[j] = q[At(j)]
    BY <1>1, <1>7, <2>1
  <2>3. At(i) = At(j)
    BY <2>1, <2>2 DEF Once
  <2>4. i \in Nat /\ j \in Nat
    BY <1>1, <1>7, <2>1
  <2> QED
    BY <1>1, <2>3, <2>4
<1>9. \A y : In(r, y) <=> In(q, y) /\ y # q[n]
  <2>1. ASSUME NEW i \in DOMAIN r PROVE In(q, r[i]) /\ r[i] # q[n]
    <3> DEFINE k == IF i < n THEN i ELSE i + 1
    <3>1. k \in DOMAIN q /\ k # n /\ r[i] = q[k]
      BY <1>1, <1>7, <2>1
    <3>2. q[k] # q[n]
      BY <3>1 DEF Once
    <3> QED
      BY <3>1, <3>2 DEF In
  <2>2. ASSUME NEW i \in DOMAIN q, i # n PROVE In(r, q[i])
    <3>1. CASE i < n
      BY <1>1, <1>7, <3>1 DEF In
    <3>2. CASE i > n
      <4>1. i - 1 \in DOMAIN r /\ ~(i - 1 < n) /\ (i - 1) + 1 = i
        BY <1>1, <1>7, <3>2
      <4>2. r[i - 1] = q[i]
        BY <1>7, <4>1
      <4> QED
        BY <4>1, <4>2 DEF In
    <3> QED
      BY <1>1, <2>2, <3>1, <3>2
  <2> QED
    BY <2>1, <2>2 DEF In
<1> QED
  BY <1>7, <1>8, <1>9 DEF r

\* The first client taken out.
LEMMA TailOnce ==
  ASSUME NEW q \in Seq(Client), q # <<>>, Once(q)
  PROVE  /\ Tail(q) \in Seq(Client) /\ Once(Tail(q)) /\ Head(q) = q[1] /\ In(q, q[1])
         /\ \A y : In(Tail(q), y) <=> In(q, y) /\ y # q[1]
         /\ Tail(q) # <<>> => Head(Tail(q)) = Tail(q)[1] /\ In(Tail(q), Tail(q)[1])
<1> DEFINE r == Tail(q)
<1>1. DOMAIN q = 1..Len(q) /\ Len(q) \in Nat /\ Len(q) >= 1
  OBVIOUS
<1>2. /\ r \in Seq(Client) /\ DOMAIN r = 1..(Len(q) - 1) /\ Head(q) = q[1]
      /\ \A i \in 1..(Len(q) - 1) : r[i] = q[i + 1]
  OBVIOUS
<1>3. r # <<>> => Head(r) = r[1] /\ 1 \in DOMAIN r
  BY <1>1, <1>2
<1> HIDE DEF r
<1>4. Once(r)
  <2>1. SUFFICES ASSUME NEW i \in DOMAIN r, NEW j \in DOMAIN r, login[r[i]] = login[r[j]]
                 PROVE  i = j
    BY DEF Once
  <2>2. i + 1 \in DOMAIN q /\ j + 1 \in DOMAIN q /\ r[i] = q[i + 1] /\ r[j] = q[j + 1]
    BY <1>1, <1>2, <2>1
  <2>3. i + 1 = j + 1
    BY <2>1, <2>2 DEF Once
  <2> QED
    BY <1>1, <1>2, <2>1, <2>3
<1>5. \A y : In(r, y) <=> In(q, y) /\ y # q[1]
  <2>1. ASSUME NEW i \in DOMAIN r PROVE In(q, r[i]) /\ r[i] # q[1]
    <3>1. i + 1 \in DOMAIN q /\ i + 1 # 1 /\ r[i] = q[i + 1] /\ 1 \in DOMAIN q
      BY <1>1, <1>2, <2>1
    <3>2. q[i + 1] # q[1]
      BY <3>1 DEF Once
    <3> QED
      BY <3>1, <3>2 DEF In
  <2>2. ASSUME NEW i \in DOMAIN q, i # 1 PROVE In(r, q[i])
    <3>1. i - 1 \in DOMAIN r /\ r[i - 1] = q[i]
      BY <1>1, <1>2, <2>2
    <3> QED
      BY <3>1 DEF In
  <2> QED
    BY <2>1, <2>2 DEF In
<1>6. In(q, q[1]) /\ (r # <<>> => In(r, r[1]))
  BY <1>1, <1>3 DEF In
<1> QED
  BY <1>2, <1>3, <1>4, <1>5, <1>6 DEF r

\* The lists in these terms.
LEMMA InLists ==
  ASSUME NEW c
  PROVE  /\ IsListed(c) <=> In(matrix.clients, c)
         /\ IsListed(c)' <=> In(matrix'.clients, c)
         /\ IsAdding(c) <=> In(matrix.adding, c)
         /\ IsAdding(c)' <=> In(matrix'.adding, c)
         /\ ListedOnce <=> Once(matrix.clients)
         /\ ListedOnce' <=> Once(matrix'.clients)
         /\ Once(matrix.adding) <=>
              \A i, j \in DOMAIN matrix.adding :
                login[matrix.adding[i]] = login[matrix.adding[j]] => i = j
         /\ Once(matrix'.adding) <=>
              \A i, j \in DOMAIN matrix'.adding :
                login[matrix'.adding[i]] = login[matrix'.adding[j]] => i = j
BY DEF IsListed, IsAdding, In, Once, ListedOnce

\* A client is put into the list or taken out of it
LEMMA Relist ==
  ASSUME IInv, NEW c \in Client, NEW k, NEW R, Calls(c, k, R), Writes(c),
         matrix' \in MatrixType, matrix.db_loaded, matrix'.db_loaded,
         matrix'.opening = matrix.opening, matrix'.adding = matrix.adding,
         matrix'.to_save \subseteq matrix.to_save, Once(matrix'.clients),
         \A d \in Client : d # c => (IsListed(d)' <=> IsListed(d)),
         \A d \in Client : d # c /\ IsListed(d) => login[d] # login[c],
         ~IsAdding(c), Shape(k, R, c), Known(c)', NotReset(client[c], k),
         IsListed(c)' => /\ k.use = "made" /\ ~k.no_save /\ keyring'[login[c]] # NULL
                         /\ login[c] \notin matrix'.to_save /\ login[c] \notin DOMAIN Given,
         \A q \in R : q.op = "store" => q.then = "nothing",
         \A q \in flight' : q.op = "store" /\ q.then = "list" =>
           login[q.client] \in matrix'.to_save,
         Clearing(c) \in R => IsListed(c)',
         k.use = "made" /\ login[c] \in DOMAIN Given => IsListed(c)'
  PROVE  IInv'
<1>1. client'[c] = k /\ \A d \in Client \ {c} : client'[d] = client[d]
  BY DEF Calls, IInv, Types
<1>2. Mine(flight', c) = R /\ \A d \in Client \ {c} : Mine(flight', d) = Mine(flight, d)
  BY DEF Calls
<1>3. \A d : IsAdding(d)' <=> IsAdding(d)
  BY DEF IsAdding
<1>4. \A d \in Client : Shape(client[d], Mine(flight, d), d)' /\ Known(d)'
  <2>1. ASSUME NEW d \in Client, d # c PROVE Shape(client[d], Mine(flight, d), d)' /\ Known(d)'
    BY <2>1, OthersKept
  <2>2. Shape(client[c], Mine(flight, c), c)'
    BY <1>1, <1>2
  <2> QED
    BY <2>1, <2>2
<1>5. Types'
  <2>1. client' \in [Client -> ClientType]
    BY DEF Calls, IInv, Types, Shape
  <2>2. \A r \in flight' : \E d \in Client : r \in RequestsOf(d)
    BY <1>2 DEF IInv, Types, Calls, Shape, Mine
  <2> QED
    BY <2>1, <2>2 DEF Types, Writes
<1>6. Opening'
  BY DEF IInv, Opening
<1>7. login \in [Client -> Login]
  BY LoginAssumption
<1>8. Lists'
  BY InLists DEF IInv, Lists
<1>9. ASSUME NEW d \in Client, d # c PROVE ListedOf(d)'
  <2>1. SUFFICES ASSUME IsListed(d)'
                 PROVE  /\ client'[d].use = "made" /\ ~client'[d].no_save
                        /\ keyring'[login[d]] # NULL /\ login[d] \notin matrix'.to_save
    BY DEF ListedOf
  <2>2. /\ IsListed(d) /\ client[d].use = "made" /\ ~client[d].no_save
        /\ keyring[login[d]] # NULL /\ login[d] \notin matrix.to_save
    BY <1>9, <2>1 DEF IInv, Good, ListedOf
  <2>3. keyring'[login[d]] = keyring[login[d]]
    BY <1>7, <1>9, <2>2 DEF Writes
  <2> QED
    BY <1>1, <1>9, <2>2, <2>3
<1>10. ListedOf(c)'
  BY <1>1 DEF ListedOf
<1>11. \A d \in Client : AddingOf(d)'
  <2>1. SUFFICES ASSUME NEW d \in Client, IsAdding(d) PROVE AddingOf(d)'
    BY <1>3 DEF AddingOf
  <2>2. d # c /\ AddingOf(d)
    BY <2>1 DEF IInv, Good
  <2>3. Loading(d) \notin flight'
    <3>1. Loading(d).client = d
      BY DEF Loading
    <3> QED
      BY <2>1, <2>2, <3>1 DEF AddingOf, Calls
  <2>4. \A e \in Client : IsListed(e)' => login[e] # login[d]
    BY <2>1, <2>2 DEF AddingOf
  <2> QED
    BY <1>1, <1>3, <2>1, <2>2, <2>3, <2>4 DEF AddingOf
<1>12. \A d \in Client : \A r \in Mine(flight', d) : r.op = "store" =>
         (r.then = "add" <=> (matrix'.adding # <<>> /\ d = matrix'.adding[1]))
  <2>1. SUFFICES ASSUME NEW d \in Client, NEW r \in Mine(flight', d), r.op = "store"
                 PROVE  r.then = "add" <=> (matrix.adding # <<>> /\ d = matrix.adding[1])
    OBVIOUS
  <2>2. CASE d # c
    BY <1>2, <2>1, <2>2 DEF IInv, Good, AnswersOf
  <2>3. CASE d = c
    <3>1. matrix.adding # <<>> => c # matrix.adding[1]
      BY DEF IsAdding, IInv, Types, MatrixType
    <3> QED
      BY <1>2, <2>1, <2>3, <3>1
  <2> QED
    BY <2>2, <2>3
<1>13. \A d \in Client : \A r \in Mine(flight', d) : r.op = "store" /\ r.then = "list" =>
         /\ login[d] \in matrix'.to_save /\ client'[d].use = "made"
         /\ \A q \in flight' : /\ q.op = "store" /\ q.then = "list"
                               /\ login[q.client] = login[d]
                              => q = r
  <2>1. SUFFICES ASSUME NEW d \in Client, NEW r \in Mine(flight', d),
                        r.op = "store", r.then = "list"
                 PROVE  /\ login[d] \in matrix'.to_save /\ client'[d].use = "made"
                        /\ \A q \in flight' : /\ q.op = "store" /\ q.then = "list"
                                              /\ login[q.client] = login[d]
                                             => q = r
    OBVIOUS
  <2>2. d # c
    BY <1>2, <2>1
  <2>3. r \in Mine(flight, d)
    BY <1>2, <2>1, <2>2
  <2>4. /\ client[d].use = "made"
        /\ \A q \in flight : q.op = "store" /\ q.then = "list" /\ login[q.client] = login[d]
                               => q = r
    BY <2>1, <2>3 DEF IInv, Good, AnswersOf
  <2>5. ASSUME NEW q \in flight', q.op = "store", q.then = "list"
        PROVE  q \in flight
    <3>1. CASE q.client = c
      BY <1>2, <2>5, <3>1 DEF Mine
    <3>2. CASE q.client # c
      BY <2>5, <3>2 DEF Calls
    <3> QED
      BY <3>1, <3>2
  <2>6. login[d] \in matrix'.to_save
    BY <2>1 DEF Mine
  <2> QED
    BY <1>1, <2>2, <2>4, <2>5, <2>6
<1>14. \A d \in Client : Clearing(d) \in flight' => IsListed(d)'
  <2>1. \A d \in Client : Clearing(d).client = d
    BY DEF Clearing
  <2>2. \A d \in Client : Clearing(d) \in flight => IsListed(d)
    BY DEF IInv, Good, AnswersOf
  <2> QED
    BY <1>2, <2>1, <2>2 DEF Mine
<1>15. \A d \in Client : client'[d].use = "made" /\ login[d] \in DOMAIN Given =>
         IsListed(d)' \/ IsAdding(d)'
  BY <1>1, <1>3 DEF IInv, Good, AnswersOf
<1>16. \A d \in Client : AnswersOf(d)'
  BY <1>12, <1>13, <1>14, <1>15 DEF AnswersOf
<1> QED
  BY <1>4, <1>5, <1>6, <1>8, <1>9, <1>10, <1>11, <1>16 DEF IInv, Good

\* matrix_save_client_cb() keeps the invariant.
LEMMA ListedKeeps ==
  ASSUME IInv, NEW c \in Client, NEW ok \in BOOLEAN, Listed(c, ok)
  PROVE  IInv'
<1> DEFINE k == client[c]
           Q == Mine(flight, c)
<1>1. PICK r \in flight : /\ r.op = "store" /\ r.client = c /\ r.then = "list"
                          /\ Written(r, ok)
                          /\ Becomes(c, SecretSaved(k, c, ok), flight \ {r})
                          /\ matrix' = IF ok
                               THEN [matrix EXCEPT !.clients = Append(@, c),
                                                   !.to_save = @ \ {login[c]}]
                               ELSE matrix
                          /\ UNCHANGED db
  BY DEF Listed
<1>2. CASE ~ok
  <2>1. UNCHANGED <<matrix, db>>
    BY <1>1, <1>2
  <2> QED
    BY <1>1, <2>1, AnsweredStep
<1>3. CASE ok
  <2>1. PICK s : s = SecretSaved(k, c, ok)
    OBVIOUS
  <2>2. /\ Shape(k, Q, c) /\ r \in Q /\ r.value \in Secret
        /\ k \in ClientType /\ ~k.no_save /\ k.use # "none" /\ matrix.db_loaded
        /\ Freed(k, Q, r, c, ok, s)
        /\ Writes(c) /\ keyring'[login[c]] = IF ok THEN r.value ELSE keyring[login[c]]
        /\ Mine(flight \ {r}, c) = Q \ {r}
        /\ \A d \in Client \ {c} : Mine(flight \ {r}, d) = Mine(flight, d)
    BY <1>1, <2>1, AnswerFacts
  <2> DEFINE T == (Q \ {r}) \cup s.sent
  <2>3. /\ Alike(k, s.k) /\ Shape(s.k, T, c) /\ ~HasA("store", T)
        /\ s.sent = {}
        /\ \A w : AccountNow(k, Q, w) => AccountNow(s.k, T, w)
        /\ \A w : SecretNow(k, Q, w) => SecretNow(s.k, T, r.value)
    BY <1>3, <2>2 DEF Freed
  <2>4. Calls(c, s.k, T)
    <3>1. Calls(c, s.k, Mine(flight \ {r}, c) \cup s.sent)
      BY <1>1, <2>1, <2>2, <2>3, BecomesCalls
    <3> QED
      BY <2>2, <3>1
  <2>5. client'[c] = s.k /\ Mine(flight', c) = T
    BY <2>4 DEF Calls, IInv, Types
  <2>6. Alone(c)' => Alone(c)
    BY <2>4 DEF Alone, Calls, IInv, Types
  <2>7. Known(c) /\ AddingOf(c) /\ AnswersOf(c) /\ matrix \in MatrixType
    BY DEF IInv, Good, Types
  <2>8. Known(c)'
    <3>1. SUFFICES ASSUME Alone(c)
                   PROVE  /\ s.k.enc /\ ~EarlyChanges => AccountNow(s.k, T, db[login[c]])
                          /\ SecretNow(s.k, T, keyring'[login[c]])
      BY <1>1, <2>5, <2>6 DEF Known
    <3>2. HasA("store", Q)
      BY <1>1, <2>2 DEF HasA
    <3>3. /\ k.enc /\ ~EarlyChanges => AccountNow(k, Q, db[login[c]])
          /\ SecretNow(k, Q, keyring[login[c]])
      BY <2>2, <2>7, <3>1, <3>2 DEF Known
    <3>4. s.k.enc = k.enc
      BY <2>3 DEF Alike
    <3> QED
      BY <1>3, <2>2, <2>3, <3>3, <3>4
  <2>9. /\ login[c] \in matrix.to_save /\ k.use = "made"
        /\ \A q \in flight : q.op = "store" /\ q.then = "list" /\ login[q.client] = login[c]
                               => q = r
        /\ ~(matrix.adding # <<>> /\ c = matrix.adding[1])
    BY <1>1, <2>2, <2>7 DEF AnswersOf
  <2>10. ~IsAdding(c)
    <3>1. k.saving_secret
      BY <1>1, <2>2 DEF Shape, HasA
    <3>2. IsAdding(c) => matrix.adding # <<>>
      BY <2>7 DEF IsAdding, MatrixType
    <3> QED
      BY <2>7, <2>9, <3>1, <3>2 DEF AddingOf
  <2>11. login[c] \notin DOMAIN Given
    BY <2>9 DEF IInv, Lists
  <2>12. \A d : IsListed(d) => login[d] # login[c]
    <3>1. \A d : IsListed(d) => d \in Client
      BY <2>7 DEF IsListed, MatrixType
    <3> QED
      BY <2>9, <3>1 DEF IInv, Good, ListedOf
  <2>13. /\ matrix.clients \in Seq(Client) /\ Once(matrix.clients)
         /\ \A y : In(matrix.clients, y) => login[y] # login[c]
    BY <2>7, <2>12, InLists DEF MatrixType, IInv, Lists
  <2>14. /\ Append(matrix.clients, c) \in Seq(Client) /\ Once(Append(matrix.clients, c))
         /\ \A y : In(Append(matrix.clients, c), y) <=> In(matrix.clients, y) \/ y = c
    BY <2>13, AppendOnce
  <2>15. /\ matrix' \in MatrixType /\ matrix'.db_loaded /\ matrix'.opening = matrix.opening
         /\ matrix'.adding = matrix.adding /\ matrix'.to_save = matrix.to_save \ {login[c]}
         /\ matrix'.clients = Append(matrix.clients, c)
    BY <1>1, <1>3, <2>2, <2>7, <2>14 DEF MatrixType
  <2>16. \A d : IsListed(d)' <=> IsListed(d) \/ d = c
    BY <2>14, <2>15, InLists
  <2>17. s.k.use = "made" /\ ~s.k.no_save /\ NotReset(k, s.k)
    BY <2>2, <2>3, <2>9 DEF Alike, NotReset, NoClient
  <2>18. keyring'[login[c]] # NULL
    BY <1>3, <2>2, SecretsAssumption
  <2>19. \A q \in flight' : q.op = "store" /\ q.then = "list" =>
           login[q.client] \in matrix'.to_save
    <3>1. SUFFICES ASSUME NEW q \in flight', q.op = "store", q.then = "list"
                   PROVE  login[q.client] \in matrix.to_save /\ login[q.client] # login[c]
      BY <2>15
    <3>2. q \in flight /\ q # r
      BY <1>1, <2>1, <2>3 DEF Becomes
    <3>3. q.client \in Client
      BY <3>2 DEF IInv, Types, RequestsOf
    <3>4. login[q.client] \in matrix.to_save
      BY <3>1, <3>2, <3>3 DEF IInv, Good, AnswersOf, Mine
    <3> QED
      BY <2>9, <3>1, <3>2, <3>4
  <2>20. \A q \in T : q.op = "store" => q.then = "nothing"
    BY <2>3 DEF HasA
  <2> HIDE DEF T
  <2> QED
    BY <2>2, <2>3, <2>4, <2>8, <2>10, <2>11, <2>12, <2>14, <2>15, <2>16, <2>17, <2>18, <2>19,
       <2>20, Relist
<1> QED
  BY <1>2, <1>3

\* matrix_delete_client_cb() keeps the invariant.
LEMMA DeletedKeeps ==
  ASSUME IInv, NEW c \in Client, NEW ok \in BOOLEAN, Deleted(c, ok)
  PROVE  IInv'
<1> DEFINE k == client[c]
           Q == Mine(flight, c)
           T == Q \ {Clearing(c)}
<1>1. Clearing(c) \in flight /\ flight' = flight \ {Clearing(c)} /\ UNCHANGED db
  BY DEF Deleted
<1>2. /\ Shape(k, Q, c) /\ k \in ClientType /\ Known(c) /\ AnswersOf(c) /\ ListedOf(c)
      /\ Clearing(c).client = c /\ Clearing(c).op = "clear" /\ Clearing(c) \in Q
  BY <1>1, SpecOfRequests DEF IInv, Good, Shape, Mine
<1>3. IsListed(c) /\ k.use = "made" /\ ~k.no_save /\ ~IsAdding(c)
  BY <1>1, <1>2, ListedFacts DEF AnswersOf
<1>4. matrix.db_loaded /\ matrix \in MatrixType
  BY <1>3, IsOpen DEF IInv, Types
<1>5. /\ Mine(flight \ {Clearing(c)}, c) = T
      /\ \A d \in Client \ {c} : Mine(flight \ {Clearing(c)}, d) = Mine(flight, d)
  BY <1>2 DEF Mine
<1>6. /\ HasA("save", T) <=> HasA("save", Q)
      /\ HasA("store", T) <=> HasA("store", Q)
      /\ Loading(c) \in T => Loading(c) \in Q
  BY <1>2 DEF HasA
<1>7. \A r \in T : r.op = "store" => r \in flight /\ r.then = "nothing"
  <2>1. SUFFICES ASSUME NEW r \in T, r.op = "store"
                 PROVE  r \in flight /\ r.then = "nothing"
    OBVIOUS
  <2>2. r \in flight /\ r.then \in Then
    BY <1>2, <2>1 DEF Shape, RequestsOf, Mine
  <2>3. r.then # "list"
    BY <1>2, <1>3, <2>1 DEF AnswersOf, ListedOf
  <2>4. r.then # "add"
    <3>1. matrix.adding # <<>> => c # matrix.adding[1]
      BY <1>3, <1>4 DEF IsAdding, MatrixType
    <3> QED
      BY <1>2, <2>1, <3>1 DEF AnswersOf
  <2> QED
    BY <2>2, <2>3, <2>4 DEF Then
<1>8. Clearing(c) \notin T
  OBVIOUS
<1>9. CASE ~ok
  <2>1. UNCHANGED <<keyring, matrix, client>>
    BY <1>9 DEF Deleted
  <2>2. Becomes(c, Only(k), flight \ {Clearing(c)})
    BY <1>1, <2>1 DEF Becomes, Only, IInv, Types
  <2>3. Shape(k, T, c)
    BY <1>2, <1>3, <1>6 DEF Shape
  <2>4. Alone(c) /\ ~k.no_save =>
          /\ k.enc /\ ~EarlyChanges => AccountNow(k, T, db[login[c]])
          /\ IsListed(c) \/ HasA("store", T) => SecretNow(k, T, keyring[login[c]])
    BY <1>2, <1>6 DEF Known, AccountNow, SecretNow
  <2>5. SameLists /\ Writes(c)
    BY <1>1, <2>1, ChangeKeepsLists DEF Writes, IInv, Types
  <2>6. NotReset(k, k)
    BY DEF NotReset
  <2> HIDE DEF T
  <2> QED
    BY <1>1, <1>3, <1>5, <1>7, <1>8, <2>1, <2>2, <2>3, <2>4, <2>5, <2>6, QuietStep
<1>10. CASE ok
  <2>1. PICK m : m = [k EXCEPT !.use = "dropped"]
    OBVIOUS
  <2>2. m \in ClientType /\ m.use = "dropped"
    BY <1>2, <2>1 DEF ClientType
  <2>3. /\ m.no_save = k.no_save /\ m.user = k.user /\ m.token = k.token
        /\ m.enabled = k.enabled /\ m.in_store = k.in_store /\ m.enc = k.enc
        /\ m.batch = k.batch
        /\ m.saving_client = k.saving_client /\ m.pending_client = k.pending_client
        /\ m.saving_secret = k.saving_secret /\ m.pending_secret = k.pending_secret
    BY <1>2, <2>1 DEF ClientType
  <2>4. PICK i \in DOMAIN matrix.clients :
          /\ matrix.clients[i] = c
          /\ matrix' = [matrix EXCEPT !.clients = RemoveAt(matrix.clients, i)]
    BY <1>10 DEF Deleted
  <2>5. matrix.clients \in Seq(Client) /\ Once(matrix.clients)
    BY <1>4, InLists DEF MatrixType, IInv, Lists
  <2>6. /\ RemoveAt(matrix.clients, i) \in Seq(Client) /\ Once(RemoveAt(matrix.clients, i))
        /\ \A y : In(RemoveAt(matrix.clients, i), y) <=> In(matrix.clients, y) /\ y # c
    BY <2>4, <2>5, RemoveOnce
  <2>7. /\ matrix' \in MatrixType /\ matrix'.db_loaded /\ matrix'.opening = matrix.opening
        /\ matrix'.adding = matrix.adding /\ matrix'.to_save = matrix.to_save
        /\ matrix'.clients = RemoveAt(matrix.clients, i)
    BY <1>4, <2>4, <2>6 DEF MatrixType
  <2>8. \A d : IsListed(d)' <=> IsListed(d) /\ d # c
    BY <2>6, <2>7, InLists
  <2>9. client' = [client EXCEPT ![c] = m]
    BY <1>10, <2>1 DEF Deleted
  <2>10. Calls(c, m, T)
    BY <1>1, <1>5, <2>9 DEF Calls
  <2>11. client'[c] = m /\ Mine(flight', c) = T
    BY <2>10 DEF Calls, IInv, Types
  <2>12. login[c] \in Login
    BY LoginAssumption
  <2>13. /\ keyring' \in [Login -> Secret \cup {NULL}]
         /\ \A l \in Login \ {login[c]} : keyring'[l] = keyring[l]
    BY <1>10, <2>12 DEF Deleted, IInv, Types
  <2>14. Writes(c)
    BY <1>1, <1>3, <2>13 DEF Writes, IInv, Types
  <2>15. Alone(c)' => Alone(c)
    BY <2>10 DEF Alone, Calls, IInv, Types
  <2>16. Shape(m, T, c)
    BY <1>2, <1>3, <1>6, <2>2, <2>3 DEF Shape
  <2>17. Known(c)'
    <3>1. SUFFICES ASSUME Alone(c)
                   PROVE  /\ m.enc /\ ~EarlyChanges => AccountNow(m, T, db[login[c]])
                          /\ HasA("store", T) => SecretNow(m, T, keyring'[login[c]])
      BY <1>1, <2>8, <2>11, <2>15 DEF Known
    <3>2. /\ k.enc /\ ~EarlyChanges => AccountNow(k, Q, db[login[c]])
          /\ SecretNow(k, Q, keyring[login[c]])
      BY <1>2, <1>3, <3>1 DEF Known
    <3>3. AccountOf(m) = AccountOf(k) /\ \A v : SecretIs(m, v) <=> SecretIs(k, v)
      BY <2>3 DEF AccountOf, SecretIs, SecretOf
    <3>4. m.enc /\ ~EarlyChanges => AccountNow(m, T, db[login[c]])
      BY <1>2, <1>6, <2>3, <3>2, <3>3 DEF AccountNow
    <3>5. HasA("store", T) => SecretNow(m, T, keyring'[login[c]])
      BY <1>2, <1>6, <2>3, <3>2, <3>3 DEF SecretNow
    <3> QED
      BY <3>4, <3>5
  <2>18. \A d \in Client : d # c /\ IsListed(d) => login[d] # login[c]
    <3>1. SUFFICES ASSUME NEW d \in Client, d # c, IsListed(d), login[d] = login[c]
                   PROVE  FALSE
      OBVIOUS
    <3>2. PICK j \in DOMAIN matrix.clients : matrix.clients[j] = d
      BY <3>1 DEF IsListed
    <3>3. i = j
      BY <2>4, <2>5, <3>1, <3>2 DEF Once
    <3> QED
      BY <2>4, <3>1, <3>2, <3>3
  <2>19. NotReset(k, m)
    BY <1>3, <2>2, <2>3 DEF NotReset, NoClient
  <2>20. \A q \in flight' : q.op = "store" /\ q.then = "list" =>
           login[q.client] \in matrix'.to_save
    <3>1. SUFFICES ASSUME NEW q \in flight, q.op = "store", q.then = "list"
                   PROVE  login[q.client] \in matrix.to_save
      BY <1>1, <2>7
    <3>2. q.client \in Client
      BY <3>1 DEF IInv, Types, RequestsOf
    <3> QED
      BY <3>1, <3>2 DEF IInv, Good, AnswersOf, Mine
  <2> HIDE DEF T
  <2> QED
    BY <1>3, <1>4, <1>7, <1>8, <2>2, <2>6, <2>7, <2>8, <2>10, <2>14, <2>16, <2>17, <2>18,
       <2>19, <2>20, Relist
<1> QED
  BY <1>9, <1>10

\* What is left of a client that was the first to be added, and of its requests
AddedAs(c, ok, t, T) ==
  /\ Shape(t.k, T, c) /\ ~t.k.no_save /\ ~t.k.enc /\ ~HasA("store", T) /\ Clearing(c) \notin T
  /\ t.k.use = IF ok THEN "made" ELSE "dropped"
  /\ \A q \in t.sent : q.client = c
  /\ ok /\ Alone(c) => SecretNow(t.k, T, keyring'[login[c]])

\* The client that an answer of the keyring adds or drops.
AddedClient(c, ok) ==
  LET s == SecretSaved(client[c], c, ok)
  IN  IF ok THEN EnableAsInStore(s, c)
      ELSE [k |-> [s.k EXCEPT !.use = "dropped"], sent |-> s.sent]

\* It is as AddedAs says.
LEMMA AddedFirst ==
  ASSUME IInv, NEW c \in Client, NEW r \in flight, r.op = "store", r.client = c,
         r.then = "add", NEW ok \in BOOLEAN, Written(r, ok), UNCHANGED db,
         NEW t, t = AddedClient(c, ok)
  PROVE  AddedAs(c, ok, t, (Mine(flight, c) \ {r}) \cup t.sent)
<1> DEFINE k == client[c]
           Q == Mine(flight, c)
<1>1. PICK s : s = SecretSaved(k, c, ok)
  OBVIOUS
<1>2. /\ Shape(k, Q, c) /\ r \in Q /\ r.value \in Secret
      /\ k \in ClientType /\ ~k.no_save /\ k.use # "none" /\ matrix.db_loaded
      /\ Freed(k, Q, r, c, ok, s)
      /\ Writes(c) /\ keyring'[login[c]] = IF ok THEN r.value ELSE keyring[login[c]]
      /\ Mine(flight \ {r}, c) = Q \ {r}
      /\ \A d \in Client \ {c} : Mine(flight \ {r}, d) = Mine(flight, d)
  BY <1>1, AnswerFacts
<1>3. /\ Known(c) /\ AddingOf(c) /\ AnswersOf(c) /\ matrix \in MatrixType
  BY DEF IInv, Good, Types
<1>4. IsAdding(c)
  BY <1>2, <1>3 DEF AnswersOf, IsAdding, MatrixType
<1>5. /\ k.use = "made" /\ ~k.enabled /\ ~k.enc /\ ~k.pending_client /\ ~k.saving_client
      /\ Loading(c) \notin flight /\ ~IsListed(c)
  BY <1>3, <1>4 DEF AddingOf
<1>6. Clearing(c) \notin flight
  BY <1>3, <1>5 DEF AnswersOf
<1> DEFINE T == (Q \ {r}) \cup s.sent
<1>7. /\ Alike(k, s.k) /\ Shape(s.k, T, c) /\ ~HasA("store", T)
      /\ \A q \in s.sent : q.op = "save"
      /\ \A w : SecretNow(k, Q, w) => SecretNow(s.k, T, IF ok THEN r.value ELSE w)
      /\ ok => /\ s.sent = {} /\ s.k.pending_client = k.pending_client
               /\ s.k.saving_client = k.saving_client
  BY <1>2 DEF Freed
<1>8. s.k \in ClientType
  BY <1>7 DEF Shape
<1>9. Clearing(c) \notin T
  BY <1>6, <1>7 DEF Mine, Clearing
<1>10. \A q \in s.sent : q.client = c
  BY <1>7 DEF Shape, RequestsOf
<1>11. CASE ~ok
  <2>1. PICK m : m = [s.k EXCEPT !.use = "dropped"]
    OBVIOUS
  <2>2. m \in ClientType /\ m.use = "dropped"
    BY <1>8, <2>1 DEF ClientType
  <2>3. /\ m.no_save = s.k.no_save /\ m.user = s.k.user /\ m.token = s.k.token
        /\ m.enc = s.k.enc
        /\ m.saving_client = s.k.saving_client /\ m.pending_client = s.k.pending_client
        /\ m.saving_secret = s.k.saving_secret
    BY <1>8, <2>1 DEF ClientType
  <2>4. ~m.no_save /\ ~m.enc
    BY <1>2, <1>5, <1>7, <2>3 DEF Alike
  <2>5. t.k = m /\ t.sent = s.sent
    BY <1>1, <1>11, <2>1 DEF AddedClient
  <2>6. Shape(m, T, c)
    BY <1>7, <2>2, <2>3, <2>4 DEF Shape
  <2> QED
    BY <1>7, <1>9, <1>10, <1>11, <2>2, <2>4, <2>5, <2>6 DEF AddedAs
<1>12. CASE ok
  <2>1. t = EnableAsInStore(s, c)
    BY <1>1, <1>12 DEF AddedClient
  <2>2. /\ s.sent = {} /\ ~s.k.pending_client /\ ~s.k.saving_client /\ T = Q \ {r}
        /\ s.k.use = "made" /\ ~s.k.no_save /\ ~s.k.enc
    BY <1>2, <1>5, <1>7, <1>12 DEF Alike
  <2>3. Alone(c) => SecretNow(s.k, T, keyring'[login[c]])
    <3>1. HasA("store", Q)
      BY <1>2 DEF HasA
    <3> QED
      BY <1>2, <1>3, <1>7, <1>12, <3>1 DEF Known
  <2>4. CASE ~s.k.in_store
    <3>1. t = s
      BY <2>1, <2>4 DEF EnableAsInStore
    <3> QED
      BY <1>7, <1>9, <1>10, <1>12, <2>2, <2>3, <3>1 DEF AddedAs
  <2>5. CASE s.k.in_store
    <3>1. PICK m : m = [s.k EXCEPT !.enabled = TRUE, !.in_store = FALSE]
      OBVIOUS
    <3>2. m \in ClientType /\ m.enabled /\ ~m.in_store
      BY <1>8, <3>1 DEF ClientType
    <3>3. /\ m.use = s.k.use
          /\ m.no_save = s.k.no_save /\ m.user = s.k.user /\ m.token = s.k.token
          /\ m.enc = s.k.enc
          /\ m.saving_client = s.k.saving_client /\ m.pending_client = s.k.pending_client
          /\ m.saving_secret = s.k.saving_secret /\ m.pending_secret = s.k.pending_secret
      BY <1>8, <3>1 DEF ClientType
    <3>4. PICK S : S = IF s.k.token THEN {Loading(c)} ELSE {}
      OBVIOUS
    <3>5. t.k = m /\ t.sent = s.sent \cup S
      BY <2>1, <2>5, <3>1, <3>4 DEF EnableAsInStore
    <3>6. t.sent = S /\ (Q \ {r}) \cup t.sent = T \cup S
      BY <2>2, <3>5
    <3>7. /\ Loading(c) \in RequestsOf(c) /\ Loading(c).op = "load" /\ Loading(c).client = c
          /\ Loading(c) \notin T
      BY <1>5, <2>2, SpecOfRequests DEF Mine
    <3>8. /\ HasA("save", T \cup S) <=> HasA("save", T)
          /\ HasA("store", T \cup S) <=> HasA("store", T)
          /\ Clearing(c) \notin T \cup S
      BY <1>9, <3>4, <3>7 DEF HasA, Clearing
    <3>9. \A q, p \in T \cup S : q.op = p.op => q = p
      <4>1. \A q \in T : q.op # "load"
        <5>1. \A q \in T : q.op = "load" => q = Loading(c)
          BY <1>7 DEF Shape, RequestsOf, Loading
        <5> QED
          BY <3>7, <5>1
      <4> QED
        BY <1>7, <3>4, <3>7, <4>1 DEF Shape
    <3>10. Loading(c) \in T \cup S => m.token
      BY <3>3, <3>4, <3>7
    <3>11. Shape(m, T \cup S, c)
      BY <1>7, <2>2, <3>2, <3>3, <3>4, <3>7, <3>8, <3>9, <3>10 DEF Shape
    <3>12. \A v : SecretIs(m, v) <=> SecretIs(s.k, v)
      BY <2>5, <3>2, <3>3 DEF SecretIs, SecretOf
    <3>13. \A w : SecretNow(s.k, T, w) => SecretNow(m, T \cup S, w)
      BY <3>3, <3>8, <3>12 DEF SecretNow
    <3>14. \A q \in S : q.client = c
      BY <3>4, <3>7
    <3> QED
      BY <1>7, <1>12, <2>2, <2>3, <3>3, <3>5, <3>6, <3>8, <3>11, <3>13, <3>14 DEF AddedAs
  <2> QED
    BY <1>8, <2>4, <2>5 DEF ClientType
<1> QED
  BY <1>11, <1>12

\* A client that waits until it is added, with its requests; and the one that is
\* being added
Waits(k, R, c) ==
  /\ Shape(k, R, c) /\ k.use = "made" /\ ~k.no_save /\ ~k.enabled /\ ~k.enc
  /\ ~k.pending_client /\ ~k.saving_client /\ ~k.saving_secret
  /\ Loading(c) \notin R /\ Clearing(c) \notin R

\* The client that is being added, with its requests: its secrets are being saved.
FirstAs(k, R, c) ==
  /\ Shape(k, R, c) /\ k.use = "made" /\ ~k.no_save /\ ~k.enabled /\ ~k.enc
  /\ ~k.pending_client /\ ~k.saving_client /\ k.saving_secret
  /\ Loading(c) \notin R /\ Clearing(c) \notin R
  /\ \A q \in R : q.op = "store" => q.then = "add"
  /\ \A w : SecretNow(k, R, w)

\* Saving the secrets of a client that waits makes it that one.
LEMMA SaveFirst ==
  ASSUME NEW c, NEW k, NEW R, Waits(k, R, c),
         NEW m, m = SaveSecrets(Only(k), c, "add")
  PROVE  FirstAs(m.k, R \cup m.sent, c) /\ \A q \in m.sent : q.client = c
<1>1. PICK S : S = {}
  OBVIOUS
<1>2. m = SaveSecrets([k |-> k, sent |-> S], c, "add") /\ R \cup S = R /\ m.sent \ S = m.sent
  BY <1>1 DEF Only
<1>3. Shape(k, R, c) /\ Shape(k, R \cup S, c) /\ k \in ClientType
  BY <1>2 DEF Waits, Shape
<1>4. /\ Outcome(k, R, S, c, "add", m) /\ \A w : SecretNow(m.k, R \cup m.sent, w)
      /\ m.k.saving_secret
  BY <1>2, <1>3, SaveSecretsOutcome DEF Waits, Then
<1>5. /\ Alike(k, m.k) /\ Shape(m.k, R \cup m.sent, c)
  BY <1>4 DEF Outcome
<1>6. SecretTaken(k, S, c, "add", m)
  BY <1>2, <1>3, SaveSecretsTakes
<1>7. /\ ~m.k.saving_client /\ ~m.k.pending_client
      /\ m.sent = {Storing(c, SecretOf(k, "add"), "add")}
  BY <1>1, <1>6 DEF SecretTaken, Waits
<1>8. \A q \in m.sent : q.op = "store" /\ q.then = "add" /\ q.client = c
  BY <1>7 DEF Storing
<1>9. Loading(c) \notin R \cup m.sent /\ Clearing(c) \notin R \cup m.sent
  BY <1>8, SpecOfRequests DEF Waits
<1>10. \A q \in R : q.op # "store"
  BY DEF Waits, Shape, HasA
<1> QED
  BY <1>4, <1>5, <1>7, <1>8, <1>9, <1>10 DEF FirstAs, Waits, Alike

\* The clients that a step leaves as they are, when it sets nothing back
LEMMA RestKept ==
  ASSUME IInv, NEW d \in Client, NEW C \in SUBSET Client, d \notin C,
         \A e \in Client \ C : client'[e] = client[e],
         \A e \in C : ~client'[e].no_save /\ client'[e].use # "none",
         Mine(flight', d) = Mine(flight, d), IsListed(d)' => IsListed(d),
         \A l \in Login : keyring'[l] = keyring[l] \/ \E e \in C : login[e] = l,
         UNCHANGED db
  PROVE  Shape(client[d], Mine(flight, d), d)' /\ Known(d)'
<1>1. Shape(client[d], Mine(flight, d), d) /\ Known(d) /\ client'[d] = client[d]
  BY DEF IInv, Good
<1>2. Shape(client[d], Mine(flight, d), d)'
  BY <1>1 DEF Shape
<1>3. \A e \in C : login[e] = login[d] => ~Alone(d)'
  BY DEF Alone, NoClient
<1>4. Alone(d)' => Alone(d) /\ keyring'[login[d]] = keyring[login[d]]
  <2>1. SUFFICES ASSUME Alone(d)' PROVE Alone(d) /\ keyring'[login[d]] = keyring[login[d]]
    OBVIOUS
  <2>2. \A e \in C : login[e] # login[d]
    BY <1>3, <2>1
  <2>3. login[d] \in Login
    BY LoginAssumption
  <2> QED
    BY <2>1, <2>2, <2>3 DEF Alone
<1>5. Known(d)'
  BY <1>1, <1>4 DEF Known
<1> QED
  BY <1>2, <1>5

\* What an answer leaves, when the client c is taken off the clients to be added
AddedTo(c, ok) ==
  LET rest == Tail(matrix.adding)
  IN  /\ AddedAs(c, ok, [k |-> client'[c], sent |-> {}], Mine(flight', c))
      /\ rest # <<>> => FirstAs(client'[rest[1]], Mine(flight', rest[1]), rest[1])
      /\ \A d \in Client \ {c} : rest = <<>> \/ d # rest[1] =>
           client'[d] = client[d] /\ Mine(flight', d) = Mine(flight, d)
      /\ \A q \in flight' : q.client \in Client /\ q \in RequestsOf(q.client)
      /\ client' \in [Client -> ClientType]

\* An answer to the first client that is added leaves it, the next and the others so.
LEMMA AddedOutcome ==
  ASSUME IInv, NEW c \in Client, NEW ok \in BOOLEAN, NEW r \in flight,
         r.op = "store", r.client = c, r.then = "add", Written(r, ok), UNCHANGED db,
         Added(c, ok)
  PROVE  AddedTo(c, ok)
<1> DEFINE k == client[c]
           Q == Mine(flight, c)
           rest == Tail(matrix.adding)
           next == SaveSecrets(Only(client[Head(rest)]), Head(rest), "add")
<1>1. Shape(k, Q, c) /\ AnswersOf(c) /\ matrix \in MatrixType /\ r \in Q
  BY DEF IInv, Good, Types, Mine
<1>2. PICK t : t = AddedClient(c, ok)
  OBVIOUS
<1>3. AddedAs(c, ok, t, (Q \ {r}) \cup t.sent)
  BY <1>2, AddedFirst
<1>4. IF rest = <<>> THEN Becomes(c, t, flight \ {r})
      ELSE /\ client' = [client EXCEPT ![c] = t.k, ![Head(rest)] = next.k]
           /\ flight' = (flight \ {r}) \cup t.sent \cup next.sent
  <2>1. PICK q \in flight : /\ q.op = "store" /\ q.client = c /\ q.then = "add"
          /\ IF rest = <<>> THEN Becomes(c, t, flight \ {q})
             ELSE /\ client' = [client EXCEPT ![c] = t.k, ![Head(rest)] = next.k]
                  /\ flight' = (flight \ {q}) \cup t.sent \cup next.sent
    BY <1>2 DEF Added, AddedClient
  <2>2. q = r
    BY <1>1, <2>1 DEF Shape, Mine
  <2> QED
    BY <2>1, <2>2
<1>5. \A q \in flight : q.client \in Client /\ q \in RequestsOf(q.client)
  BY DEF IInv, Types, RequestsOf
<1>6. \A q \in t.sent : q.client = c /\ q \in RequestsOf(c)
  BY <1>3 DEF AddedAs, Shape
<1>7. t.k \in ClientType /\ client \in [Client -> ClientType]
  BY <1>3 DEF AddedAs, Shape, IInv, Types
<1>8. ASSUME NEW x, Mine(x, c) = (Q \ {r}) \cup t.sent, client'[c] = t.k, flight' = x
      PROVE  AddedAs(c, ok, [k |-> client'[c], sent |-> {}], Mine(flight', c))
  BY <1>3, <1>8 DEF AddedAs
<1>9. CASE rest = <<>>
  <2>1. client' = [client EXCEPT ![c] = t.k] /\ flight' = (flight \ {r}) \cup t.sent
    BY <1>4, <1>9 DEF Becomes
  <2>2. client'[c] = t.k /\ \A d \in Client \ {c} : client'[d] = client[d]
    BY <1>7, <2>1
  <2>3. Mine(flight', c) = (Q \ {r}) \cup t.sent
    BY <1>6, <2>1 DEF Mine
  <2>4. \A d \in Client \ {c} : Mine(flight', d) = Mine(flight, d)
    BY <1>6, <2>1 DEF Mine
  <2>5. \A q \in flight' : q.client \in Client /\ q \in RequestsOf(q.client)
    BY <1>5, <1>6, <2>1
  <2>6. client' \in [Client -> ClientType]
    BY <1>7, <2>1
  <2> QED
    BY <1>8, <1>9, <2>2, <2>3, <2>4, <2>5, <2>6 DEF AddedTo
<1>10. CASE rest # <<>>
  <2>1. /\ matrix.adding \in Seq(Client) /\ Once(matrix.adding)
        /\ matrix.adding # <<>> /\ c = matrix.adding[1]
    BY <1>1, InLists DEF MatrixType, IInv, Lists, AnswersOf
  <2>2. /\ rest \in Seq(Client) /\ Head(rest) = rest[1]
        /\ In(matrix.adding, rest[1]) /\ rest[1] # c
    <3>1. /\ rest \in Seq(Client) /\ Head(rest) = rest[1] /\ In(rest, rest[1])
          /\ \A y : In(rest, y) <=> In(matrix.adding, y) /\ y # matrix.adding[1]
      BY <1>10, <2>1, TailOnce
    <3> QED
      BY <2>1, <3>1
  <2>3. PICK n : n = rest[1]
    OBVIOUS
  <2>4. n \in Client /\ n # c /\ Head(rest) = n /\ IsAdding(n) /\ n # matrix.adding[1]
    BY <1>10, <2>1, <2>2, <2>3, InLists
  <2>5. Waits(client[n], Mine(flight, n), n)
    <3>1. /\ Shape(client[n], Mine(flight, n), n) /\ AddingOf(n) /\ AnswersOf(n)
      BY <2>4 DEF IInv, Good
    <3>2. Clearing(n) \notin flight
      BY <2>4, <3>1 DEF AddingOf, AnswersOf
    <3> QED
      BY <2>4, <3>1, <3>2 DEF Waits, AddingOf, Mine
  <2>6. PICK m : m = SaveSecrets(Only(client[n]), n, "add")
    OBVIOUS
  <2>7. /\ FirstAs(m.k, Mine(flight, n) \cup m.sent, n) /\ \A q \in m.sent : q.client = n
    BY <2>5, <2>6, SaveFirst
  <2>8. /\ client' = [client EXCEPT ![c] = t.k, ![n] = m.k]
        /\ flight' = (flight \ {r}) \cup t.sent \cup m.sent
    BY <1>4, <1>10, <2>4, <2>6
  <2>9. /\ client'[c] = t.k /\ client'[n] = m.k
        /\ \A d \in Client \ {c, n} : client'[d] = client[d]
    BY <1>7, <2>4, <2>8
  <2>10. Mine(flight', c) = (Q \ {r}) \cup t.sent
    BY <1>6, <2>4, <2>7, <2>8 DEF Mine
  <2>11. Mine(flight', n) = Mine(flight, n) \cup m.sent
    BY <1>6, <2>4, <2>7, <2>8 DEF Mine
  <2>12. \A d \in Client \ {c, n} : Mine(flight', d) = Mine(flight, d)
    BY <1>6, <2>7, <2>8 DEF Mine
  <2>13. \A q \in m.sent : q \in RequestsOf(n)
    BY <2>7 DEF FirstAs, Shape
  <2>14. \A q \in flight' : q.client \in Client /\ q \in RequestsOf(q.client)
    BY <1>5, <1>6, <2>4, <2>7, <2>8, <2>13
  <2>15. client' \in [Client -> ClientType]
    BY <1>7, <2>7, <2>8 DEF FirstAs, Shape
  <2> QED
    <3>1. AddedAs(c, ok, [k |-> client'[c], sent |-> {}], Mine(flight', c))
      BY <1>8, <2>9, <2>10
    <3>2. FirstAs(client'[rest[1]], Mine(flight', rest[1]), rest[1])
      BY <2>3, <2>7, <2>9, <2>11
    <3>3. \A d \in Client \ {c} : rest = <<>> \/ d # rest[1] =>
            client'[d] = client[d] /\ Mine(flight', d) = Mine(flight, d)
      BY <1>10, <2>3, <2>9, <2>12
    <3> HIDE DEF rest
    <3> QED
      BY <2>14, <2>15, <3>1, <3>2, <3>3 DEF AddedTo, rest
<1> QED
  BY <1>9, <1>10

\* matrix_save_client() keeps the invariant.
LEMMA AddedKeeps ==
  ASSUME IInv, NEW c \in Client, NEW ok \in BOOLEAN, Added(c, ok)
  PROVE  IInv'
<1> DEFINE rest == Tail(matrix.adding)
<1>1. PICK r \in flight : /\ r.op = "store" /\ r.client = c /\ r.then = "add"
                          /\ Written(r, ok) /\ UNCHANGED db
  BY DEF Added
<1>2. AddedTo(c, ok)
  BY <1>1, AddedOutcome
<1>3. /\ r \in Mine(flight, c) /\ AnswersOf(c) /\ AddingOf(c) /\ matrix \in MatrixType
      /\ matrix.db_loaded /\ Writes(c)
      /\ keyring'[login[c]] = IF ok THEN r.value ELSE keyring[login[c]]
      /\ r.value \in Secret
  <2>1. PICK s : s = SecretSaved(client[c], c, ok)
    OBVIOUS
  <2>2. /\ Shape(client[c], Mine(flight, c), c) /\ r \in Mine(flight, c) /\ r.value \in Secret
        /\ client[c] \in ClientType /\ ~client[c].no_save /\ client[c].use # "none"
        /\ matrix.db_loaded
        /\ Freed(client[c], Mine(flight, c), r, c, ok, s)
        /\ Writes(c) /\ keyring'[login[c]] = IF ok THEN r.value ELSE keyring[login[c]]
        /\ Mine(flight \ {r}, c) = Mine(flight, c) \ {r}
        /\ \A d \in Client \ {c} : Mine(flight \ {r}, d) = Mine(flight, d)
    BY <1>1, <2>1, AnswerFacts
  <2> QED
    BY <2>2 DEF IInv, Good, Types
<1>4. /\ matrix.adding \in Seq(Client) /\ Once(matrix.adding)
      /\ matrix.adding # <<>> /\ c = matrix.adding[1]
  BY <1>1, <1>3, InLists DEF MatrixType, IInv, Lists, AnswersOf
<1>5. /\ rest \in Seq(Client) /\ Once(rest) /\ In(matrix.adding, c)
      /\ \A y : In(rest, y) <=> In(matrix.adding, y) /\ y # c
      /\ rest # <<>> => In(rest, rest[1])
  BY <1>4, TailOnce
<1>6. IsAdding(c) /\ login[c] \in DOMAIN Given
  BY <1>3, <1>5, InLists DEF AddingOf
<1>7. \A d \in Client : IsListed(d) => login[d] # login[c]
  BY <1>3, <1>6 DEF AddingOf
<1>8. /\ matrix.clients \in Seq(Client) /\ Once(matrix.clients)
      /\ \A y : In(matrix.clients, y) => login[y] # login[c]
  <2>1. \A d : IsListed(d) => d \in Client
    BY <1>3 DEF IsListed, MatrixType
  <2> QED
    BY <1>3, <1>7, <2>1, InLists DEF MatrixType, IInv, Lists
<1>9. /\ Append(matrix.clients, c) \in Seq(Client) /\ Once(Append(matrix.clients, c))
      /\ \A y : In(Append(matrix.clients, c), y) <=> In(matrix.clients, y) \/ y = c
  BY <1>8, AppendOnce
<1>10. matrix' = [matrix EXCEPT !.adding = rest,
                                !.clients = IF ok THEN Append(matrix.clients, c)
                                            ELSE matrix.clients]
  BY <1>3 DEF Added, MatrixType
<1> HIDE DEF rest
<1>11. /\ matrix' \in MatrixType /\ matrix'.db_loaded /\ matrix'.opening = matrix.opening
       /\ matrix'.adding = rest /\ matrix'.to_save = matrix.to_save
       /\ matrix'.clients = IF ok THEN Append(matrix.clients, c) ELSE matrix.clients
  <2>1. PICK list \in Seq(Client) :
          list = IF ok THEN Append(matrix.clients, c) ELSE matrix.clients
    BY <1>8, <1>9
  <2>2. matrix' = [matrix EXCEPT !.adding = rest, !.clients = list]
    BY <1>10, <2>1
  <2> QED
    BY <1>3, <1>5, <2>1, <2>2 DEF MatrixType
<1>12. /\ \A d : IsListed(d)' <=> IsListed(d) \/ (ok /\ d = c)
       /\ \A d : IsAdding(d)' <=> IsAdding(d) /\ d # c
       /\ ListedOnce' /\ Once(matrix'.adding)
  BY <1>5, <1>8, <1>9, <1>11, InLists
<1> DEFINE m == client'[c]
           R == Mine(flight', c)
           C == {c} \cup {d \in Client : rest # <<>> /\ d = rest[1]}
<1>13. /\ Shape(m, R, c) /\ ~m.no_save /\ ~m.enc /\ ~HasA("store", R)
       /\ Clearing(c) \notin R
       /\ m.use = IF ok THEN "made" ELSE "dropped"
       /\ ok /\ Alone(c) => SecretNow(m, R, keyring'[login[c]])
  BY <1>2 DEF AddedTo, AddedAs
<1>14. ASSUME NEW d \in Client, d # c, rest # <<>>, d = rest[1]
       PROVE  /\ FirstAs(client'[d], Mine(flight', d), d) /\ IsAdding(d) /\ AddingOf(d)
              /\ AnswersOf(d)
  <2>1. IsAdding(d)
    BY <1>5, <1>14, InLists
  <2> QED
    BY <1>2, <1>14, <2>1 DEF AddedTo, rest, IInv, Good
<1>15. ASSUME NEW d \in Client, d # c, rest = <<>> \/ d # rest[1]
       PROVE  client'[d] = client[d] /\ Mine(flight', d) = Mine(flight, d)
  BY <1>2, <1>15 DEF AddedTo, rest
<1>16. \A e \in C : ~client'[e].no_save /\ client'[e].use # "none"
  BY <1>13, <1>14 DEF FirstAs
<1>17. \A l \in Login : keyring'[l] = keyring[l] \/ \E e \in C : login[e] = l
  BY <1>3 DEF Writes
<1>18. ASSUME NEW d \in Client, d # c, rest = <<>> \/ d # rest[1]
       PROVE  Shape(client[d], Mine(flight, d), d)' /\ Known(d)'
  <2>1. C \in SUBSET Client /\ d \notin C
    BY <1>18
  <2>2. \A e \in Client \ C : client'[e] = client[e]
    BY <1>15
  <2>3. Mine(flight', d) = Mine(flight, d) /\ (IsListed(d)' => IsListed(d))
    BY <1>12, <1>15, <1>18
  <2> HIDE DEF C
  <2> QED
    BY <1>1, <1>16, <1>17, <2>1, <2>2, <2>3, RestKept
<1>19. Alone(c)' => Alone(c)
  <2>1. SUFFICES ASSUME Alone(c)', NEW d \in Client \ {c}, login[d] = login[c]
                 PROVE  client[d].no_save \/ client[d] = NoClient
    BY DEF Alone
  <2>2. rest # <<>> => d # rest[1]
    BY <1>16, <2>1 DEF Alone, NoClient
  <2> QED
    BY <1>15, <2>1, <2>2 DEF Alone
<1>20. Shape(client[c], Mine(flight, c), c)' /\ Known(c)'
  <2>1. Known(c)'
    BY <1>7, <1>12, <1>13, <1>19 DEF Known
  <2> QED
    BY <1>13, <2>1
<1>21. ASSUME NEW d \in Client, d # c, rest # <<>>, d = rest[1]
       PROVE  Shape(client[d], Mine(flight, d), d)' /\ Known(d)'
  BY <1>14, <1>21 DEF FirstAs, Known
<1>22. ASSUME NEW d \in Client
       PROVE  Shape(client[d], Mine(flight, d), d)' /\ Known(d)'
  BY <1>18, <1>20, <1>21
<1>23. Types'
  BY <1>2, <1>3, <1>11 DEF Types, AddedTo, Writes
<1>24. Opening'
  BY <1>3, <1>11 DEF IInv, Opening
<1>25. Lists'
  BY <1>11, <1>12, InLists DEF IInv, Lists
<1>26. ASSUME NEW d \in Client PROVE ListedOf(d)'
  <2>1. SUFFICES ASSUME IsListed(d)'
                 PROVE  /\ client'[d].use = "made" /\ ~client'[d].no_save
                        /\ keyring'[login[d]] # NULL /\ login[d] \notin matrix.to_save
    BY <1>11 DEF ListedOf
  <2>2. CASE d = c
    <3>1. ok
      BY <1>3, <1>6, <1>12, <2>1, <2>2 DEF AddingOf
    <3>2. login[c] \notin matrix.to_save
      BY <1>6 DEF IInv, Lists
    <3> QED
      BY <1>3, <1>13, <2>2, <3>1, <3>2, SecretsAssumption
  <2>3. CASE d # c
    <3>1. IsListed(d) /\ ListedOf(d) /\ login[d] # login[c] /\ login[d] \in Login
      BY <1>7, <1>12, <2>1, <2>3, LoginAssumption DEF IInv, Good
    <3>2. rest # <<>> => d # rest[1]
      BY <1>14, <2>3, <3>1 DEF AddingOf
    <3> QED
      BY <1>3, <1>15, <2>3, <3>1, <3>2 DEF ListedOf, Writes
  <2> QED
    BY <2>2, <2>3
<1>27. ASSUME NEW d \in Client, IsAdding(d), d # c PROVE AddingOf(d)'
  <2>1. AddingOf(d)
    BY <1>27 DEF IInv, Good
  <2>2. \A e \in Client : IsListed(e)' => login[e] # login[d]
    <3>1. login[c] # login[d]
      BY <1>4, <1>5, <1>27, InLists DEF Once, In
    <3> QED
      BY <1>12, <1>27, <2>1, <3>1 DEF AddingOf
  <2>3. rest # <<>>
    <3>1. In(rest, d)
      BY <1>5, <1>27, InLists
    <3> QED
      BY <1>5, <3>1 DEF In
  <2>4. CASE d = rest[1]
    <3>1. FirstAs(client'[d], Mine(flight', d), d)
      BY <1>14, <1>27, <2>3, <2>4
    <3>2. Loading(d) \notin flight'
      BY <3>1, SpecOfRequests DEF FirstAs, Mine
    <3> QED
      BY <1>11, <1>27, <2>1, <2>2, <2>4, <3>1, <3>2 DEF AddingOf, FirstAs
  <2>5. CASE d # rest[1]
    <3>1. client'[d] = client[d] /\ Mine(flight', d) = Mine(flight, d)
      BY <1>15, <1>27, <2>5
    <3>2. Loading(d) \notin flight'
      BY <1>27, <2>1, <3>1, SpecOfRequests DEF AddingOf, Mine
    <3> QED
      BY <1>4, <1>11, <1>27, <2>1, <2>2, <2>5, <3>1, <3>2 DEF AddingOf
  <2> QED
    BY <2>4, <2>5
<1>28. ASSUME NEW d \in Client PROVE AddingOf(d)'
  BY <1>12, <1>27 DEF AddingOf
<1>29. ASSUME NEW d \in Client, NEW q \in Mine(flight', d), q.op = "store"
       PROVE  q.then = "add" <=> (matrix'.adding # <<>> /\ d = matrix'.adding[1])
  <2>1. CASE d = c
    BY <1>13, <1>29, <2>1 DEF HasA
  <2>2. CASE d # c /\ rest # <<>> /\ d = rest[1]
    BY <1>11, <1>14, <1>29, <2>2 DEF FirstAs
  <2>3. CASE d # c /\ (rest = <<>> \/ d # rest[1])
    <3>1. q \in Mine(flight, d) /\ AnswersOf(d)
      BY <1>15, <1>29, <2>3 DEF IInv, Good
    <3>2. q.then # "add"
      BY <1>4, <1>29, <2>3, <3>1 DEF AnswersOf
    <3> QED
      BY <1>11, <2>3, <3>2
  <2> QED
    BY <2>1, <2>2, <2>3
<1>30. ASSUME NEW q \in flight', q.op = "store", q.then = "list"
       PROVE  q \in flight /\ q.client \in Client \ {c} /\ client'[q.client] = client[q.client]
  <2>1. q.client \in Client /\ q \in Mine(flight', q.client)
    BY <1>2, <1>30 DEF AddedTo, Mine
  <2>2. q.client # c
    BY <1>13, <1>30, <2>1 DEF HasA
  <2>3. rest # <<>> => q.client # rest[1]
    BY <1>14, <1>30, <2>1, <2>2 DEF FirstAs
  <2> QED
    BY <1>15, <2>1, <2>2, <2>3 DEF Mine
<1>31. ASSUME NEW d \in Client, NEW q \in Mine(flight', d), q.op = "store", q.then = "list"
       PROVE  /\ login[d] \in matrix'.to_save /\ client'[d].use = "made"
              /\ \A p \in flight' : p.op = "store" /\ p.then = "list" /\ login[p.client] = login[d]
                                      => p = q
  <2>1. q \in flight' /\ q.client = d
    BY <1>31 DEF Mine
  <2>2. q \in Mine(flight, d) /\ client'[d] = client[d] /\ AnswersOf(d)
    BY <1>30, <1>31, <2>1 DEF Mine, IInv, Good
  <2> QED
    BY <1>11, <1>30, <1>31, <2>2 DEF AnswersOf
<1>32. ASSUME NEW d \in Client, Clearing(d) \in flight' PROVE IsListed(d)'
  <2>1. Clearing(d) \in Mine(flight', d)
    BY <1>32, SpecOfRequests DEF Mine
  <2>2. d # c /\ (rest = <<>> \/ d # rest[1])
    BY <1>13, <1>14, <2>1 DEF FirstAs
  <2>3. Clearing(d) \in flight /\ AnswersOf(d)
    BY <1>15, <2>1, <2>2 DEF Mine, IInv, Good
  <2> QED
    BY <1>12, <2>3 DEF AnswersOf
<1>33. ASSUME NEW d \in Client, client'[d].use = "made", login[d] \in DOMAIN Given
       PROVE  IsListed(d)' \/ IsAdding(d)'
  <2>1. CASE d = c
    BY <1>12, <1>13, <1>33, <2>1
  <2>2. CASE d # c /\ rest # <<>> /\ d = rest[1]
    BY <1>12, <1>14, <2>2
  <2>3. CASE d # c /\ (rest = <<>> \/ d # rest[1])
    BY <1>12, <1>15, <1>33, <2>3 DEF IInv, Good, AnswersOf
  <2> QED
    BY <2>1, <2>2, <2>3
<1>34. ASSUME NEW d \in Client PROVE AnswersOf(d)'
  BY <1>29, <1>31, <1>32, <1>33 DEF AnswersOf
<1> QED
  BY <1>22, <1>23, <1>24, <1>25, <1>26, <1>28, <1>34 DEF IInv, Good

-----------------------------------------------------------------------------
\* The logins of a set, one after the other, and new clients for them
LEMMA ClientsOfOrder ==
  ASSUME NEW S \in SUBSET Login, NEW logins \in SetToSeqs(S),
         \A l \in S : \E c \in Client : login[c] = l /\ client[c] = NoClient,
         NEW q, q = ClientsOf(logins)
  PROVE  /\ q \in Seq(Client) /\ Once(q)
         /\ \A y : In(q, y) => y \in Client /\ login[y] \in S /\ client[y] = NoClient
         /\ S # {} => q # <<>> /\ Head(q) = q[1] /\ In(q, q[1])
<1>1. IsFiniteSet(S)
  BY LoginAssumption, FS_Subset
<1>2. PICK n \in Nat : n = Cardinality(S)
  BY <1>1, FS_CardinalityType
<1>3. logins \in [1..n -> S] /\ \A i, j \in 1..n : i # j => logins[i] # logins[j]
  <2>1. logins \in {f \in [1..n -> S] : \A i, j \in 1..n : i # j => f[i] # f[j]}
    BY <1>2 DEF SetToSeqs
  <2> QED
    BY <2>1
<1>4. ASSUME NEW l \in S
      PROVE  Unused(l) \in Client /\ login[Unused(l)] = l /\ client[Unused(l)] = NoClient
  BY <1>4 DEF Unused
<1>5. q = [i \in 1..n |-> Unused(logins[i])]
  BY <1>3 DEF ClientsOf
<1>6. \A i \in 1..n : /\ q[i] \in Client /\ login[q[i]] = logins[i] /\ login[q[i]] \in S
                      /\ client[q[i]] = NoClient
  BY <1>3, <1>4, <1>5
<1>7. q \in [1..n -> Client]
  BY <1>5, <1>6
<1>8. q \in Seq(Client) /\ DOMAIN q = 1..n
  BY <1>7
<1>9. Once(q)
  BY <1>3, <1>6, <1>8 DEF Once
<1>10. \A y : In(q, y) => y \in Client /\ login[y] \in S /\ client[y] = NoClient
  BY <1>6, <1>8 DEF In
<1>11. S # {} => n # 0
  BY <1>1, <1>2, FS_EmptySet
<1>12. S # {} => q # <<>> /\ Head(q) = q[1] /\ In(q, q[1])
  BY <1>8, <1>11 DEF In
<1> QED
  BY <1>8, <1>9, <1>10, <1>12

\* A client made from a secret is what the keyring holds.
LEMMA FromSecretIs ==
  ASSUME NEW c \in Client, NEW v \in Secret
  PROVE  /\ Waits(FromSecret(v), {}, c) /\ SecretIs(FromSecret(v), v)
         /\ FromSecret(v).token = v.token
<1>1. /\ v.user \in BOOLEAN /\ v.token \in BOOLEAN /\ v.enabled \in BOOLEAN
      /\ v = [user |-> v.user, token |-> v.token, enabled |-> v.enabled]
  BY DEF Secret
<1>2. NoClient \in ClientType
  BY DEF NoClient, ClientType
<1>3. PICK u \in BOOLEAN, t \in BOOLEAN, e \in BOOLEAN :
        u = v.user /\ t = v.token /\ e = v.enabled
  BY <1>1
<1>4. PICK k : k = [NoClient EXCEPT !.use = "made", !.user = u, !.token = t, !.in_store = e]
  OBVIOUS
<1>5. k \in ClientType
  BY <1>4 DEF ClientType, NoClient
<1>6. /\ k.use = "made" /\ ~k.no_save /\ ~k.enabled /\ ~k.enc
      /\ ~k.pending_client /\ ~k.saving_client /\ ~k.saving_secret
      /\ k.user = u /\ k.token = t /\ k.in_store = e
  BY <1>4 DEF NoClient
<1>7. k = FromSecret(v)
  BY <1>3, <1>4 DEF FromSecret
<1>8. Shape(k, {}, c)
  BY <1>5, <1>6 DEF Shape, HasA
<1>9. Waits(k, {}, c)
  BY <1>6, <1>8 DEF Waits
<1>10. SecretOf(k, "nothing") = [user |-> u, token |-> t, enabled |-> e]
  BY <1>6 DEF SecretOf
<1>11. SecretIs(k, v)
  BY <1>1, <1>3, <1>10 DEF SecretIs
<1> QED
  BY <1>3, <1>6, <1>7, <1>9, <1>11

\* cm_matrix_add_clients_async() keeps the invariant.
LEMMA AddKeeps ==
  ASSUME IInv, Add
  PROVE  IInv'
<1>1. /\ matrix.db_loaded /\ matrix.adding = <<>> /\ DOMAIN Given # {}
      /\ \A l \in DOMAIN Given :
           keyring[l] = NULL /\ \E c \in Client : login[c] = l /\ client[c] = NoClient
      /\ UNCHANGED <<keyring, db>>
  BY DEF Add
<1>2. PICK logins \in SetToSeqs(DOMAIN Given) :
        LET clients == ClientsOf(logins)
        IN  /\ matrix' = [matrix EXCEPT !.adding = clients]
            /\ client' = [c \in Client |-> IF c = Head(clients) THEN AddFirst(c).k
                                           ELSE IF c \in Range(clients)
                                           THEN FromSecret(Given[login[c]]) ELSE client[c]]
            /\ flight' = flight \cup AddFirst(Head(clients)).sent
  BY DEF Add
<1>3. PICK q : q = ClientsOf(logins)
  OBVIOUS
<1>4. /\ q \in Seq(Client) /\ Once(q)
      /\ \A y : In(q, y) => y \in Client /\ login[y] \in DOMAIN Given /\ client[y] = NoClient
      /\ q # <<>> /\ Head(q) = q[1] /\ In(q, q[1])
  <2>1. DOMAIN Given \in SUBSET Login
    BY SecretsAssumption
  <2> QED
    BY <1>1, <1>3, <2>1, ClientsOfOrder
<1>5. PICK f \in Client : f = q[1] /\ f = Head(q) /\ In(q, f)
  BY <1>4
<1>6. PICK m : m = AddFirst(f)
  OBVIOUS
<1>7. /\ matrix' = [matrix EXCEPT !.adding = q]
      /\ client' = [c \in Client |-> IF c = f THEN AddFirst(c).k
                                     ELSE IF c \in Range(q)
                                     THEN FromSecret(Given[login[c]]) ELSE client[c]]
      /\ flight' = flight \cup m.sent
  BY <1>2, <1>3, <1>5, <1>6
<1>8. \A c : c \in Range(q) <=> In(q, c)
  BY DEF Range, In
<1>9. matrix \in MatrixType
  BY DEF IInv, Types
<1>10. /\ matrix' \in MatrixType /\ matrix'.db_loaded /\ matrix'.opening = matrix.opening
       /\ matrix'.adding = q /\ matrix'.to_save = matrix.to_save
       /\ matrix'.clients = matrix.clients
  BY <1>1, <1>4, <1>7, <1>9 DEF MatrixType
<1>11. ASSUME NEW c \in Client, In(q, c)
       PROVE  /\ Waits(FromSecret(Given[login[c]]), {}, c) /\ Mine(flight, c) = {}
              /\ client[c] = NoClient /\ login[c] \in DOMAIN Given
              /\ SecretIs(FromSecret(Given[login[c]]), Given[login[c]])
  <2>1. Given[login[c]] \in Secret
    BY <1>4, <1>11, SecretsAssumption
  <2>2. Mine(flight, c) = {}
    BY <1>4, <1>11 DEF IInv, Good, Shape, NoClient
  <2> QED
    BY <1>4, <1>11, <2>1, <2>2, FromSecretIs
<1>12. FirstAs(m.k, {} \cup m.sent, f) /\ \A p \in m.sent : p.client = f
  <2>1. PICK k : k = FromSecret(Given[login[f]])
    OBVIOUS
  <2>2. PICK R : R = {}
    OBVIOUS
  <2>3. Waits(k, R, f) /\ m = SaveSecrets(Only(k), f, "add")
    BY <1>5, <1>6, <1>11, <2>1, <2>2 DEF AddFirst
  <2> QED
    BY <2>2, <2>3, SaveFirst
<1>13. FirstAs(m.k, m.sent, f)
  <2>1. {} \cup m.sent = m.sent
    OBVIOUS
  <2> QED
    BY <1>12, <2>1
<1>14. client'[f] = m.k /\ Mine(flight', f) = m.sent
  <2>1. Mine(flight, f) = {}
    BY <1>5, <1>11
  <2> QED
    BY <1>6, <1>7, <1>12, <2>1 DEF Mine
<1>15. \A d \in Client \ {f} : Mine(flight', d) = Mine(flight, d)
  BY <1>7, <1>12 DEF Mine
<1>16. ASSUME NEW c \in Client, In(q, c), c # f
       PROVE  Waits(client'[c], Mine(flight', c), c)
  <2>1. client'[c] = FromSecret(Given[login[c]])
    BY <1>7, <1>8, <1>16
  <2>2. Mine(flight', c) = {}
    BY <1>11, <1>15, <1>16
  <2> QED
    BY <1>11, <1>16, <2>1, <2>2
<1>17. ASSUME NEW c \in Client, ~In(q, c)
       PROVE  client'[c] = client[c] /\ Mine(flight', c) = Mine(flight, c)
  BY <1>5, <1>7, <1>8, <1>15, <1>17
<1>18. \A d : (IsListed(d)' <=> IsListed(d)) /\ (IsAdding(d)' <=> In(q, d)) /\ ~IsAdding(d)
  BY <1>1, <1>10, InLists DEF IsAdding, IsListed
<1>19. \A d \in Client : IsListed(d) => login[d] \notin DOMAIN Given
  BY <1>1 DEF IInv, Good, ListedOf
<1>20. ASSUME NEW d \in Client, ~In(q, d)
       PROVE  Shape(client[d], Mine(flight, d), d)' /\ Known(d)'
  <2>1. PICK C \in SUBSET Client : C = {e \in Client : In(q, e)}
    OBVIOUS
  <2>2. \A e \in Client \ C : client'[e] = client[e]
    BY <1>17, <2>1
  <2>3. \A e \in C : ~client'[e].no_save /\ client'[e].use # "none"
    BY <1>13, <1>14, <1>16, <2>1 DEF FirstAs, Waits
  <2> QED
    BY <1>1, <1>17, <1>18, <1>20, <2>1, <2>2, <2>3, RestKept
<1>21. ASSUME NEW d \in Client, In(q, d)
       PROVE  Shape(client[d], Mine(flight, d), d)' /\ Known(d)'
  <2>1. CASE d = f
    BY <1>13, <1>14, <2>1 DEF FirstAs, Known
  <2>2. CASE d # f
    <3>1. Waits(client'[d], Mine(flight', d), d)
      BY <1>16, <1>21, <2>2
    <3>2. ~IsListed(d)' /\ ~HasA("store", Mine(flight', d))
      BY <1>11, <1>18, <1>19, <1>21, <3>1 DEF Waits, Shape
    <3> QED
      BY <3>1, <3>2 DEF Known, Waits
  <2> QED
    BY <2>1, <2>2
<1>22. \A d \in Client : /\ client'[d] \in ClientType
                         /\ \A r \in Mine(flight', d) : r \in RequestsOf(d)
  BY <1>20, <1>21 DEF Shape
<1>23. Types'
  <2>1. DOMAIN client' = Client /\ client' = [d \in Client |-> client'[d]]
    BY <1>7
  <2>2. client' \in [Client -> ClientType]
    BY <1>22, <2>1
  <2>3. \A r \in flight' : r.client \in Client
    BY <1>7, <1>12 DEF IInv, Types, RequestsOf
  <2>4. \A r \in flight' : \E d \in Client : r \in RequestsOf(d)
    BY <1>22, <2>3 DEF Mine
  <2> QED
    BY <1>1, <1>10, <2>2, <2>4 DEF IInv, Types
<1>24. Opening'
  BY <1>1, <1>10 DEF IInv, Opening
<1>25. Lists'
  BY <1>4, <1>10, <1>18, InLists DEF IInv, Lists, ListedOnce
<1>26. ASSUME NEW d \in Client PROVE ListedOf(d)'
  <2>1. SUFFICES ASSUME IsListed(d)
                 PROVE  /\ client'[d].use = "made" /\ ~client'[d].no_save
                        /\ keyring'[login[d]] # NULL /\ login[d] \notin matrix'.to_save
    BY <1>18 DEF ListedOf
  <2>2. ListedOf(d) /\ ~In(q, d)
    BY <1>11, <1>19, <2>1 DEF IInv, Good
  <2> QED
    BY <1>1, <1>10, <1>17, <2>1, <2>2 DEF ListedOf
<1>27. ASSUME NEW d \in Client PROVE AddingOf(d)'
  <2>1. SUFFICES ASSUME In(q, d) PROVE AddingOf(d)'
    BY <1>18 DEF AddingOf
  <2>2. /\ login[d] \in DOMAIN Given
        /\ \A e \in Client : IsListed(e)' => login[e] # login[d]
    BY <1>11, <1>18, <1>19, <2>1
  <2>3. CASE d = f
    <3>1. Loading(d) \notin flight'
      BY <1>13, <1>14, <2>3, SpecOfRequests DEF FirstAs, Mine
    <3> QED
      BY <1>5, <1>10, <1>13, <1>14, <2>2, <2>3, <3>1 DEF AddingOf, FirstAs
  <2>4. CASE d # f
    <3>1. Waits(client'[d], Mine(flight', d), d)
      BY <1>16, <2>1, <2>4
    <3>2. Loading(d) \notin flight'
      BY <3>1, SpecOfRequests DEF Waits, Mine
    <3> QED
      BY <1>5, <1>10, <2>2, <2>4, <3>1, <3>2 DEF AddingOf, Waits
  <2> QED
    BY <2>3, <2>4
<1>28. ASSUME NEW d \in Client, NEW r \in Mine(flight', d), r.op = "store"
       PROVE  r.then = "add" <=> (matrix'.adding # <<>> /\ d = matrix'.adding[1])
  <2>1. CASE d = f
    BY <1>4, <1>5, <1>10, <1>13, <1>14, <1>28, <2>1 DEF FirstAs
  <2>2. CASE d # f
    <3>1. r \in Mine(flight, d) /\ AnswersOf(d)
      BY <1>15, <1>28, <2>2 DEF IInv, Good
    <3> QED
      BY <1>1, <1>5, <1>10, <1>28, <2>2, <3>1 DEF AnswersOf
  <2> QED
    BY <2>1, <2>2
<1>29. ASSUME NEW r \in flight', r.op = "store", r.then = "list"
       PROVE  r \in flight /\ r.client \in Client /\ client'[r.client] = client[r.client]
  <2>1. r \notin m.sent
    BY <1>13, <1>29 DEF FirstAs
  <2>2. r \in flight /\ r.client \in Client
    BY <1>7, <2>1 DEF IInv, Types, RequestsOf
  <2>3. ~In(q, r.client)
    BY <1>11, <2>2 DEF Mine
  <2> QED
    BY <1>17, <2>2, <2>3
<1>30. ASSUME NEW d \in Client, NEW r \in Mine(flight', d), r.op = "store", r.then = "list"
       PROVE  /\ login[d] \in matrix'.to_save /\ client'[d].use = "made"
              /\ \A p \in flight' : p.op = "store" /\ p.then = "list" /\ login[p.client] = login[d]
                                      => p = r
  <2>1. r \in flight' /\ r.client = d
    BY <1>30 DEF Mine
  <2>2. r \in Mine(flight, d) /\ client'[d] = client[d] /\ AnswersOf(d)
    BY <1>29, <1>30, <2>1 DEF Mine, IInv, Good
  <2> QED
    BY <1>10, <1>29, <1>30, <2>2 DEF AnswersOf
<1>31. ASSUME NEW d \in Client, Clearing(d) \in flight' PROVE IsListed(d)'
  <2>1. Clearing(d) \in Mine(flight', d)
    BY <1>31, SpecOfRequests DEF Mine
  <2>2. d # f
    BY <1>13, <1>14, <2>1 DEF FirstAs
  <2>3. Clearing(d) \in flight /\ AnswersOf(d)
    BY <1>15, <2>1, <2>2 DEF Mine, IInv, Good
  <2> QED
    BY <1>18, <2>3 DEF AnswersOf
<1>32. ASSUME NEW d \in Client, client'[d].use = "made", login[d] \in DOMAIN Given
       PROVE  IsListed(d)' \/ IsAdding(d)'
  BY <1>17, <1>18, <1>32 DEF IInv, Good, AnswersOf
<1>33. ASSUME NEW d \in Client PROVE AnswersOf(d)'
  BY <1>28, <1>30, <1>31, <1>32 DEF AnswersOf
<1> QED
  BY <1>20, <1>21, <1>23, <1>24, <1>25, <1>26, <1>27, <1>33 DEF IInv, Good

-----------------------------------------------------------------------------

\* A step to a program that has made no client leads to the invariant.
LEMMA EmptyKeeps ==
  ASSUME matrix' \in MatrixType, ~matrix'.db_loaded,
         matrix'.opening = "db" => matrix'.accounts = keyring',
         matrix'.clients = <<>>, matrix'.adding = <<>>, matrix'.to_save = {},
         client' = [c \in Client |-> NoClient], flight' = {},
         keyring' \in [Login -> Secret \cup {NULL}], db' \in [Login -> Account \cup {NULL}]
  PROVE  IInv'
<1>1. NoClient \in ClientType
  BY DEF NoClient, ClientType
<1>2. Types' /\ Opening' /\ Lists'
  BY <1>1 DEF Types, Opening, Lists, ListedOnce
<1>3. ASSUME NEW c \in Client PROVE Good(c)'
  <2>1. client'[c] = NoClient /\ Mine(flight', c) = {} /\ ~IsListed(c)' /\ ~IsAdding(c)'
    BY DEF Mine, IsListed, IsAdding
  <2>2. Shape(client[c], Mine(flight, c), c)'
    BY <1>1, <2>1 DEF Shape, HasA, NoClient
  <2>3. Known(c)' /\ ListedOf(c)' /\ AddingOf(c)'
    BY <2>1 DEF Known, ListedOf, AddingOf, HasA, NoClient
  <2>4. AnswersOf(c)'
    BY <2>1 DEF AnswersOf, NoClient
  <2> QED
    BY <2>2, <2>3, <2>4 DEF Good
<1> QED
  BY <1>2, <1>3 DEF IInv

\* A step before the database is open that makes no client keeps the invariant.
LEMMA FreshKeeps ==
  ASSUME IInv, ~matrix.db_loaded, matrix' \in MatrixType, ~matrix'.db_loaded,
         matrix'.opening = "db" => matrix'.accounts = keyring,
         matrix'.clients = <<>>, matrix'.adding = <<>>, matrix'.to_save = {},
         UNCHANGED <<client, flight, keyring, db>>
  PROVE  IInv'
BY EmptyKeeps DEF IInv, Opening, Types

\* A program that has made no client.
LEMMA EmptyIsGood ==
  ASSUME matrix \in MatrixType, ~matrix.db_loaded, matrix.opening = "no",
         matrix.clients = <<>>, matrix.adding = <<>>, matrix.to_save = {},
         client = [c \in Client |-> NoClient], flight = {},
         keyring \in [Login -> Secret \cup {NULL}], db \in [Login -> Account \cup {NULL}]
  PROVE  IInv
<1>1. NoClient \in ClientType
  BY DEF NoClient, ClientType
<1>2. Types /\ Opening /\ Lists
  BY <1>1 DEF Types, Opening, Lists, ListedOnce
<1>3. ASSUME NEW c \in Client PROVE Good(c)
  <2>1. client[c] = NoClient /\ Mine(flight, c) = {} /\ ~IsListed(c) /\ ~IsAdding(c)
    BY DEF Mine, IsListed, IsAdding
  <2>2. Shape(client[c], Mine(flight, c), c)
    BY <1>1, <2>1 DEF Shape, HasA, NoClient
  <2>3. Known(c) /\ ListedOf(c) /\ AddingOf(c)
    BY <2>1 DEF Known, ListedOf, AddingOf, HasA, NoClient
  <2>4. AnswersOf(c)
    BY <2>1 DEF AnswersOf, NoClient
  <2> QED
    BY <2>2, <2>3, <2>4 DEF Good
<1> QED
  BY <1>2, <1>3 DEF IInv

\* CmMatrix when the program starts.
LEMMA NoMatrixIs ==
  ASSUME NEW starts \in Nat, NEW changes \in Nat
  PROVE  /\ NoMatrix(starts, changes) \in MatrixType
         /\ ~NoMatrix(starts, changes).db_loaded /\ NoMatrix(starts, changes).opening = "no"
         /\ NoMatrix(starts, changes).clients = <<>> /\ NoMatrix(starts, changes).adding = <<>>
         /\ NoMatrix(starts, changes).to_save = {}
<1>1. <<>> \in Seq(Client)
  OBVIOUS
<1> QED
  BY <1>1 DEF NoMatrix, MatrixType

\* The invariant holds at first.
LEMMA InitIsGood ==
  ASSUME Init
  PROVE  IInv
<1>1. keyring \in [Login -> Secret \cup {NULL}]
  BY SecretsAssumption DEF Init
<1>2. db \in [Login -> Account \cup {NULL}]
  BY DEF Init, Account
<1>3. matrix = NoMatrix(1, 0)
  BY DEF Init
<1> QED
  BY <1>1, <1>2, <1>3, NoMatrixIs, EmptyIsGood DEF Init

\* A restart keeps the invariant.
LEMMA RestartKeeps ==
  ASSUME IInv, Restart
  PROVE  IInv'
<1>1. PICK starts \in Nat, changes \in Nat : matrix' = NoMatrix(starts, changes)
  <2>1. matrix.starts \in Nat /\ matrix.changes \in Nat
    BY DEF IInv, Types, MatrixType
  <2>2. matrix.starts + 1 \in Nat
    BY <2>1
  <2> QED
    BY <2>1, <2>2 DEF Restart
<1>2. /\ matrix' \in MatrixType /\ ~matrix'.db_loaded /\ matrix'.opening = "no"
      /\ matrix'.clients = <<>> /\ matrix'.adding = <<>> /\ matrix'.to_save = {}
  BY <1>1, NoMatrixIs
<1>3. keyring' = keyring /\ db' = db /\ flight' = {} /\ client' = [c \in Client |-> NoClient]
  BY DEF Restart
<1> QED
  BY <1>2, <1>3, EmptyKeeps DEF IInv, Types

\* cm_matrix_open_async() keeps the invariant.
LEMMA OpenKeeps ==
  ASSUME IInv, Open
  PROVE  IInv'
<1>1. /\ ~matrix.db_loaded /\ matrix' = [matrix EXCEPT !.opening = "secrets"]
      /\ UNCHANGED <<client, flight, keyring, db>>
  BY DEF Open, cm_matrix_is_ready, IInv, Types, MatrixType
<1>2. matrix \in MatrixType
  BY DEF IInv, Types
<1>3. matrix' \in MatrixType
  BY <1>1, <1>2 DEF MatrixType
<1>4. /\ matrix'.opening = "secrets" /\ matrix'.db_loaded = matrix.db_loaded
      /\ matrix'.clients = matrix.clients /\ matrix'.adding = matrix.adding
      /\ matrix'.to_save = matrix.to_save
  BY <1>1, <1>2 DEF MatrixType
<1> QED
  BY <1>1, <1>3, <1>4, FreshKeeps DEF IInv, Opening

\* matrix_store_load_cb() keeps the invariant.
LEMMA SecretsLoadedKeeps ==
  ASSUME IInv, NEW ok \in BOOLEAN, SecretsLoaded(ok)
  PROVE  IInv'
<1>1. /\ ~matrix.db_loaded /\ matrix \in MatrixType
      /\ keyring \in [Login -> Secret \cup {NULL}]
      /\ UNCHANGED <<client, flight, keyring, db>>
  BY DEF SecretsLoaded, IInv, Types, Opening
<1>2. CASE ok
  <2>1. matrix' = [matrix EXCEPT !.opening = "db", !.secrets_loaded = TRUE,
                                 !.accounts = keyring]
    BY <1>2 DEF SecretsLoaded
  <2>2. matrix' \in MatrixType
    BY <1>1, <2>1 DEF MatrixType
  <2>3. /\ matrix'.accounts = keyring /\ matrix'.db_loaded = matrix.db_loaded
        /\ matrix'.clients = matrix.clients /\ matrix'.adding = matrix.adding
        /\ matrix'.to_save = matrix.to_save
    BY <1>1, <2>1 DEF MatrixType
  <2> QED
    BY <1>1, <2>2, <2>3, FreshKeeps DEF IInv, Opening
<1>3. CASE ~ok
  <2>1. matrix' = [matrix EXCEPT !.opening = "no"]
    BY <1>3 DEF SecretsLoaded
  <2>2. matrix' \in MatrixType
    BY <1>1, <2>1 DEF MatrixType
  <2>3. /\ matrix'.opening = "no" /\ matrix'.db_loaded = matrix.db_loaded
        /\ matrix'.clients = matrix.clients /\ matrix'.adding = matrix.adding
        /\ matrix'.to_save = matrix.to_save
    BY <1>1, <2>1 DEF MatrixType
  <2> QED
    BY <1>1, <2>2, <2>3, FreshKeeps DEF IInv, Opening
<1> QED
  BY <1>2, <1>3

\* A client that is read from the keyring is what the keyring holds.
LEMMA LoadAccountIs ==
  ASSUME IInv, NEW c \in Client, NEW v \in Secret, matrix.accounts[login[c]] = v,
         NEW s, s = LoadAccount(c)
  PROVE  /\ Shape(s.k, s.sent, c) /\ s.k.use = "made" /\ ~s.k.no_save /\ ~s.k.enc
         /\ SecretIs(s.k, v) /\ \A r \in s.sent : r = Loading(c)
<1>1. PICK k : k = FromSecret(v)
  OBVIOUS
<1>2. Waits(k, {}, c) /\ SecretIs(k, v)
  BY <1>1, FromSecretIs
<1>3. /\ Shape(k, {}, c) /\ k \in ClientType /\ k.use = "made" /\ ~k.no_save /\ ~k.enabled
      /\ ~k.enc /\ ~k.pending_client /\ ~k.saving_client /\ ~k.saving_secret
  BY <1>2 DEF Waits, Shape
<1>4. s = EnableAsInStore(Only(k), c)
  BY <1>1 DEF LoadAccount
<1>5. Only(k).k = k /\ Only(k).sent = {}
  BY DEF Only
<1>6. CASE ~k.in_store
  <2>1. s = Only(k)
    BY <1>4, <1>5, <1>6 DEF EnableAsInStore
  <2> QED
    BY <1>2, <1>3, <1>5, <2>1
<1>7. CASE k.in_store
  <2>1. PICK m : m = [k EXCEPT !.enabled = TRUE, !.in_store = FALSE]
    OBVIOUS
  <2>2. m \in ClientType /\ m.enabled /\ ~m.in_store
    BY <1>3, <2>1 DEF ClientType
  <2>3. /\ m.use = k.use /\ m.no_save = k.no_save /\ m.user = k.user /\ m.token = k.token
        /\ m.enc = k.enc
        /\ m.saving_client = k.saving_client /\ m.pending_client = k.pending_client
        /\ m.saving_secret = k.saving_secret
    BY <1>3, <2>1 DEF ClientType
  <2>4. PICK S : S = IF k.token THEN {Loading(c)} ELSE {}
    OBVIOUS
  <2>5. s.k = m /\ s.sent = S
    <3>1. s = [k |-> m, sent |-> {} \cup S]
      BY <1>4, <1>5, <1>7, <2>1, <2>4 DEF EnableAsInStore
    <3> QED
      BY <3>1
  <2>6. Loading(c) \in RequestsOf(c) /\ Loading(c).op = "load"
    BY SpecOfRequests
  <2>7. ~HasA("save", S) /\ ~HasA("store", S)
    BY <2>4, <2>6 DEF HasA
  <2>8. Shape(m, S, c)
    BY <1>3, <2>2, <2>3, <2>4, <2>6, <2>7 DEF Shape
  <2>9. SecretIs(m, v)
    BY <1>2, <1>7, <2>2, <2>3 DEF SecretIs, SecretOf
  <2> QED
    BY <1>3, <2>3, <2>4, <2>5, <2>8, <2>9
<1> QED
  BY <1>3, <1>6, <1>7 DEF ClientType

\* db_open_cb() keeps the invariant.
LEMMA DbOpenedKeeps ==
  ASSUME IInv, NEW ok \in BOOLEAN, DbOpened(ok)
  PROVE  IInv'
<1>1. /\ matrix.opening = "db" /\ ~matrix.db_loaded /\ matrix \in MatrixType
      /\ matrix.accounts = keyring /\ matrix.clients = <<>> /\ matrix.adding = <<>>
      /\ matrix.to_save = {} /\ flight = {} /\ client = [c \in Client |-> NoClient]
      /\ keyring \in [Login -> Secret \cup {NULL}] /\ db \in [Login -> Account \cup {NULL}]
      /\ UNCHANGED <<keyring, db>>
  BY DEF DbOpened, IInv, Opening, Types
<1>2. CASE ~ok
  <2>1. matrix' = [matrix EXCEPT !.opening = "no"] /\ UNCHANGED <<client, flight>>
    BY <1>2 DEF DbOpened
  <2>2. matrix' \in MatrixType
    BY <1>1, <2>1 DEF MatrixType
  <2>3. /\ matrix'.opening = "no" /\ matrix'.db_loaded = matrix.db_loaded
        /\ matrix'.clients = matrix.clients /\ matrix'.adding = matrix.adding
        /\ matrix'.to_save = matrix.to_save
    BY <1>1, <2>1 DEF MatrixType
  <2> QED
    BY <1>1, <2>1, <2>2, <2>3, FreshKeeps
<1>3. CASE ok
  <2> DEFINE L == {l \in Login : matrix.accounts[l] # NULL}
  <2>1. PICK logins \in SetToSeqs(L) :
          LET clients == ClientsOf(logins)
          IN  /\ matrix' = [matrix EXCEPT !.opening = "no", !.db_loaded = TRUE,
                                          !.clients = matrix.clients \o clients]
              /\ client' = [c \in Client |-> IF c \in Range(clients) THEN LoadAccount(c).k
                                             ELSE client[c]]
              /\ flight' = flight \cup UNION {LoadAccount(c).sent : c \in Range(clients)}
    BY <1>3 DEF DbOpened
  <2>2. PICK q : q = ClientsOf(logins)
    OBVIOUS
  <2>3. /\ q \in Seq(Client) /\ Once(q)
        /\ \A y : In(q, y) => y \in Client /\ login[y] \in L /\ client[y] = NoClient
    <3>1. \A l \in L : \E c \in Client : login[c] = l /\ client[c] = NoClient
      BY <1>1, LoginAssumption
    <3> QED
      BY <2>2, <3>1, ClientsOfOrder
  <2>4. \A c : c \in Range(q) <=> In(q, c)
    BY DEF Range, In
  <2>5. matrix.clients \o q = q
    BY <1>1, <2>3
  <2>6. /\ matrix' = [matrix EXCEPT !.opening = "no", !.db_loaded = TRUE, !.clients = q]
        /\ client' = [c \in Client |-> IF In(q, c) THEN LoadAccount(c).k ELSE client[c]]
        /\ flight' = UNION {LoadAccount(c).sent : c \in {d \in Client : In(q, d)}}
    <3>1. Range(q) = {d \in Client : In(q, d)}
      BY <2>3, <2>4
    <3> QED
      BY <1>1, <2>1, <2>2, <2>4, <2>5, <3>1
  <2>7. /\ matrix' \in MatrixType /\ matrix'.opening = "no" /\ matrix'.db_loaded
        /\ matrix'.clients = q /\ matrix'.adding = <<>> /\ matrix'.to_save = {}
    BY <1>1, <2>3, <2>6 DEF MatrixType
  <2>8. \A d : (IsListed(d)' <=> In(q, d)) /\ ~IsAdding(d)'
    BY <2>7, InLists DEF IsAdding
  <2>9. ASSUME NEW c \in Client, In(q, c)
        PROVE  /\ keyring[login[c]] \in Secret
               /\ Shape(LoadAccount(c).k, LoadAccount(c).sent, c)
               /\ LoadAccount(c).k.use = "made" /\ ~LoadAccount(c).k.no_save
               /\ ~LoadAccount(c).k.enc /\ SecretIs(LoadAccount(c).k, keyring[login[c]])
               /\ \A r \in LoadAccount(c).sent : r = Loading(c)
    <3>1. keyring[login[c]] \in Secret
      BY <1>1, <2>3, <2>9
    <3> QED
      BY <1>1, <3>1, LoadAccountIs
  <2>10. ASSUME NEW r \in flight'
         PROVE  \E c \in Client : In(q, c) /\ r = Loading(c) /\ r \in LoadAccount(c).sent
    BY <2>6, <2>9
  <2>11. ASSUME NEW c \in Client
         PROVE  Mine(flight', c) = IF In(q, c) THEN LoadAccount(c).sent ELSE {}
    <3>1. ASSUME NEW r \in Mine(flight', c) PROVE In(q, c) /\ r \in LoadAccount(c).sent
      BY <2>10, <3>1, SpecOfRequests DEF Mine
    <3>2. ASSUME In(q, c), NEW r \in LoadAccount(c).sent PROVE r \in Mine(flight', c)
      BY <2>6, <2>9, <3>2, SpecOfRequests DEF Mine
    <3> QED
      BY <3>1, <3>2
  <2>12. ASSUME NEW c \in Client
         PROVE  client'[c] = IF In(q, c) THEN LoadAccount(c).k ELSE NoClient
    BY <1>1, <2>6
  <2>13. NoClient \in ClientType /\ Shape(NoClient, {}, NULL)
    BY DEF NoClient, ClientType, Shape, HasA
  <2>14. ASSUME NEW c \in Client
         PROVE  Shape(client[c], Mine(flight, c), c)'
    <3>1. CASE In(q, c)
      BY <2>9, <2>11, <2>12, <3>1
    <3>2. CASE ~In(q, c)
      <4>1. client'[c] = NoClient /\ Mine(flight', c) = {}
        BY <2>11, <2>12, <3>2
      <4> QED
        BY <2>13, <4>1 DEF Shape, HasA, NoClient
    <3> QED
      BY <3>1, <3>2
  <2>15. Types'
    <3>1. client' \in [Client -> ClientType]
      <4>1. \A c \in Client : client'[c] \in ClientType
        BY <2>14 DEF Shape
      <4> QED
        BY <2>6, <2>12, <4>1
    <3>2. \A r \in flight' : \E c \in Client : r \in RequestsOf(c)
      BY <2>10, SpecOfRequests
    <3> QED
      BY <1>1, <2>7, <3>1, <3>2 DEF Types
  <2>16. Opening'
    BY <2>7 DEF Opening
  <2>17. Lists'
    BY <2>3, <2>7, InLists DEF Lists
  <2>18. ASSUME NEW c \in Client PROVE Known(c)' /\ ListedOf(c)' /\ AddingOf(c)' /\ AnswersOf(c)'
    <3>1. CASE In(q, c)
      <4>1. /\ client'[c].use = "made" /\ ~client'[c].no_save /\ ~client'[c].enc
            /\ SecretIs(client'[c], keyring[login[c]]) /\ keyring[login[c]] \in Secret
            /\ \A r \in Mine(flight', c) : r.op = "load"
        BY <2>9, <2>11, <2>12, <3>1, SpecOfRequests
      <4>2. SecretNow(client'[c], Mine(flight', c), keyring'[login[c]])
        BY <1>1, <4>1 DEF SecretNow, HasA
      <4>3. Clearing(c) \notin flight'
        BY <4>1, SpecOfRequests DEF Mine
      <4> QED
        BY <1>1, <2>7, <2>8, <3>1, <4>1, <4>2, <4>3, SecretsAssumption
           DEF Known, ListedOf, AddingOf, AnswersOf
    <3>2. CASE ~In(q, c)
      <4>1. client'[c] = NoClient /\ Mine(flight', c) = {}
        BY <2>11, <2>12, <3>2
      <4>2. Clearing(c) \notin flight'
        BY <4>1, SpecOfRequests DEF Mine
      <4> QED
        BY <2>8, <3>2, <4>1, <4>2 DEF Known, ListedOf, AddingOf, AnswersOf, HasA, NoClient
    <3> QED
      BY <3>1, <3>2
  <2> QED
    BY <2>14, <2>15, <2>16, <2>17, <2>18 DEF IInv, Good
<1> QED
  BY <1>2, <1>3

\* Nothing happens.
LEMMA NothingKeeps ==
  ASSUME IInv, UNCHANGED vars
  PROVE  IInv'
<1>1. /\ matrix' = matrix /\ client' = client /\ flight' = flight
      /\ keyring' = keyring /\ db' = db
  BY DEF vars
<1>2. Types' /\ Opening' /\ Lists'
  BY <1>1 DEF IInv, Types, Opening, Lists, ListedOnce
<1>3. ASSUME NEW c \in Client PROVE Good(c)'
  <2>1. /\ Alone(c)' <=> Alone(c)
        /\ \A d : (IsListed(d)' <=> IsListed(d)) /\ (IsAdding(d)' <=> IsAdding(d))
    BY <1>1 DEF Alone, IsListed, IsAdding
  <2>2. Shape(client[c], Mine(flight, c), c)' /\ Known(c)'
    BY <1>1, <2>1 DEF IInv, Good, Shape, Known
  <2>3. ListedOf(c)' /\ AddingOf(c)'
    BY <1>1, <2>1 DEF IInv, Good, ListedOf, AddingOf
  <2>4. AnswersOf(c)'
    BY <1>1, <2>1 DEF IInv, Good, AnswersOf
  <2> QED
    BY <2>2, <2>3, <2>4 DEF Good
<1> QED
  BY <1>2, <1>3 DEF IInv

\* Every step keeps the invariant.
LEMMA StepKeeps ==
  ASSUME ~EarlyClients, IInv, [Next]_vars
  PROVE  IInv'
<1>1. CASE UNCHANGED vars
  BY <1>1, NothingKeeps
<1>2. CASE Open
  BY <1>2, OpenKeeps
<1>3. ASSUME NEW ok \in BOOLEAN, SecretsLoaded(ok) PROVE IInv'
  BY <1>3, SecretsLoadedKeeps
<1>4. ASSUME NEW ok \in BOOLEAN, DbOpened(ok) PROVE IInv'
  BY <1>4, DbOpenedKeeps
<1>5. ASSUME NEW c \in Client, New(c) PROVE IInv'
  BY <1>5, NewKeeps
<1>6. ASSUME NEW c \in Client, SetEnabled(c) PROVE IInv'
  BY <1>6, SetEnabledKeeps
<1>7. ASSUME NEW c \in Client, Loaded(c) PROVE IInv'
  BY <1>7, LoadedKeeps
<1>8. ASSUME NEW c \in Client, LoginDone(c) PROVE IInv'
  BY <1>8, LoginDoneKeeps
<1>9. ASSUME NEW c \in Client, SyncDone(c) PROVE IInv'
  BY <1>9, SyncDoneKeeps
<1>10. ASSUME NEW c \in Client, SaveClient(c) PROVE IInv'
  BY <1>10, SaveClientKeeps
<1>11. ASSUME NEW c \in Client, Delete(c) PROVE IInv'
  BY <1>11, DeleteKeeps
<1>12. CASE Add
  BY <1>12, AddKeeps
<1>13. ASSUME NEW c \in Client, NEW ok \in BOOLEAN, Saved(c, ok) PROVE IInv'
  BY <1>13, SavedKeeps
<1>14. ASSUME NEW c \in Client, NEW ok \in BOOLEAN, Kept(c, ok) PROVE IInv'
  BY <1>14, KeptKeeps
<1>15. ASSUME NEW c \in Client, NEW ok \in BOOLEAN, Listed(c, ok) PROVE IInv'
  BY <1>15, ListedKeeps
<1>16. ASSUME NEW c \in Client, NEW ok \in BOOLEAN, Added(c, ok) PROVE IInv'
  BY <1>16, AddedKeeps
<1>17. ASSUME NEW c \in Client, NEW ok \in BOOLEAN, Deleted(c, ok) PROVE IInv'
  BY <1>17, DeletedKeeps
<1>18. CASE Restart
  BY <1>18, RestartKeeps
<1> QED
  BY <1>1, <1>2, <1>3, <1>4, <1>5, <1>6, <1>7, <1>8, <1>9, <1>10, <1>11, <1>12, <1>13, <1>14,
     <1>15, <1>16, <1>17, <1>18 DEF Next

\* The invariant holds in every state that is reached.
LEMMA Reached ==
  ASSUME ~EarlyClients
  PROVE  Spec => []IInv
<1>1. Init => IInv
  BY InitIsGood
<1>2. IInv /\ [Next]_vars => IInv'
  BY StepKeeps
<1> QED
  BY <1>1, <1>2, PTL DEF Spec

-----------------------------------------------------------------------------

\* The requests of a kind for a client: none, or the one.
LEMMA InFlightIs ==
  ASSUME NEW c, Shape(client[c], Mine(flight, c), c), NEW op
  PROVE  /\ HasA(op, Mine(flight, c)) <=> InFlight(op, c) # {}
         /\ Cardinality(InFlight(op, c)) = IF HasA(op, Mine(flight, c)) THEN 1 ELSE 0
         /\ \A r \in Mine(flight, c) : r.op = op => InFlight(op, c) = {r}
<1> DEFINE F == InFlight(op, c)
<1>1. F = {r \in Mine(flight, c) : r.op = op}
  BY DEF InFlight, Mine
<1>2. \A r \in Mine(flight, c) : r.op = op => F = {r}
  BY <1>1 DEF Shape
<1>3. HasA(op, Mine(flight, c)) <=> F # {}
  BY <1>1 DEF HasA
<1> HIDE DEF F
<1>4. CASE F = {}
  <2>1. Cardinality(F) = 0
    BY <1>4, FS_EmptySet
  <2> QED
    BY <1>2, <1>3, <1>4, <2>1 DEF F
<1>5. CASE F # {}
  <2>1. PICK r : F = {r}
    BY <1>2, <1>3, <1>5 DEF HasA
  <2>2. Cardinality(F) = 1
    BY <2>1, FS_Singleton
  <2> QED
    BY <1>2, <1>3, <1>5, <2>2 DEF F
<1> QED
  BY <1>4, <1>5

\* The invariant has the types.
LEMMA GoodIsTyped ==
  ASSUME IInv
  PROVE  TypeOK
<1>1. /\ matrix.opening \in {"no", "secrets", "db"}
      /\ \A l \in Login : keyring[l] \in Secret \cup {NULL}
  BY DEF IInv, Types, MatrixType
<1>2. \A l \in Login : db[l] # NULL => db[l].pickle \in BOOLEAN /\ db[l].batch \in Nat
  <2>1. \A l \in Login : db[l] \in Account \cup {NULL}
    BY DEF IInv, Types
  <2> QED
    BY <2>1 DEF Account
<1>3. ASSUME NEW c \in Client
      PROVE  /\ Cardinality(InFlight("save", c)) = IF client[c].saving_client THEN 1 ELSE 0
             /\ Cardinality(InFlight("store", c)) = IF client[c].saving_secret THEN 1 ELSE 0
  <2>1. Shape(client[c], Mine(flight, c), c)
    BY DEF IInv, Good
  <2> QED
    BY <2>1, InFlightIs DEF Shape
<1>4. \A c : c \in Range(matrix.clients) \cup Range(matrix.adding) =>
        c \in Client /\ client[c].use = "made"
  <2>1. \A c : IsListed(c) \/ IsAdding(c) => c \in Client
    BY DEF IsListed, IsAdding, IInv, Types, MatrixType
  <2> QED
    BY <2>1, ListedIs DEF IInv, Good, ListedOf, AddingOf
<1> QED
  BY <1>1, <1>2, <1>3, <1>4 DEF TypeOK

\* The invariant has what is known of the clients in the list.
LEMMA GoodIsPending ==
  ASSUME IInv, ~EarlyChanges
  PROVE  ChangesArePending
<1>1. SUFFICES ASSUME NEW c \in Range(matrix.clients), Alone(c)
               PROVE  /\ client[c].enc =>
                           \/ client[c].pending_client
                           \/ Latest("save", c, db[login[c]]) = AccountOf(client[c])
                      /\ \/ client[c].pending_secret
                         \/ SecretIs(client[c], Latest("store", c, keyring[login[c]]))
  BY DEF ChangesArePending, SecretIs
<1>2. c \in Client /\ IsListed(c)
  <2>1. IsListed(c)
    BY <1>1, ListedIs
  <2>2. \A d : IsListed(d) => d \in Client
    BY DEF IsListed, IInv, Types, MatrixType
  <2> QED
    BY <2>1, <2>2
<1> DEFINE k == client[c]
           Q == Mine(flight, c)
<1>3. Shape(k, Q, c) /\ Known(c) /\ ~k.no_save
  BY <1>2 DEF IInv, Good, ListedOf
<1>4. ASSUME NEW op, NEW w
      PROVE  /\ \A r \in Q : r.op = op => Latest(op, c, w) = r.value
             /\ ~HasA(op, Q) => Latest(op, c, w) = w
  <2>1. /\ HasA(op, Q) <=> InFlight(op, c) # {}
        /\ \A r \in Q : r.op = op => InFlight(op, c) = {r}
    BY <1>3, InFlightIs
  <2>2. ~HasA(op, Q) => Latest(op, c, w) = w
    BY <2>1 DEF Latest
  <2>3. ASSUME NEW r \in Q, r.op = op PROVE Latest(op, c, w) = r.value
    <3>1. InFlight(op, c) = {r}
      BY <2>1, <2>3
    <3>2. (CHOOSE x \in InFlight(op, c) : TRUE) = r
      BY <3>1
    <3> QED
      BY <3>1, <3>2 DEF Latest
  <2> QED
    BY <2>2, <2>3
<1>5. k.enc /\ ~EarlyChanges => AccountNow(k, Q, db[login[c]])
  BY <1>1, <1>3 DEF Known
<1>6. SecretNow(k, Q, keyring[login[c]])
  BY <1>1, <1>2, <1>3 DEF Known
<1> QED
  BY <1>4, <1>5, <1>6 DEF AccountNow, SecretNow

\* In every state the variables have their types, and the flags saving_client and
\* saving_secret of a client stand for the one request of each kind that is on its way
\* (src/src/cm-client.c: cm_client_save(), db_save_cb(), save_secrets_cb()).
THEOREM MatrixTyped ==
  ASSUME ~EarlyClients
  PROVE  Spec => []TypeOK
BY Reached, GoodIsTyped, PTL

\* In every state a login has at most one client in the list, however clients are read
\* from the keyring, added, saved, refused and deleted (src/src/cm-matrix.c:
\* matrix_has_client(), matrix_save_client_cb(), matrix_save_client()).
THEOREM ListedStayOnce ==
  ASSUME ~EarlyClients
  PROVE  Spec => []ListedOnce
<1>1. IInv => ListedOnce
  BY DEF IInv, Lists
<1> QED
  BY <1>1, Reached, PTL

\* In every state, what changed of a client in the list has been written, is being
\* written, or is marked as to be written: no interleaving of changes with the answers of
\* the keyring and the database loses one (src/src/cm-client.c: client_mark_for_save(),
\* cm_client_save(), db_save_cb(), save_secrets_cb()).
THEOREM ChangesStayPending ==
  ASSUME ~EarlyChanges, ~EarlyClients
  PROVE  Spec => []ChangesArePending
BY Reached, GoodIsPending, PTL

===============================================================================
