------------------------------- MODULE SignIn -------------------------------
(***************************************************************************)
(* Accounts and who gets in: the login throttle, OAuth admission and       *)
(* account matching, the dev account, sessions, stored provider keys, and  *)
(* the provisioning command, which is a process of its own.                *)
(*                                                                         *)
(* The handlers are coroutines that do not yield between their calls to    *)
(* the database: only the command comes in between (loop).  PUT /api/keys  *)
(* reads its user in a dependency, which runs in the thread pool, before   *)
(* the handler is scheduled (puts).                                        *)
(***************************************************************************)
EXTENDS FiniteSets, Naturals

CONSTANTS
  Ids,              \* account ids (uuids)
  Emails, Lower,    \* spellings of addresses, and each one's lower-case spelling
  DevEmail,         \* DEV_EMAIL
  Providers, Subs,  \* OAuth providers and their ids of people
  X,                \* the provider whose addresses are handles as people spell them
  Words, NoWord,    \* passwords
  Secrets,          \* values of the key that encrypts the blobs and signs sessions
  Slots,            \* who there are provider keys for
  Policies,         \* environments the server is started with
  Tabs, Ips,
  MAX_ATTEMPTS, WINDOW, KEYS_LIMIT, SESSION_TTL,
  Serial,           \* whether one PUT of keys is under way at a time
  MaxTime, MaxEdits \* bounds: the clock, what people do

Environment == [open: BOOLEAN, allowed: SUBSET Emails, admins: SUBSET Emails,
                dev: BOOLEAN, secret: Secrets]

ASSUME SignInAssumption ==
  /\ Lower \in [Emails -> Emails] /\ \A e \in Emails : Lower[Lower[e]] = Lower[e]
  /\ DevEmail \in Emails /\ Lower[DevEmail] = DevEmail
  /\ "local" \notin Providers /\ "none" \notin Secrets /\ "plain" \notin Secrets
  /\ Policies \subseteq Environment /\ Policies # {}
  /\ MAX_ATTEMPTS \in Nat /\ WINDOW \in Nat /\ KEYS_LIMIT \in Nat /\ SESSION_TTL \in Nat
  /\ MaxTime \in Nat /\ MaxEdits \in Nat

VARIABLES
  accounts, \* the users table
  policy,   \* the environment
  cookies,  \* each tab's session
  attempts, \* _login_attempts: per key, the attempts remembered
  let,      \* per key, the attempts that were let through to the password (a ghost)
  restarts, \* when the server was restarted (a ghost)
  joined,   \* accounts OAuth created while nothing was configured (a ghost)
  loop,     \* the handler the event loop is in
  puts,     \* keys requests whose user has been read
  now, edits

throttle == <<attempts, let, restarts>>
flight == <<loop, puts>>
vars == <<accounts, policy, cookies, throttle, joined, flight, now, edits>>

None == [email |-> "none"]
Idle == [op |-> "idle"]
SignedOut == [id |-> "none"]

Logins == [provider: Providers \cup {"local"}, sub: Subs \cup {"admin", "dev"}]
Blobs == [by: Secrets \cup {"none", "plain"}, keys: SUBSET Slots]
NoBlob == [by |-> "none", keys |-> {}]
Account == [email: Emails, login: Logins, admin: BOOLEAN, word: Words \cup {NoWord},
            weak: BOOLEAN, blob: Blobs]

Keys == ({"ip"} \X Ips) \cup ({"email"} \X Emails)
Attempt == [n: 0 .. MaxEdits, at: 0 .. MaxTime]

\* Who asks for the dev account when the server starts.
Startup == "startup"

\* Rows, cookies, attempts and requests have a valid shape.
TypeOK ==
  /\ accounts \in [Ids -> Account \cup {None}]
  /\ policy \in Policies
  /\ cookies \in [Tabs -> [id: Ids, exp: Nat, secret: Secrets] \cup {SignedOut}]
  /\ attempts \in [Keys -> SUBSET Attempt] /\ let \in [Keys -> SUBSET Attempt]
  /\ restarts \subseteq Attempt
  /\ joined \subseteq Ids
  /\ loop \in {Idle}
       \cup [op: {"upsert"}, tab: Tabs, login: Logins, email: Emails, admin: BOOLEAN]
       \cup [op: {"rehash"}, tab: Tabs, id: Ids, word: Words]
       \cup [op: {"find", "add"}, tab: Tabs \cup {Startup}]
  /\ puts \in [Tabs -> [op: {"put"}, id: Ids, keys: SUBSET Slots] \cup {Idle}]
  /\ now \in 0 .. MaxTime /\ edits \in 0 .. MaxEdits

users == {i \in Ids : accounts[i] # None}

Init ==
  /\ accounts = [i \in Ids |-> None]
  /\ policy \in Policies /\ ~policy.dev
  /\ cookies = [t \in Tabs |-> SignedOut]
  /\ attempts = [k \in Keys |-> {}] /\ let = [k \in Keys |-> {}] /\ restarts = {}
  /\ joined = {}
  /\ loop = Idle /\ puts = [t \in Tabs |-> Idle]
  /\ now = 0 /\ edits = 0

Edit == edits < MaxEdits /\ edits' = edits + 1

-----------------------------------------------------------------------------
(* Sessions *)

\* make_user_session: signed and expiring.
Session(t, i) ==
  cookies' = [cookies EXCEPT ![t] = [id |-> i, exp |-> now + SESSION_TTL, secret |-> policy.secret]]

\* resolve_user_session: the signature and the expiry.
Valid(t) == cookies[t] # SignedOut /\ cookies[t].secret = policy.secret /\ now <= cookies[t].exp

\* require_user
SignedIn(t, i) == Valid(t) /\ cookies[t].id = i /\ i \in users

Logout(t) ==
  /\ loop = Idle /\ Edit
  /\ cookies[t] # SignedOut
  /\ cookies' = [cookies EXCEPT ![t] = SignedOut]
  /\ UNCHANGED <<accounts, policy, throttle, joined, flight, now>>

-----------------------------------------------------------------------------
(* Email and password *)

ByEmail(e) == {i \in users : accounts[i].email = e}

\* _record_attempt, for the client's address and for the account.
Recent(k) == {a \in attempts[k] : now - a.at < WINDOW}

This == [n |-> edits, at |-> now]

Recorded(ks) == [k \in Keys |-> IF k \in ks THEN Recent(k) \cup {This} ELSE attempts[k]]

IsIdle(as) == \A a \in as : now - a.at >= WINDOW

\* Idle keys go when there are more than KEYS_LIMIT.
Kept(as) ==
  IF Cardinality({k \in Keys : as[k] # {}}) > KEYS_LIMIT
    THEN [k \in Keys |-> IF IsIdle(as[k]) THEN {} ELSE as[k]] ELSE as

\* Mutant: the limit is checked before the attempt is added.
OverBefore(ks) == \E k \in ks : Cardinality(Recent(k)) > MAX_ATTEMPTS

Over(ks) == \E k \in ks : Cardinality(Recorded(ks)[k]) > MAX_ATTEMPTS

\* api_auth_login up to the rehash of a password hashed with weaker parameters.
Login(t, ip, e, w) ==
  /\ loop = Idle /\ Edit
  /\ \E ks \in {{<<"ip", ip>>, <<"email", e>>}} :
       /\ attempts' = Kept(Recorded(ks))
       /\ let' = IF Over(ks) THEN let
                 ELSE [k \in Keys |-> IF k \in ks THEN let[k] \cup {This} ELSE let[k]]
       /\ UNCHANGED restarts
       /\ \E right \in {{i \in ByEmail(e) : accounts[i].word = w}} :
            \/ (Over(ks) \/ right = {}) /\ UNCHANGED <<cookies, loop>>
            \/ /\ ~Over(ks)
               /\ \E i \in right :
                    \/ ~accounts[i].weak /\ Session(t, i) /\ UNCHANGED loop
                    \/ /\ accounts[i].weak
                       /\ loop' = [op |-> "rehash", tab |-> t, id |-> i, word |-> w]
                       /\ UNCHANGED cookies
  /\ UNCHANGED <<accounts, policy, joined, puts, now>>

Rehash ==
  /\ loop.op = "rehash"
  /\ accounts' = [accounts EXCEPT ![loop.id].word = loop.word, ![loop.id].weak = FALSE]
  /\ Session(loop.tab, loop.id)
  /\ loop' = Idle
  /\ UNCHANGED <<policy, throttle, joined, puts, now, edits>>

-----------------------------------------------------------------------------
(* OAuth *)

NothingSet == ~policy.open /\ policy.allowed = {} /\ policy.admins = {}

\* admit
IsAdmin(e) == Lower[e] \in policy.admins \/ (users = {} /\ policy.admins = {})

\* Mutant: with nothing configured, whoever comes is let in.
AdmitsAny(e) ==
  \/ policy.open
  \/ policy.allowed # {} /\ (Lower[e] \in policy.allowed \/ IsAdmin(e))
  \/ policy.allowed = {} /\ (policy.admins = {} \/ IsAdmin(e))

Admits(e) ==
  \/ policy.open
  \/ policy.allowed # {} /\ (Lower[e] \in policy.allowed \/ IsAdmin(e))
  \/ policy.allowed = {} /\ policy.admins # {} /\ IsAdmin(e)
  \/ NothingSet /\ users = {}

\* normalize_profile: only X's addresses keep their capitals.
Spelled(p) == IF p = X THEN Emails ELSE {Lower[e] : e \in Emails}

Callback(t) ==
  /\ loop = Idle /\ Edit
  /\ \E p \in Providers, s \in Subs : \E e \in Spelled(p) :
       /\ Admits(e)
       /\ loop' = [op |-> "upsert", tab |-> t, login |-> [provider |-> p, sub |-> s], email |-> e,
                   admin |-> IsAdmin(e)]
  /\ UNCHANGED <<accounts, policy, cookies, throttle, joined, puts, now>>

\* Mutant: the account with the address goes before the one with the id.
MatchEmailFirst(login, e) ==
  LET byLogin == {i \in users : accounts[i].login = login}
  IN  IF ByEmail(e) # {} THEN ByEmail(e) ELSE IF byLogin # {} THEN byLogin ELSE Ids \ users

\* The account a profile is for; a new one when there is none.
Match(login, e) ==
  LET byLogin == {i \in users : accounts[i].login = login}
  IN  IF byLogin # {} THEN byLogin ELSE IF ByEmail(e) # {} THEN ByEmail(e) ELSE Ids \ users

NewAccount(login, e, admin) ==
  [email |-> e, login |-> login, admin |-> admin, word |-> NoWord, weak |-> FALSE, blob |-> NoBlob]

\* upsert_oauth_user
Upsert(i, login, e, admin) ==
  accounts' = [accounts EXCEPT ![i] =
    IF i \in users THEN [accounts[i] EXCEPT !.login = login, !.admin = @ \/ admin]
    ELSE NewAccount(login, e, admin)]

EndCallback ==
  /\ loop.op = "upsert"
  /\ \E i \in Match(loop.login, loop.email) :
       /\ Upsert(i, loop.login, loop.email, loop.admin)
       /\ Session(loop.tab, i)
       /\ joined' = IF i \notin users /\ NothingSet THEN joined \cup {i} ELSE joined
  /\ loop' = Idle
  /\ UNCHANGED <<policy, throttle, puts, now, edits>>

-----------------------------------------------------------------------------
(* The dev account and the provider keys *)

\* Mutant: only a blob that can be read counts as encrypted.
EncryptedHere == \E i \in users : accounts[i].blob.by = policy.secret

\* db_has_encrypted_keys: a blob that is not plain JSON, whoever can read it.
Encrypted == \E i \in users : accounts[i].blob.by \in Secrets

DevLogin == [provider |-> "local", sub |-> "dev"]

\* dev_login: refused when keys are stored encrypted.
DevSignIn(t) ==
  /\ loop = Idle /\ Edit
  /\ policy.dev /\ ~Encrypted
  /\ loop' = [op |-> "find", tab |-> t]
  /\ UNCHANGED <<accounts, policy, cookies, throttle, joined, puts, now>>

DevSession(i) == IF loop.tab = Startup THEN UNCHANGED cookies ELSE Session(loop.tab, i)

\* dev_user: the account with the address.
FindDevUser ==
  /\ loop.op = "find"
  /\ \/ \E i \in ByEmail(DevEmail) : DevSession(i) /\ loop' = Idle
     \/ ByEmail(DevEmail) = {} /\ loop' = [loop EXCEPT !.op = "add"] /\ UNCHANGED cookies
  /\ UNCHANGED <<accounts, policy, throttle, joined, puts, now, edits>>

\* There was none: an admin is created, unless one has come up.
AddDevUser ==
  /\ loop.op = "add"
  /\ \E i \in Match(DevLogin, DevEmail) : Upsert(i, DevLogin, DevEmail, TRUE) /\ DevSession(i)
  /\ loop' = Idle
  /\ UNCHANGED <<policy, throttle, joined, puts, now, edits>>

\* Mutant: only what this server's secret encrypted can be read.
DecryptedOnly(blob) == IF blob.by = policy.secret THEN blob.keys ELSE {}

\* _decrypt: nothing, when the secret is another one.
Decrypted(blob) == IF blob.by \in {"plain", policy.secret} THEN blob.keys ELSE {}

\* The dev account is seeded before the server takes requests.
Starting == loop.op \in {"find", "add"} /\ loop.tab = Startup

\* require_user reads the account; the handler is yet to run.
AskKeys(t) ==
  /\ Edit
  /\ ~Starting
  /\ Serial => \A u \in Tabs : puts[u] = Idle
  /\ puts[t] = Idle
  /\ \E i \in Ids :
       /\ SignedIn(t, i)
       /\ puts' = [puts EXCEPT ![t] = [op |-> "put", id |-> i, keys |-> Decrypted(accounts[i].blob)]]
  /\ UNCHANGED <<accounts, policy, cookies, throttle, joined, loop, now>>

\* set_keys: one provider's key is set or cleared, the others kept as read.
PutKeys(t) ==
  /\ loop = Idle
  /\ puts[t] # Idle
  /\ \E s \in Slots : \E keys \in {puts[t].keys \cup {s}, puts[t].keys \ {s}} :
       accounts' = [accounts EXCEPT ![puts[t].id].blob =
         [by |-> IF policy.dev /\ ~Encrypted THEN "plain" ELSE policy.secret, keys |-> keys]]
  /\ puts' = [puts EXCEPT ![t] = Idle]
  /\ UNCHANGED <<policy, cookies, throttle, joined, loop, now, edits>>

-----------------------------------------------------------------------------
(* The provisioning command; restarts *)

\* ensure_admin: the account with the address, or a new one.
Admin(i, e) ==
  IF i \in users THEN [accounts[i] EXCEPT !.admin = TRUE]
  ELSE NewAccount([provider |-> "local", sub |-> "admin"], Lower[e], TRUE)

\* create_local_admin
WithWord(i, e, w) == [Admin(i, e) EXCEPT !.word = w, !.weak = FALSE]

Provision(e, w) ==
  /\ Edit
  /\ \E i \in IF ByEmail(Lower[e]) # {} THEN ByEmail(Lower[e]) ELSE Ids \ users :
       accounts' = [accounts EXCEPT ![i] = IF w = NoWord THEN Admin(i, e) ELSE WithWord(i, e, w)]
  /\ UNCHANGED <<policy, cookies, throttle, joined, flight, now>>

\* The environment may change, and the hashes' parameters; what is in memory
\* goes; the dev account is seeded.
Restart ==
  /\ Edit
  /\ policy' \in Policies
  /\ \E all \in BOOLEAN :
       accounts' = [i \in Ids |-> IF all /\ i \in users /\ accounts[i].word # NoWord
                                  THEN [accounts[i] EXCEPT !.weak = TRUE] ELSE accounts[i]]
  /\ attempts' = [k \in Keys |-> {}] /\ UNCHANGED let
  /\ restarts' = restarts \cup {This}
  /\ loop' = IF policy'.dev /\ ~Encrypted THEN [op |-> "find", tab |-> Startup] ELSE Idle
  /\ puts' = [t \in Tabs |-> Idle]
  /\ UNCHANGED <<cookies, joined, now>>

Tick ==
  /\ loop = Idle /\ now < MaxTime
  /\ now' = now + 1
  /\ UNCHANGED <<accounts, policy, cookies, throttle, joined, flight, edits>>

Step(t) ==
  \/ Logout(t) \/ Callback(t) \/ DevSignIn(t) \/ AskKeys(t) \/ PutKeys(t)
  \/ \E ip \in Ips, e \in {Lower[x] : x \in Emails}, w \in Words : Login(t, ip, e, w)

Next ==
  \/ \E t \in Tabs : Step(t)
  \/ Rehash \/ EndCallback \/ FindDevUser \/ AddDevUser
  \/ \E e \in Emails, w \in Words \cup {NoWord} : Provision(e, w)
  \/ Restart
  \/ Tick

Spec == Init /\ [][Next]_vars

-----------------------------------------------------------------------------
(* Properties *)

\* What is in the window that starts then.
Within(as, start) == {a \in as : start <= a.at /\ a.at < start + WINDOW}

\* Whatever the window's place, and whatever keys are dropped in between, no
\* more than MAX_ATTEMPTS logins from an address or for an account get as far
\* as the password within it in a run of the server: the throttle is in memory,
\* so that each restart within the window lets as many through once more
\* (api.py:164-224).
WindowHolds ==
  \A k \in Keys, start \in 0 .. MaxTime :
    Cardinality(Within(let[k], start)) <= MAX_ATTEMPTS * (1 + Cardinality(Within(restarts, start)))

\* However providers change people's addresses, an address has one account and
\* a provider's id has one account: sign-in never has to choose
\* (metadata/users.py:32-66).
AccountsDistinct ==
  \A i, j \in users :
    i # j => /\ accounts[i].email # accounts[j].email
             /\ accounts[i].login.provider \in Providers => accounts[i].login # accounts[j].login

\* With nothing configured, OAuth creates one account at most, whatever was
\* configured in between (users.py:9-10).
SoleNewcomer == Cardinality(joined) <= 1

\* Keys that were stored encrypted are never stored plain again, under
\* whichever secret they were encrypted (dev_login.py:54-63).
NeverDowngraded ==
  [][\A i \in users : accounts[i].blob.by \in Secrets => accounts'[i].blob.by \in Secrets]_vars

\* A request about one provider's key leaves the account's others, dev or not
\* (user_keys.py:76-97).
KeysKept ==
  [][\A i \in users : \A b \in {accounts[i].blob} :
       b.by \in {"plain", policy.secret} /\ accounts'[i].blob # b =>
         Cardinality((b.keys \ accounts'[i].blob.keys) \cup (accounts'[i].blob.keys \ b.keys)) <= 1]_vars

\* A password the command set stays until the command sets another.
PasswordStays ==
  [][\A i \in users : accounts[i].word # NoWord /\ accounts'[i].word # accounts[i].word =>
       loop' = loop /\ edits' # edits]_vars

=============================================================================
