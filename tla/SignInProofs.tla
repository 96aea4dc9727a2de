---------------------------- MODULE SignInProofs ----------------------------
(***************************************************************************)
(* What holds of sign-in for any number of people, tabs and addresses,     *)
(* whatever the limits, the environments and the times of restarts.        *)
(***************************************************************************)
EXTENDS SignIn, FiniteSetTheorems, TLAPS

\* Whoever a handler has in hand has an account.
Known ==
  /\ loop.op = "rehash" => loop.id \in users
  /\ \A t \in Tabs : puts[t] # Idle => puts[t].id \in users

\* What was let through since the last restart and is still in the window is
\* remembered.
Remembered ==
  /\ \A k \in Keys : IsFiniteSet(attempts[k])
  /\ \A k \in Keys : \A a \in let[k] :
       now - a.at < WINDOW /\ (\A r \in restarts : r.n < a.n) => a \in attempts[k]

\* What was let through and the restarts are past, and in one order.
Past ==
  /\ IsFiniteSet(restarts) /\ \A r \in restarts : r.n < edits /\ r.at <= now
  /\ \A k \in Keys : IsFiniteSet(let[k]) /\ \A a \in let[k] : a.n < edits /\ a.at <= now
  /\ \A k \in Keys : \A a \in let[k], r \in restarts : a.n <= r.n => a.at <= r.at

\* What a window holds from before its last restart, and the rest.
Before(k, start) ==
  {a \in Within(let[k], start) : \E r \in Within(restarts, start) : a.n <= r.n}
After(k, start) ==
  {a \in Within(let[k], start) : \A r \in Within(restarts, start) : r.n < a.n}

\* Each restart in a window stands for MAX_ATTEMPTS before it.
Counted ==
  \A k \in Keys, start \in 0 .. MaxTime :
    /\ Cardinality(Before(k, start)) <= MAX_ATTEMPTS * Cardinality(Within(restarts, start))
    /\ Cardinality(After(k, start)) <= MAX_ATTEMPTS

\* Who joined has an account; a newcomer is let in only when nobody has joined.
Newcomer ==
  /\ joined \subseteq users
  /\ loop.op = "upsert" /\ NothingSet => joined = {}
  /\ IsFiniteSet(joined)

-----------------------------------------------------------------------------
(* Shapes *)

LEMMA NoneIsNoAccount == None \notin Account
BY DEF None, Account

\* The fields of an account.
LEMMA AccountFields ==
  ASSUME NEW a \in Account
  PROVE  /\ a.email \in Emails /\ a.login \in Logins /\ a.admin \in BOOLEAN
         /\ a.word \in Words \cup {NoWord} /\ a.weak \in BOOLEAN /\ a.blob \in Blobs
BY DEF Account

LEMMA UserAccount ==
  ASSUME TypeOK, NEW i \in users
  PROVE  i \in Ids /\ accounts[i] \in Account
BY DEF TypeOK, users

LEMMA NewAccountType ==
  ASSUME NEW login \in Logins, NEW e \in Emails, NEW admin \in BOOLEAN
  PROVE  /\ NewAccount(login, e, admin) \in Account
         /\ NewAccount(login, e, admin).email = e /\ NewAccount(login, e, admin).login = login
         /\ NewAccount(login, e, admin).blob = NoBlob
BY DEF NewAccount, Account, NoBlob, Blobs

LEMMA Environments ==
  ASSUME TypeOK
  PROVE  policy \in Environment /\ policy.secret \in Secrets
BY SignInAssumption DEF TypeOK, Environment

\* What the event loop is in.
LEMMA InHand ==
  ASSUME TypeOK
  PROVE  /\ loop.op = "upsert" => /\ loop.tab \in Tabs /\ loop.login \in Logins
                                  /\ loop.email \in Emails /\ loop.admin \in BOOLEAN
         /\ loop.op = "rehash" => loop.tab \in Tabs /\ loop.id \in Ids /\ loop.word \in Words
         /\ loop.op \in {"find", "add"} => /\ loop = [op |-> loop.op, tab |-> loop.tab]
                                           /\ loop.tab \in Tabs \cup {Startup}
         /\ \A t \in Tabs : puts[t] # Idle => puts[t].id \in Ids /\ puts[t].keys \subseteq Slots
BY DEF TypeOK, Idle

\* A session is a cookie.
LEMMA SessionType ==
  ASSUME TypeOK, NEW t \in Tabs, NEW i \in Ids, Session(t, i)
  PROVE  cookies' \in [Tabs -> [id: Ids, exp: Nat, secret: Secrets] \cup {SignedOut}]
<1>1. now + SESSION_TTL \in Nat
  BY SignInAssumption DEF TypeOK
<1>2. QED
  BY <1>1, Environments DEF TypeOK, Session

\* An account that is matched is one that there is, or a new one.
LEMMA Matches ==
  ASSUME NEW login, NEW e, NEW i \in Match(login, e)
  PROVE  /\ i \in Ids
         /\ i \in users => accounts[i].login = login \/ (accounts[i].email = e /\ \A j \in users : accounts[j].login # login)
         /\ i \notin users => \A j \in users : accounts[j].login # login /\ accounts[j].email # e
BY DEF Match, ByEmail, users

\* What upserting makes of the accounts.
LEMMA UpsertType ==
  ASSUME TypeOK, NEW login \in Logins, NEW e \in Emails, NEW admin \in BOOLEAN, NEW i \in Ids,
         Upsert(i, login, e, admin)
  PROVE  accounts' \in [Ids -> Account \cup {None}] /\ accounts'[i] \in Account
<1> DEFINE new == IF i \in users THEN [accounts[i] EXCEPT !.login = login, !.admin = @ \/ admin]
                  ELSE NewAccount(login, e, admin)
<1>1. CASE i \in users
  <2>1. accounts[i] \in Account
    BY <1>1, UserAccount
  <2>2. (accounts[i].admin \/ admin) \in BOOLEAN
    OBVIOUS
  <2>3. [accounts[i] EXCEPT !.login = login, !.admin = @ \/ admin] \in Account
    BY <2>1, <2>2 DEF Account
  <2>4. QED
    BY <1>1, <2>3 DEF TypeOK, Upsert
<1>2. CASE i \notin users
  BY <1>2, NewAccountType DEF TypeOK, Upsert
<1>3. QED
  BY <1>1, <1>2

-----------------------------------------------------------------------------
(* Every step keeps the shapes *)

\* The attempts a log-in leaves are attempts.
LEMMA ThrottleType ==
  ASSUME TypeOK, NEW ks \in SUBSET Keys, edits < MaxEdits
  PROVE  /\ This \in Attempt
         /\ Recorded(ks) \in [Keys -> SUBSET Attempt]
         /\ Kept(Recorded(ks)) \in [Keys -> SUBSET Attempt]
<1>1. This \in Attempt
  <2>1. edits \in 0 .. MaxEdits /\ now \in 0 .. MaxTime
    BY DEF TypeOK
  <2>2. QED
    BY <2>1 DEF This, Attempt
<1>2. Recorded(ks) \in [Keys -> SUBSET Attempt]
  BY <1>1 DEF Recorded, Recent, TypeOK
<1>3. QED
  BY <1>1, <1>2 DEF Kept

LEMMA TypeLogin ==
  ASSUME TypeOK, NEW t \in Tabs, NEW ip \in Ips, NEW e \in Emails, NEW w \in Words, Login(t, ip, e, w)
  PROVE  TypeOK'
<1> DEFINE ks == {<<"ip", ip>>, <<"email", e>>}
<1>1. ks \in SUBSET Keys
  BY DEF Keys
<1>2. edits < MaxEdits /\ edits' = edits + 1
  BY DEF Login, Edit
<1>3. edits' \in 0 .. MaxEdits
  BY <1>2, SignInAssumption DEF TypeOK
<1>4. attempts' = Kept(Recorded(ks))
  BY DEF Login
<1>5. attempts' \in [Keys -> SUBSET Attempt]
  BY <1>1, <1>2, <1>4, ThrottleType
<1>6. let' = let \/ let' = [k \in Keys |-> IF k \in ks THEN let[k] \cup {This} ELSE let[k]]
  BY DEF Login
<1> HIDE DEF ks
<1>7. let' \in [Keys -> SUBSET Attempt]
  <2>1. This \in Attempt
    BY <1>1, <1>2, ThrottleType
  <2>2. let \in [Keys -> SUBSET Attempt]
    BY DEF TypeOK
  <2>3. [k \in Keys |-> IF k \in ks THEN let[k] \cup {This} ELSE let[k]] \in [Keys -> SUBSET Attempt]
    BY <2>1, <2>2
  <2>4. QED
    BY <1>6, <2>2, <2>3
<1>8. \/ UNCHANGED <<cookies, loop>>
      \/ \E i \in ByEmail(e) : Session(t, i) /\ UNCHANGED loop
      \/ \E i \in ByEmail(e) : loop' = [op |-> "rehash", tab |-> t, id |-> i, word |-> w] /\ UNCHANGED cookies
  BY DEF Login
<1>9. ByEmail(e) \subseteq Ids
  BY DEF ByEmail, users
<1>10. cookies' \in [Tabs -> [id: Ids, exp: Nat, secret: Secrets] \cup {SignedOut}]
  <2>1. CASE UNCHANGED cookies
    BY <2>1 DEF TypeOK
  <2>2. CASE \E i \in ByEmail(e) : Session(t, i)
    BY <2>2, <1>9, SessionType
  <2>3. QED
    BY <1>8, <2>1, <2>2
<1>11. \/ loop' = loop
       \/ loop' \in [op: {"rehash"}, tab: Tabs, id: Ids, word: Words]
  BY <1>8, <1>9
<1>12. UNCHANGED <<accounts, policy, joined, restarts, puts, now>>
  BY DEF Login
<1>13. QED
  BY <1>3, <1>5, <1>7, <1>10, <1>11, <1>12 DEF TypeOK

LEMMA TypeRehash ==
  ASSUME TypeOK, Known, Rehash
  PROVE  TypeOK'
<1>1. loop.id \in users /\ loop.tab \in Tabs /\ loop.word \in Words /\ loop.id \in Ids
  BY InHand DEF Rehash, Known
<1>2. [accounts[loop.id] EXCEPT !.word = loop.word, !.weak = FALSE] \in Account
  BY <1>1, UserAccount DEF Account
<1>3. accounts' = [accounts EXCEPT ![loop.id] = [accounts[loop.id] EXCEPT !.word = loop.word, !.weak = FALSE]]
  BY <1>1 DEF Rehash, TypeOK
<1>4. accounts' \in [Ids -> Account \cup {None}]
  BY <1>1, <1>2, <1>3 DEF TypeOK
<1>5. Session(loop.tab, loop.id) /\ loop' = Idle
  BY DEF Rehash
<1>6. cookies' \in [Tabs -> [id: Ids, exp: Nat, secret: Secrets] \cup {SignedOut}]
  BY <1>1, <1>5, SessionType
<1>7. QED
  BY <1>4, <1>5, <1>6 DEF TypeOK, Rehash, throttle

LEMMA TypeCallback ==
  ASSUME TypeOK, NEW t \in Tabs, Callback(t)
  PROVE  TypeOK'
<1>1. edits' \in 0 .. MaxEdits
  BY SignInAssumption DEF Callback, Edit, TypeOK
<1>2. PICK p \in Providers, s \in Subs, e \in Emails :
        loop' = [op |-> "upsert", tab |-> t, login |-> [provider |-> p, sub |-> s], email |-> e, admin |-> IsAdmin(e)]
  BY SignInAssumption DEF Callback, Spelled
<1>3. IsAdmin(e) \in BOOLEAN
  BY DEF IsAdmin
<1>4. [provider |-> p, sub |-> s] \in Logins
  BY DEF Logins
<1>5. loop' \in [op: {"upsert"}, tab: Tabs, login: Logins, email: Emails, admin: BOOLEAN]
  BY <1>2, <1>3, <1>4
<1>6. UNCHANGED <<accounts, policy, cookies, attempts, let, restarts, joined, puts, now>>
  BY DEF Callback, throttle
<1>7. QED
  BY <1>1, <1>5, <1>6 DEF TypeOK

LEMMA TypeEndCallback ==
  ASSUME TypeOK, EndCallback
  PROVE  TypeOK'
<1>1. loop.tab \in Tabs /\ loop.login \in Logins /\ loop.email \in Emails /\ loop.admin \in BOOLEAN
  BY InHand DEF EndCallback
<1>2. PICK i \in Match(loop.login, loop.email) :
        /\ Upsert(i, loop.login, loop.email, loop.admin)
        /\ Session(loop.tab, i)
        /\ joined' = IF i \notin users /\ NothingSet THEN joined \cup {i} ELSE joined
  BY DEF EndCallback
<1>3. i \in Ids
  BY Matches
<1>4. accounts' \in [Ids -> Account \cup {None}]
  BY <1>1, <1>2, <1>3, UpsertType
<1>5. cookies' \in [Tabs -> [id: Ids, exp: Nat, secret: Secrets] \cup {SignedOut}]
  BY <1>1, <1>2, <1>3, SessionType
<1>6. joined' \subseteq Ids
  BY <1>2, <1>3 DEF TypeOK
<1>7. QED
  BY <1>4, <1>5, <1>6 DEF TypeOK, EndCallback, throttle

LEMMA TypeDevSignIn ==
  ASSUME TypeOK, NEW t \in Tabs, DevSignIn(t)
  PROVE  TypeOK'
<1>1. edits' \in 0 .. MaxEdits
  BY SignInAssumption DEF DevSignIn, Edit, TypeOK
<1>2. loop' \in [op: {"find", "add"}, tab: Tabs \cup {Startup}]
  BY DEF DevSignIn
<1>3. UNCHANGED <<accounts, policy, cookies, attempts, let, restarts, joined, puts, now>>
  BY DEF DevSignIn, throttle
<1>4. QED
  BY <1>1, <1>2, <1>3 DEF TypeOK

LEMMA DevSessionType ==
  ASSUME TypeOK, NEW i \in Ids, loop.tab \in Tabs \cup {Startup}, DevSession(i)
  PROVE  cookies' \in [Tabs -> [id: Ids, exp: Nat, secret: Secrets] \cup {SignedOut}]
<1>1. CASE loop.tab = Startup
  BY <1>1 DEF DevSession, TypeOK
<1>2. CASE loop.tab # Startup
  BY <1>2, SessionType DEF DevSession
<1>3. QED
  BY <1>1, <1>2

LEMMA TypeFindDevUser ==
  ASSUME TypeOK, FindDevUser
  PROVE  TypeOK'
<1>1. loop = [op |-> loop.op, tab |-> loop.tab] /\ loop.tab \in Tabs \cup {Startup}
  BY InHand DEF FindDevUser
<1>2. cookies' \in [Tabs -> [id: Ids, exp: Nat, secret: Secrets] \cup {SignedOut}]
  <2>1. CASE UNCHANGED cookies
    BY <2>1 DEF TypeOK
  <2>2. ASSUME NEW i \in ByEmail(DevEmail), DevSession(i) PROVE cookies' \in [Tabs -> [id: Ids, exp: Nat, secret: Secrets] \cup {SignedOut}]
    <3>1. i \in Ids
      BY DEF ByEmail, users
    <3>2. QED
      BY <1>1, <2>2, <3>1, DevSessionType
  <2>3. QED
    BY <2>1, <2>2 DEF FindDevUser
<1>3. loop' = Idle \/ loop' \in [op: {"find", "add"}, tab: Tabs \cup {Startup}]
  BY <1>1 DEF FindDevUser
<1>4. UNCHANGED <<accounts, policy, attempts, let, restarts, joined, puts, now, edits>>
  BY DEF FindDevUser, throttle
<1>5. QED
  BY <1>2, <1>3, <1>4 DEF TypeOK

LEMMA DevProfile == DevLogin \in Logins /\ DevEmail \in Emails
BY SignInAssumption DEF DevLogin, Logins

LEMMA TypeAddDevUser ==
  ASSUME TypeOK, AddDevUser
  PROVE  TypeOK'
<1>1. loop.tab \in Tabs \cup {Startup}
  BY InHand DEF AddDevUser
<1>2. PICK i \in Match(DevLogin, DevEmail) : Upsert(i, DevLogin, DevEmail, TRUE) /\ DevSession(i)
  BY DEF AddDevUser
<1>3. i \in Ids
  BY Matches
<1>4. accounts' \in [Ids -> Account \cup {None}]
  BY <1>2, <1>3, DevProfile, UpsertType
<1>5. cookies' \in [Tabs -> [id: Ids, exp: Nat, secret: Secrets] \cup {SignedOut}]
  BY <1>1, <1>2, <1>3, DevSessionType
<1>6. loop' = Idle /\ UNCHANGED <<policy, attempts, let, restarts, joined, puts, now, edits>>
  BY DEF AddDevUser, throttle
<1>7. QED
  BY <1>4, <1>5, <1>6 DEF TypeOK

LEMMA TypeAskKeys ==
  ASSUME TypeOK, NEW t \in Tabs, AskKeys(t)
  PROVE  TypeOK'
<1>1. edits' \in 0 .. MaxEdits
  BY SignInAssumption DEF AskKeys, Edit, TypeOK
<1>2. PICK i \in Ids :
        /\ i \in users
        /\ puts' = [puts EXCEPT ![t] = [op |-> "put", id |-> i, keys |-> Decrypted(accounts[i].blob)]]
  BY DEF AskKeys, SignedIn
<1>3. accounts[i].blob \in Blobs
  BY <1>2, UserAccount, AccountFields
<1>4. Decrypted(accounts[i].blob) \subseteq Slots
  BY <1>3 DEF Decrypted, Blobs
<1>5. puts' \in [Tabs -> [op: {"put"}, id: Ids, keys: SUBSET Slots] \cup {Idle}]
  BY <1>2, <1>4 DEF TypeOK
<1>6. QED
  BY <1>1, <1>5 DEF TypeOK, AskKeys, throttle

\* The account that a request of keys writes.
LEMMA PutFacts ==
  ASSUME TypeOK, Known, NEW t \in Tabs, PutKeys(t)
  PROVE  \E i \in users, keys \in SUBSET Slots, by \in Secrets \cup {"plain"} :
           /\ i = puts[t].id
           /\ by = "plain" => ~ Encrypted
           /\ accounts' = [accounts EXCEPT ![i] = [accounts[i] EXCEPT !.blob = [by |-> by, keys |-> keys]]]
           /\ [accounts[i] EXCEPT !.blob = [by |-> by, keys |-> keys]] \in Account
<1>1. puts[t].id \in users /\ puts[t].keys \subseteq Slots /\ puts[t].id \in Ids
  BY InHand DEF PutKeys, Known
<1>2. PICK keys \in SUBSET Slots :
        accounts' = [accounts EXCEPT ![puts[t].id].blob =
          [by |-> IF policy.dev /\ ~Encrypted THEN "plain" ELSE policy.secret, keys |-> keys]]
  BY <1>1 DEF PutKeys
<1>3. PICK by \in Secrets \cup {"plain"} :
        /\ by = IF policy.dev /\ ~Encrypted THEN "plain" ELSE policy.secret
  BY Environments
<1>4. by = "plain" => ~ Encrypted
  BY <1>3, Environments, SignInAssumption
<1>5. [by |-> by, keys |-> keys] \in Blobs
  BY DEF Blobs
<1>6. [accounts[puts[t].id] EXCEPT !.blob = [by |-> by, keys |-> keys]] \in Account
  BY <1>1, <1>5, UserAccount DEF Account
<1>7. accounts' = [accounts EXCEPT ![puts[t].id] = [accounts[puts[t].id] EXCEPT !.blob = [by |-> by, keys |-> keys]]]
  BY <1>1, <1>2, <1>3 DEF TypeOK
<1>8. QED
  BY <1>1, <1>3, <1>4, <1>6, <1>7

LEMMA TypePutKeys ==
  ASSUME TypeOK, Known, NEW t \in Tabs, PutKeys(t)
  PROVE  TypeOK'
<1>1. accounts' \in [Ids -> Account \cup {None}]
  BY PutFacts, UserAccount DEF TypeOK
<1>2. puts' \in [Tabs -> [op: {"put"}, id: Ids, keys: SUBSET Slots] \cup {Idle}]
  BY DEF PutKeys, TypeOK
<1>3. QED
  BY <1>1, <1>2 DEF TypeOK, PutKeys, throttle

\* What the provisioning command makes of an account.
LEMMA ProvisionedType ==
  ASSUME TypeOK, NEW i \in Ids, NEW e \in Emails
  PROVE  Admin(i, e) \in Account /\ \A w \in Words : WithWord(i, e, w) \in Account
<1>1. Admin(i, e) \in Account
  <2>1. CASE i \in users
    BY <2>1, UserAccount DEF Admin, Account
  <2>2. CASE i \notin users
    <3>1. [provider |-> "local", sub |-> "admin"] \in Logins /\ Lower[e] \in Emails
      BY SignInAssumption DEF Logins
    <3>2. QED
      BY <2>2, <3>1, NewAccountType DEF Admin
  <2>3. QED
    BY <2>1, <2>2
<1>2. QED
  BY <1>1 DEF WithWord, Account

LEMMA TypeProvision ==
  ASSUME TypeOK, NEW e \in Emails, NEW w \in Words \cup {NoWord}, Provision(e, w)
  PROVE  TypeOK'
<1>1. edits' \in 0 .. MaxEdits
  BY SignInAssumption DEF Provision, Edit, TypeOK
<1>2. PICK i \in Ids : accounts' = [accounts EXCEPT ![i] = IF w = NoWord THEN Admin(i, e) ELSE WithWord(i, e, w)]
  BY DEF Provision, ByEmail, users
<1>3. accounts' \in [Ids -> Account \cup {None}]
  <2>1. Admin(i, e) \in Account /\ (w # NoWord => WithWord(i, e, w) \in Account)
    BY ProvisionedType
  <2>2. QED
    BY <1>2, <2>1 DEF TypeOK
<1>4. QED
  BY <1>1, <1>3 DEF TypeOK, Provision, throttle, flight

\* A restart may age the passwords.
LEMMA RestartFacts ==
  ASSUME TypeOK, Restart
  PROVE  /\ accounts' \in [Ids -> Account \cup {None}]
         /\ \A i \in Ids : accounts'[i] = accounts[i] \/ (i \in users /\ accounts'[i] = [accounts[i] EXCEPT !.weak = TRUE])
<1>1. PICK all \in BOOLEAN :
        accounts' = [i \in Ids |-> IF all /\ i \in users /\ accounts[i].word # NoWord
                                   THEN [accounts[i] EXCEPT !.weak = TRUE] ELSE accounts[i]]
  BY DEF Restart
<1>2. \A i \in users : [accounts[i] EXCEPT !.weak = TRUE] \in Account
  BY UserAccount DEF Account
<1>3. QED
  BY <1>1, <1>2 DEF TypeOK

LEMMA TypeRestart ==
  ASSUME TypeOK, Restart
  PROVE  TypeOK'
<1>1. edits < MaxEdits /\ edits' \in 0 .. MaxEdits
  BY SignInAssumption DEF Restart, Edit, TypeOK
<1>2. accounts' \in [Ids -> Account \cup {None}]
  BY RestartFacts
<1>3. UNCHANGED <<cookies, joined, now, let>> /\ policy' \in Policies
  BY DEF Restart
<1>4. loop' = Idle \/ loop' \in [op: {"find", "add"}, tab: Tabs \cup {Startup}]
  BY DEF Restart
<1>5. puts' \in [Tabs -> [op: {"put"}, id: Ids, keys: SUBSET Slots] \cup {Idle}]
  BY DEF Restart
<1>6. attempts' \in [Keys -> SUBSET Attempt]
  BY DEF Restart
<1>7. restarts' \subseteq Attempt
  <2>1. This \in Attempt
    BY <1>1, ThrottleType
  <2>2. QED
    BY <2>1 DEF Restart, TypeOK
<1>8. QED
  BY <1>1, <1>2, <1>3, <1>4, <1>5, <1>6, <1>7 DEF TypeOK

LEMMA TypeRest ==
  ASSUME TypeOK, (\E t \in Tabs : Logout(t)) \/ Tick \/ UNCHANGED vars
  PROVE  TypeOK'
<1>1. ASSUME NEW t \in Tabs, Logout(t) PROVE TypeOK'
  <2>1. edits' \in 0 .. MaxEdits
    BY <1>1, SignInAssumption DEF Logout, Edit, TypeOK
  <2>2. QED
    BY <1>1, <2>1 DEF Logout, TypeOK, throttle, flight
<1>2. CASE Tick
  <2>1. now' \in 0 .. MaxTime
    BY <1>2, SignInAssumption DEF Tick, TypeOK
  <2>2. QED
    BY <1>2, <2>1 DEF Tick, TypeOK, throttle, flight
<1>3. CASE UNCHANGED vars
  BY <1>3 DEF vars, throttle, flight, TypeOK
<1>4. QED
  BY <1>1, <1>2, <1>3

LEMMA TypeStep ==
  ASSUME TypeOK, Known, [Next]_vars
  PROVE  TypeOK'
<1>1. ASSUME NEW t \in Tabs, Step(t) PROVE TypeOK'
  <2>1. ASSUME NEW ip \in Ips, NEW e \in {Lower[x] : x \in Emails}, NEW w \in Words, Login(t, ip, e, w)
        PROVE  TypeOK'
    <3>1. e \in Emails
      BY SignInAssumption
    <3>2. QED
      BY <2>1, <3>1, TypeLogin
  <2>2. QED
    BY <1>1, <2>1, TypeCallback, TypeDevSignIn, TypeAskKeys, TypePutKeys, TypeRest DEF Step
<1>2. QED
  BY <1>1, TypeRehash, TypeEndCallback, TypeFindDevUser, TypeAddDevUser, TypeProvision, TypeRestart, TypeRest DEF Next

-----------------------------------------------------------------------------
(* What a step does to the accounts *)

\* An account keeps what it is known by, and its keys.
Keeps(j) ==
  IF accounts[j] = None THEN accounts'[j] = None
  ELSE /\ accounts'[j] # None
       /\ accounts'[j].email = accounts[j].email /\ accounts'[j].login = accounts[j].login
       /\ accounts'[j].blob = accounts[j].blob

\* An account may get a login that is nobody's and, by a request for it, other keys.
Refreshed(i) ==
  /\ i \in users /\ accounts'[i] # None
  /\ accounts'[i].email = accounts[i].email
  /\ \/ accounts'[i].blob = accounts[i].blob
     \/ /\ \E t \in Tabs : PutKeys(t)
        /\ accounts[i].blob.by \in Secrets => accounts'[i].blob.by \in Secrets
  /\ accounts'[i].login = accounts[i].login \/ \A j \in users : accounts[j].login # accounts'[i].login

\* A new account has an address and, from a provider, a login that are nobody's.
Created(i) ==
  /\ i \notin users
  /\ \A j \in users : accounts[j].email # accounts'[i].email
  /\ accounts'[i].login.provider \in Providers => \A j \in users : accounts[j].login # accounts'[i].login

OneChanges == \E i \in Ids : (Refreshed(i) \/ Created(i)) /\ \A j \in Ids \ {i} : Keeps(j)

LEMMA UpsertChanges ==
  ASSUME TypeOK, NEW login \in Logins, NEW e \in Emails, NEW admin \in BOOLEAN, NEW i \in Match(login, e),
         Upsert(i, login, e, admin)
  PROVE  OneChanges
<1>1. i \in Ids
  BY Matches
<1>2. \A j \in Ids \ {i} : accounts'[j] = accounts[j]
  BY <1>1 DEF TypeOK, Upsert
<1>3. \A j \in Ids \ {i} : Keeps(j)
  BY <1>2 DEF Keeps
<1>4. accounts'[i] # None
  BY <1>1, UpsertType, NoneIsNoAccount
<1>5. CASE i \in users
  <2>1. accounts'[i].login = login /\ accounts'[i].email = accounts[i].email /\ accounts'[i].blob = accounts[i].blob
    <3>1. accounts[i] \in Account
      BY <1>5, UserAccount
    <3>2. accounts'[i] = [accounts[i] EXCEPT !.login = login, !.admin = @ \/ admin]
      BY <1>1, <1>5 DEF TypeOK, Upsert
    <3>3. QED
      BY <3>1, <3>2, Zenon DEF Account
  <2>2. accounts[i].login = login \/ \A j \in users : accounts[j].login # login
    BY <1>5, Matches
  <2>3. Refreshed(i)
    BY <1>4, <1>5, <2>1, <2>2 DEF Refreshed
  <2>4. QED
    BY <1>1, <1>3, <2>3 DEF OneChanges
<1>6. CASE i \notin users
  <2>1. accounts'[i] = NewAccount(login, e, admin)
    BY <1>1, <1>6 DEF TypeOK, Upsert
  <2>2. accounts'[i].login = login /\ accounts'[i].email = e
    BY <2>1, NewAccountType
  <2>3. Created(i)
    BY <1>6, <2>2, Matches DEF Created
  <2>4. QED
    BY <1>1, <1>3, <2>3 DEF OneChanges
<1>7. QED
  BY <1>5, <1>6

LEMMA RehashChanges ==
  ASSUME TypeOK, Known, Rehash
  PROVE  \A j \in Ids : Keeps(j)
<1>1. loop.id \in users /\ loop.id \in Ids
  BY InHand DEF Rehash, Known
<1>2. accounts' = [accounts EXCEPT ![loop.id] = [accounts[loop.id] EXCEPT !.word = loop.word, !.weak = FALSE]]
  BY <1>1 DEF Rehash, TypeOK
<1>3. accounts[loop.id] \in Account /\ [accounts[loop.id] EXCEPT !.word = loop.word, !.weak = FALSE] \in Account
  BY <1>1, UserAccount, InHand DEF Rehash, Account
<1>4. Keeps(loop.id)
  BY <1>1, <1>2, <1>3, NoneIsNoAccount DEF Keeps, TypeOK, Account
<1>5. \A j \in Ids \ {loop.id} : Keeps(j)
  BY <1>1, <1>2 DEF Keeps, TypeOK
<1>6. QED
  BY <1>4, <1>5

LEMMA PutChanges ==
  ASSUME TypeOK, Known, NEW t \in Tabs, PutKeys(t)
  PROVE  OneChanges
<1>1. PICK i \in users, keys \in SUBSET Slots, by \in Secrets \cup {"plain"} :
        /\ by = "plain" => ~ Encrypted
        /\ accounts' = [accounts EXCEPT ![i] = [accounts[i] EXCEPT !.blob = [by |-> by, keys |-> keys]]]
        /\ [accounts[i] EXCEPT !.blob = [by |-> by, keys |-> keys]] \in Account
  BY PutFacts
<1>2. i \in Ids /\ accounts[i] \in Account
  BY UserAccount
<1>3. /\ accounts'[i] \in Account /\ accounts'[i].email = accounts[i].email
      /\ accounts'[i].login = accounts[i].login /\ accounts'[i].blob.by = by
  BY <1>1, <1>2 DEF TypeOK, Account
<1>4. accounts[i].blob.by \in Secrets => by \in Secrets
  BY <1>1 DEF Encrypted
<1>5. Refreshed(i)
  BY <1>3, <1>4, NoneIsNoAccount DEF Refreshed
<1>6. \A j \in Ids \ {i} : Keeps(j)
  BY <1>1, <1>2 DEF Keeps, TypeOK
<1>7. QED
  BY <1>2, <1>5, <1>6 DEF OneChanges

LEMMA ProvisionChanges ==
  ASSUME TypeOK, NEW e \in Emails, NEW w \in Words \cup {NoWord}, Provision(e, w)
  PROVE  OneChanges
<1>1. PICK i \in IF ByEmail(Lower[e]) # {} THEN ByEmail(Lower[e]) ELSE Ids \ users :
        accounts' = [accounts EXCEPT ![i] = IF w = NoWord THEN Admin(i, e) ELSE WithWord(i, e, w)]
  BY DEF Provision
<1>2. i \in Ids
  BY <1>1 DEF ByEmail, users
<1>3. Admin(i, e) \in Account /\ (w # NoWord => WithWord(i, e, w) \in Account)
  BY <1>2, ProvisionedType
<1>4. accounts'[i] \in Account /\ (accounts'[i] = Admin(i, e) \/ accounts'[i] = WithWord(i, e, w))
  BY <1>1, <1>2, <1>3 DEF TypeOK
<1>5. /\ accounts'[i].email = Admin(i, e).email /\ accounts'[i].login = Admin(i, e).login
      /\ accounts'[i].blob = Admin(i, e).blob
  BY <1>3, <1>4 DEF WithWord, Account
<1>6. \A j \in Ids \ {i} : Keeps(j)
  BY <1>1, <1>2 DEF Keeps, TypeOK
<1>7. CASE i \in users
  <2>1. accounts[i] \in Account /\ Admin(i, e) = [accounts[i] EXCEPT !.admin = TRUE]
    BY <1>7, UserAccount DEF Admin
  <2>2. Refreshed(i)
    BY <1>4, <1>5, <1>7, <2>1, NoneIsNoAccount DEF Refreshed, Account
  <2>3. QED
    BY <1>2, <1>6, <2>2 DEF OneChanges
<1>8. CASE i \notin users
  <2>1. \A j \in users : accounts[j].email # Lower[e]
    BY <1>1, <1>8 DEF ByEmail
  <2>2. Admin(i, e) = NewAccount([provider |-> "local", sub |-> "admin"], Lower[e], TRUE)
    BY <1>8 DEF Admin
  <2>3. accounts'[i].email = Lower[e] /\ accounts'[i].login.provider = "local"
    BY <1>5, <2>2 DEF NewAccount
  <2>4. Created(i)
    BY <1>8, <2>1, <2>3, SignInAssumption DEF Created
  <2>5. QED
    BY <1>2, <1>6, <2>4 DEF OneChanges
<1>9. QED
  BY <1>7, <1>8

LEMMA RestartChanges ==
  ASSUME TypeOK, Restart
  PROVE  \A j \in Ids : Keeps(j)
<1>1. TAKE j \in Ids
<1>2. CASE j \notin users
  BY <1>2, RestartFacts DEF users, Keeps
<1>3. CASE j \in users
  <2>1. accounts[j] \in Account /\ accounts[j] # None
    BY <1>3, UserAccount, NoneIsNoAccount
  <2>2. [accounts[j] EXCEPT !.weak = TRUE] \in Account
    BY <2>1 DEF Account
  <2>3. accounts'[j] \in Account /\ accounts'[j].email = accounts[j].email
        /\ accounts'[j].login = accounts[j].login /\ accounts'[j].blob = accounts[j].blob
    BY <2>1, <2>2, RestartFacts DEF Account
  <2>4. QED
    BY <2>1, <2>3, NoneIsNoAccount DEF Keeps
<1>4. QED
  BY <1>2, <1>3

\* Every step changes one account at most, beside passwords and who is an admin.
LEMMA AccountsStep ==
  ASSUME TypeOK, Known, [Next]_vars
  PROVE  OneChanges \/ \A j \in Ids : Keeps(j)
<1>1. UNCHANGED accounts => \A j \in Ids : Keeps(j)
  BY DEF Keeps
<1>2. ASSUME NEW t \in Tabs, Step(t) PROVE OneChanges \/ UNCHANGED accounts
  <2>1. CASE PutKeys(t)
    BY <2>1, PutChanges
  <2>2. CASE ~ PutKeys(t)
    BY <1>2, <2>2 DEF Step, Logout, Callback, DevSignIn, AskKeys, Login
  <2>3. QED
    BY <2>1, <2>2
<1>3. ASSUME EndCallback PROVE OneChanges
  <2>1. loop.login \in Logins /\ loop.email \in Emails /\ loop.admin \in BOOLEAN
    BY <1>3, InHand DEF EndCallback
  <2>2. QED
    BY <1>3, <2>1, UpsertChanges DEF EndCallback
<1>4. AddDevUser => OneChanges
  BY DevProfile, UpsertChanges DEF AddDevUser
<1>5. Tick \/ FindDevUser \/ UNCHANGED vars => UNCHANGED accounts
  BY DEF Tick, FindDevUser, vars
<1>6. QED
  BY <1>1, <1>2, <1>3, <1>4, <1>5, RehashChanges, ProvisionChanges, RestartChanges DEF Next

LEMMA UsersStay ==
  ASSUME TypeOK, Known, [Next]_vars
  PROVE  users \subseteq users'
BY AccountsStep DEF OneChanges, Keeps, Refreshed, Created, users

LEMMA DistinctStep ==
  ASSUME TypeOK, Known, AccountsDistinct, [Next]_vars
  PROVE  AccountsDistinct'
<1>1. \A i \in Ids : (i \in users) = (accounts[i] # None) /\ (i \in users') = (accounts'[i] # None)
  BY DEF users
<1>2. users \subseteq Ids /\ users' \subseteq Ids
  BY DEF users
<1>3. CASE \A j \in Ids : Keeps(j)
  BY <1>1, <1>2, <1>3 DEF AccountsDistinct, Keeps
<1>4. ASSUME NEW n \in Ids, Refreshed(n), \A j \in Ids \ {n} : Keeps(j)
      PROVE  AccountsDistinct'
  <2>1. \A i, j \in users' : i \in users /\ j \in users
    BY <1>1, <1>2, <1>4 DEF Keeps, Refreshed
  <2>2. \A i \in users : accounts'[i].email = accounts[i].email
    BY <1>1, <1>2, <1>4 DEF Keeps, Refreshed
  <2>3. \A i \in users \ {n} : accounts'[i].login = accounts[i].login
    BY <1>1, <1>2, <1>4 DEF Keeps
  <2>4. accounts'[n].login = accounts[n].login \/ \A j \in users : accounts[j].login # accounts'[n].login
    BY <1>4 DEF Refreshed
  <2>5. QED
    BY <2>1, <2>2, <2>3, <2>4 DEF AccountsDistinct
<1>5. ASSUME NEW n \in Ids, Created(n), \A j \in Ids \ {n} : Keeps(j)
      PROVE  AccountsDistinct'
  <2>1. \A i \in users' : i = n \/ i \in users
    BY <1>1, <1>2, <1>5 DEF Keeps
  <2>2. \A i \in users : i # n /\ accounts'[i].email = accounts[i].email /\ accounts'[i].login = accounts[i].login
    BY <1>1, <1>2, <1>5 DEF Keeps, Created
  <2>3. \A j \in users : accounts[j].email # accounts'[n].email
    BY <1>5 DEF Created
  <2>4. accounts'[n].login.provider \in Providers => \A j \in users : accounts[j].login # accounts'[n].login
    BY <1>5 DEF Created
  <2>5. QED
    BY <2>1, <2>2, <2>3, <2>4 DEF AccountsDistinct
<1>6. QED
  BY <1>3, <1>4, <1>5, AccountsStep DEF OneChanges

LEMMA KnownStep ==
  ASSUME TypeOK, Known, [Next]_vars
  PROVE  Known'
<1>1. users \subseteq users'
  BY UsersStay
<1>2. loop'.op = "rehash" => loop'.id \in users \/ UNCHANGED loop
  <2>1. ASSUME NEW t \in Tabs, Step(t) PROVE UNCHANGED loop \/ loop'.op # "rehash" \/ loop'.id \in users
    <3>1. ASSUME NEW ip \in Ips, NEW e, NEW w \in Words, Login(t, ip, e, w)
          PROVE  UNCHANGED loop \/ loop'.id \in users
      BY <3>1 DEF Login, ByEmail
    <3>2. QED
      BY <2>1, <3>1 DEF Step, Callback, DevSignIn, AskKeys, PutKeys, Logout, flight
  <2>2. Rehash \/ EndCallback \/ AddDevUser => loop' = Idle
    BY DEF Rehash, EndCallback, AddDevUser
  <2>3. Restart \/ FindDevUser => loop'.op # "rehash"
    BY InHand DEF Restart, FindDevUser, Idle
  <2>4. Tick \/ UNCHANGED vars \/ (\E e \in Emails, w \in Words \cup {NoWord} : Provision(e, w)) => UNCHANGED loop
    BY DEF Tick, vars, Provision, flight
  <2>5. QED
    BY <2>1, <2>2, <2>3, <2>4 DEF Next, Idle
<1>3. \A t \in Tabs : puts'[t] # Idle => puts'[t].id \in users
  <2>1. ASSUME NEW t \in Tabs, AskKeys(t) PROVE \A u \in Tabs : puts'[u] # Idle => puts'[u].id \in users
    BY <2>1 DEF AskKeys, SignedIn, TypeOK, Known
  <2>2. ASSUME NEW t \in Tabs, PutKeys(t) PROVE \A u \in Tabs : puts'[u] # Idle => puts'[u].id \in users
    BY <2>2 DEF PutKeys, TypeOK, Known
  <2>3. CASE Restart
    BY <2>3 DEF Restart
  <2>4. CASE UNCHANGED puts
    BY <2>4 DEF Known
  <2>5. ASSUME NEW t \in Tabs, Step(t) PROVE AskKeys(t) \/ PutKeys(t) \/ UNCHANGED puts
    BY <2>5 DEF Step, Logout, Callback, DevSignIn, Login, flight
  <2>6. Rehash \/ EndCallback \/ FindDevUser \/ AddDevUser \/ Tick \/ UNCHANGED vars \/ (\E e \in Emails, w \in Words \cup {NoWord} : Provision(e, w))
          => UNCHANGED puts
    BY DEF Rehash, EndCallback, FindDevUser, AddDevUser, Tick, vars, Provision, flight
  <2>7. QED
    BY <2>1, <2>2, <2>3, <2>4, <2>5, <2>6 DEF Next
<1>4. QED
  BY <1>1, <1>2, <1>3 DEF Known

LEMMA NewcomerStep ==
  ASSUME TypeOK, Known, Newcomer, SoleNewcomer, [Next]_vars
  PROVE  Newcomer' /\ SoleNewcomer'
<1>1. users \subseteq users'
  BY UsersStay
<1>2. CASE EndCallback
  <2>1. loop' = Idle /\ loop.op = "upsert" /\ loop.tab \in Tabs
    BY <1>2, InHand DEF EndCallback
  <2>2. PICK i \in Match(loop.login, loop.email) :
          /\ Upsert(i, loop.login, loop.email, loop.admin)
          /\ joined' = IF i \notin users /\ NothingSet THEN joined \cup {i} ELSE joined
    BY <1>2 DEF EndCallback
  <2>3. CASE i \notin users /\ NothingSet
    <3>1. joined' = {i}
      BY <2>1, <2>2, <2>3 DEF Newcomer
    <3>2. i \in Ids /\ i \in users'
      <4>1. i \in Ids
        BY <2>2, Matches
      <4>2. accounts'[i] # None
        BY <1>2, <2>2, <4>1, InHand, UpsertType, NoneIsNoAccount DEF EndCallback
      <4>3. QED
        BY <4>1, <4>2 DEF users
    <3>3. IsFiniteSet({i}) /\ Cardinality({i}) = 1
      BY FS_Singleton
    <3>4. QED
      BY <2>1, <3>1, <3>2, <3>3 DEF Newcomer, SoleNewcomer, Idle
  <2>4. CASE ~ (i \notin users /\ NothingSet)
    BY <1>1, <2>1, <2>2, <2>4 DEF Newcomer, SoleNewcomer, Idle
  <2>5. QED
    BY <2>3, <2>4
<1>3. ASSUME NEW t \in Tabs, Callback(t) PROVE Newcomer' /\ SoleNewcomer'
  <2>1. UNCHANGED <<joined, policy>>
    BY <1>3 DEF Callback
  <2>2. PICK e : Admits(e)
    BY <1>3 DEF Callback
  <2>3. NothingSet => joined = {}
    BY <2>2 DEF Admits, NothingSet, Newcomer
  <2>4. NothingSet' = NothingSet
    BY <2>1 DEF NothingSet
  <2>5. QED
    BY <1>1, <2>1, <2>3, <2>4 DEF Newcomer, SoleNewcomer
<1>4. CASE UNCHANGED joined /\ loop'.op # "upsert"
  BY <1>1, <1>4 DEF Newcomer, SoleNewcomer
<1>5. CASE UNCHANGED <<joined, policy, loop>>
  BY <1>1, <1>5 DEF Newcomer, SoleNewcomer, NothingSet
<1>6. ASSUME NEW t \in Tabs, Step(t), ~ Callback(t)
      PROVE  UNCHANGED <<joined, policy, loop>> \/ (UNCHANGED joined /\ loop'.op # "upsert")
  <2>1. ASSUME NEW ip \in Ips, NEW e, NEW w \in Words, Login(t, ip, e, w)
        PROVE  UNCHANGED <<joined, policy, loop>> \/ (UNCHANGED joined /\ loop'.op # "upsert")
    <3>1. UNCHANGED <<joined, policy>> /\ (UNCHANGED loop \/ \E i \in Ids : loop' = [op |-> "rehash", tab |-> t, id |-> i, word |-> w])
      BY <2>1 DEF Login, ByEmail, users
    <3>2. QED
      BY <3>1
  <2>2. QED
    BY <1>6, <2>1 DEF Step, Logout, DevSignIn, AskKeys, PutKeys, flight
<1>7. Rehash \/ Restart \/ FindDevUser \/ AddDevUser => UNCHANGED joined /\ loop'.op # "upsert"
  <2>1. Rehash \/ AddDevUser => UNCHANGED joined /\ loop' = Idle
    BY DEF Rehash, AddDevUser
  <2>2. Restart \/ FindDevUser => UNCHANGED joined /\ loop'.op # "upsert"
    BY InHand DEF Restart, FindDevUser, Idle
  <2>3. QED
    BY <2>1, <2>2 DEF Idle
<1>8. Tick \/ UNCHANGED vars \/ (\E e \in Emails, w \in Words \cup {NoWord} : Provision(e, w))
        => UNCHANGED <<joined, policy, loop>>
  BY DEF Tick, vars, Provision, flight
<1>9. QED
  BY <1>2, <1>3, <1>4, <1>5, <1>6, <1>7, <1>8 DEF Next

-----------------------------------------------------------------------------
(* The log-in window *)

\* What is remembered of a key stays in the window's reach.
LEMMA ThrottleKeeps ==
  ASSUME TypeOK, Remembered, NEW ks \in SUBSET Keys
  PROVE  /\ \A k \in Keys : IsFiniteSet(Recorded(ks)[k])
         /\ \A k \in Keys : IsFiniteSet(Kept(Recorded(ks))[k])
         /\ \A k \in Keys : \A a \in Recorded(ks)[k] : now - a.at < WINDOW => a \in Kept(Recorded(ks))[k]
         /\ \A k \in Keys : \A a \in let[k] :
              now - a.at < WINDOW /\ (\A r \in restarts : r.n < a.n) => a \in Recorded(ks)[k]
         /\ \A k \in ks : This \in Recorded(ks)[k]
<1>1. \A k \in Keys : Recorded(ks)[k] = IF k \in ks THEN Recent(k) \cup {This} ELSE attempts[k]
  BY DEF Recorded
<1>2. \A k \in Keys : IsFiniteSet(Recorded(ks)[k])
  <2>1. TAKE k \in Keys
  <2>2. IsFiniteSet(attempts[k])
    BY DEF Remembered
  <2>3. Recent(k) \subseteq attempts[k]
    BY DEF Recent
  <2>4. IsFiniteSet(Recent(k))
    BY <2>2, <2>3, FS_Subset
  <2>5. IsFiniteSet(Recent(k) \cup {This})
    BY <2>4, FS_AddElement
  <2>6. QED
    BY <1>1, <2>2, <2>5
<1>3. \A k \in Keys : Kept(Recorded(ks))[k] = Recorded(ks)[k] \/ (IsIdle(Recorded(ks)[k]) /\ Kept(Recorded(ks))[k] = {})
  BY DEF Kept
<1>4. \A k \in Keys : IsFiniteSet(Kept(Recorded(ks))[k])
  BY <1>2, <1>3, FS_EmptySet
<1>5. \A k \in Keys : \A a \in Recorded(ks)[k] : now - a.at < WINDOW => a \in Kept(Recorded(ks))[k]
  <2>1. TAKE k \in Keys
  <2>2. TAKE a \in Recorded(ks)[k]
  <2>3. HAVE now - a.at < WINDOW
  <2>4. a.at \in Nat
    <3>1. a = This \/ a \in attempts[k]
      BY <1>1 DEF Recent
    <3>2. QED
      BY <3>1 DEF TypeOK, This, Attempt
  <2>5. ~ IsIdle(Recorded(ks)[k])
    BY <2>3, <2>4, SignInAssumption DEF IsIdle, TypeOK
  <2>6. QED
    BY <1>3, <2>5
<1>6. \A k \in Keys : \A a \in let[k] :
        now - a.at < WINDOW /\ (\A r \in restarts : r.n < a.n) => a \in Recorded(ks)[k]
  BY <1>1 DEF Remembered, Recent
<1>7. \A k \in ks : This \in Recorded(ks)[k]
  BY <1>1
<1>8. QED
  BY <1>2, <1>4, <1>5, <1>6, <1>7

\* How Login changes the throttle.
LEMMA LoginFacts ==
  ASSUME NEW t \in Tabs, NEW ip \in Ips, NEW e \in Emails, NEW w \in Words, Login(t, ip, e, w)
  PROVE  \E ks \in SUBSET Keys :
           /\ attempts' = Kept(Recorded(ks))
           /\ \A k \in Keys : let'[k] = let[k] \/ (k \in ks /\ ~ Over(ks) /\ let'[k] = let[k] \cup {This})
           /\ UNCHANGED <<now, restarts>> /\ edits' = edits + 1
<1> DEFINE ks == {<<"ip", ip>>, <<"email", e>>}
<1>1. ks \in SUBSET Keys
  BY DEF Keys
<1>2. attempts' = Kept(Recorded(ks)) /\ UNCHANGED <<now, restarts>> /\ edits' = edits + 1
  BY DEF Login, Edit
<1>3. let' = IF Over(ks) THEN let ELSE [k \in Keys |-> IF k \in ks THEN let[k] \cup {This} ELSE let[k]]
  BY DEF Login
<1> HIDE DEF ks
<1>4. \A k \in Keys : let'[k] = let[k] \/ (k \in ks /\ ~ Over(ks) /\ let'[k] = let[k] \cup {This})
  BY <1>3
<1>5. QED
  BY <1>1, <1>2, <1>4

\* The numbers and times that are compared.
LEMMA Times ==
  ASSUME TypeOK
  PROVE  /\ now \in Nat /\ edits \in Nat /\ WINDOW \in Nat
         /\ \A k \in Keys : \A a \in let[k] : a.n \in Nat /\ a.at \in Nat
         /\ \A r \in restarts : r.n \in Nat /\ r.at \in Nat
BY SignInAssumption DEF TypeOK, Attempt

\* Only a log-in and a restart touch what the throttle has let through.
LEMMA OtherSteps ==
  ASSUME [Next]_vars
  PROVE  \/ \E t \in Tabs, ip \in Ips, e \in Emails, w \in Words : Login(t, ip, e, w)
         \/ Restart
         \/ /\ UNCHANGED <<attempts, let, restarts>>
            /\ now' \in {now, now + 1} /\ edits' \in {edits, edits + 1}
<1> DEFINE Quiet == /\ UNCHANGED <<attempts, let, restarts>>
                    /\ now' \in {now, now + 1} /\ edits' \in {edits, edits + 1}
<1>1. ASSUME NEW t \in Tabs, Step(t)
      PROVE  Quiet \/ \E ip \in Ips, e \in Emails, w \in Words : Login(t, ip, e, w)
  <2>1. Logout(t) \/ Callback(t) \/ DevSignIn(t) \/ AskKeys(t) \/ PutKeys(t) => Quiet
    BY DEF Logout, Callback, DevSignIn, AskKeys, PutKeys, throttle, Edit
  <2>2. {Lower[x] : x \in Emails} \subseteq Emails
    BY SignInAssumption
  <2>3. QED
    BY <1>1, <2>1, <2>2 DEF Step
<1>2. Rehash \/ EndCallback \/ FindDevUser \/ AddDevUser \/ Tick \/ UNCHANGED vars => Quiet
  BY DEF Rehash, EndCallback, FindDevUser, AddDevUser, Tick, vars, throttle
<1>3. (\E e \in Emails, w \in Words \cup {NoWord} : Provision(e, w)) => Quiet
  BY DEF Provision, throttle, Edit
<1>4. QED
  BY <1>1, <1>2, <1>3 DEF Next

LEMMA RememberedStep ==
  ASSUME TypeOK, Past, Remembered, [Next]_vars
  PROVE  Remembered'
<1>1. ASSUME NEW t \in Tabs, NEW ip \in Ips, NEW e \in Emails, NEW w \in Words, Login(t, ip, e, w)
      PROVE  Remembered'
  <2>1. PICK ks \in SUBSET Keys :
          /\ attempts' = Kept(Recorded(ks))
          /\ \A k \in Keys : let'[k] = let[k] \/ (k \in ks /\ let'[k] = let[k] \cup {This})
          /\ UNCHANGED <<now, restarts>>
    BY <1>1, LoginFacts
  <2>2. \A k \in Keys : IsFiniteSet(attempts'[k])
    BY <2>1, ThrottleKeeps
  <2>3. ASSUME NEW k \in Keys, NEW a \in let'[k], now - a.at < WINDOW, \A r \in restarts : r.n < a.n
        PROVE  a \in attempts'[k]
    <3>1. a \in Recorded(ks)[k]
      BY <2>1, <2>3, ThrottleKeeps
    <3>2. QED
      BY <2>1, <2>3, <3>1, ThrottleKeeps
  <2>4. QED
    BY <2>1, <2>2, <2>3 DEF Remembered
<1>2. CASE Restart
  <2>1. \A k \in Keys : attempts'[k] = {}
    BY <1>2 DEF Restart
  <2>2. UNCHANGED let /\ This \in restarts' /\ This.n = edits
    BY <1>2 DEF Restart, This
  <2>3. \A k \in Keys : \A a \in let'[k] : ~ (This.n < a.n)
    BY <2>2, Times DEF Past
  <2>4. QED
    BY <2>1, <2>2, <2>3, FS_EmptySet DEF Remembered
<1>3. CASE UNCHANGED <<attempts, let, restarts>> /\ now' \in {now, now + 1}
  <2>1. \A k \in Keys : \A a \in let[k] : now' - a.at < WINDOW => now - a.at < WINDOW
    BY <1>3, Times
  <2>2. QED
    BY <1>3, <2>1 DEF Remembered
<1>4. QED
  BY <1>1, <1>2, <1>3, OtherSteps

LEMMA PastStep ==
  ASSUME TypeOK, Past, [Next]_vars
  PROVE  Past'
<1>1. ASSUME NEW t \in Tabs, NEW ip \in Ips, NEW e \in Emails, NEW w \in Words, Login(t, ip, e, w)
      PROVE  Past'
  <2>1. /\ \A k \in Keys : let'[k] = let[k] \/ let'[k] = let[k] \cup {This}
        /\ UNCHANGED <<now, restarts>> /\ edits' = edits + 1
    BY <1>1, LoginFacts
  <2>2. ASSUME NEW k \in Keys PROVE IsFiniteSet(let'[k])
    <3>1. IsFiniteSet(let[k]) /\ IsFiniteSet(let[k] \cup {This})
      BY FS_AddElement DEF Past
    <3>2. QED
      BY <2>1, <3>1
  <2>3. \A k \in Keys : \A a \in let'[k] : a \in let[k] \/ (a.n = edits /\ a.at = now)
    BY <2>1 DEF This
  <2>4. \A k \in Keys : \A a \in let'[k] : a.n < edits' /\ a.at <= now
    BY <2>1, <2>3, Times DEF Past
  <2>5. \A k \in Keys : \A a \in let'[k], r \in restarts : a.n <= r.n => a.at <= r.at
    BY <2>3, Times DEF Past
  <2>6. \A r \in restarts : r.n < edits' /\ r.at <= now
    BY <2>1, Times DEF Past
  <2>7. QED
    BY <2>1, <2>2, <2>4, <2>5, <2>6 DEF Past
<1>2. CASE Restart
  <2>1. UNCHANGED <<let, now>> /\ edits' = edits + 1 /\ restarts' = restarts \cup {This}
    BY <1>2 DEF Restart, Edit
  <2>2. IsFiniteSet(restarts')
    BY <2>1, FS_AddElement DEF Past
  <2>3. \A r \in restarts' : r \in restarts \/ (r.n = edits /\ r.at = now)
    BY <2>1 DEF This
  <2>4. \A r \in restarts' : r.n < edits' /\ r.at <= now
    BY <2>1, <2>3, Times DEF Past
  <2>5. \A k \in Keys : \A a \in let[k] : a.n < edits' /\ a.at <= now
    BY <2>1, Times DEF Past
  <2>6. \A k \in Keys : \A a \in let[k], r \in restarts' : a.n <= r.n => a.at <= r.at
    BY <2>3 DEF Past
  <2>7. QED
    BY <2>1, <2>2, <2>4, <2>5, <2>6 DEF Past
<1>3. CASE UNCHANGED <<let, restarts>> /\ now' \in {now, now + 1} /\ edits' \in {edits, edits + 1}
  BY <1>3, Times DEF Past
<1>4. QED
  BY <1>1, <1>2, <1>3, OtherSteps

\* What a window holds is finite.
LEMMA WindowsFinite ==
  ASSUME Past, NEW k \in Keys, NEW start
  PROVE  /\ IsFiniteSet(Within(restarts, start)) /\ IsFiniteSet(Within(let[k], start))
         /\ IsFiniteSet(Before(k, start)) /\ IsFiniteSet(After(k, start))
<1>1. IsFiniteSet(restarts) /\ IsFiniteSet(let[k])
  BY DEF Past
<1>2. Within(restarts, start) \subseteq restarts /\ Within(let[k], start) \subseteq let[k]
  BY DEF Within
<1>3. Before(k, start) \subseteq let[k] /\ After(k, start) \subseteq let[k]
  BY <1>2 DEF Before, After
<1>4. QED
  BY <1>1, <1>2, <1>3, FS_Subset

LEMMA Times1More ==
  ASSUME NEW m \in Nat, NEW c \in Nat
  PROVE  m * (1 + c) = m * c + m /\ m * (c + 1) = m * c + m /\ m * c \in Nat
OBVIOUS

\* A window holds what is before its last restart and the rest.
LEMMA InTwoParts ==
  ASSUME TypeOK, Past, Counted, NEW k \in Keys, NEW start \in 0 .. MaxTime
  PROVE  Cardinality(Within(let[k], start)) <= MAX_ATTEMPTS * Cardinality(Within(restarts, start)) + MAX_ATTEMPTS
<1>1. \A a \in Within(let[k], start), r \in Within(restarts, start) : a.n <= r.n \/ r.n < a.n
  BY Times DEF Within
<1>2. Within(let[k], start) = Before(k, start) \cup After(k, start)
  BY <1>1 DEF Before, After
<1> DEFINE both == Before(k, start) \cap After(k, start)
<1>3. IsFiniteSet(Before(k, start)) /\ IsFiniteSet(After(k, start)) /\ IsFiniteSet(Within(restarts, start))
  BY WindowsFinite
<1>4. IsFiniteSet(both) /\ Cardinality(Within(let[k], start))
                            = Cardinality(Before(k, start)) + Cardinality(After(k, start)) - Cardinality(both)
  BY <1>2, <1>3, FS_Union, FS_Subset
<1>5. /\ Cardinality(both) \in Nat /\ Cardinality(Before(k, start)) \in Nat /\ Cardinality(After(k, start)) \in Nat
      /\ Cardinality(Within(restarts, start)) \in Nat
  BY <1>3, <1>4, FS_CardinalityType
<1>6. /\ Cardinality(Before(k, start)) <= MAX_ATTEMPTS * Cardinality(Within(restarts, start))
      /\ Cardinality(After(k, start)) <= MAX_ATTEMPTS
  BY DEF Counted
<1>7. MAX_ATTEMPTS \in Nat /\ MAX_ATTEMPTS * Cardinality(Within(restarts, start)) \in Nat
  BY <1>5, Times1More, SignInAssumption
<1>8. QED
  BY <1>4, <1>5, <1>6, <1>7

LEMMA CountedLogin ==
  ASSUME TypeOK, Past, Remembered, Counted, NEW t \in Tabs, NEW ip \in Ips, NEW e \in Emails, NEW w \in Words,
         Login(t, ip, e, w)
  PROVE  Counted'
<1>1. PICK ks \in SUBSET Keys :
        /\ \A k \in Keys : let'[k] = let[k] \/ (k \in ks /\ ~ Over(ks) /\ let'[k] = let[k] \cup {This})
        /\ UNCHANGED <<now, restarts>>
  BY LoginFacts
<1>2. This.n = edits /\ This.at = now
  BY DEF This
<1>3. ASSUME NEW k \in Keys, NEW start \in 0 .. MaxTime
      PROVE  Before(k, start)' = Before(k, start)
  <2>1. \A r \in restarts : ~ (This.n <= r.n)
    BY <1>2, Times DEF Past
  <2>2. QED
    BY <1>1, <2>1 DEF Before, Within
<1>4. ASSUME NEW k \in Keys, NEW start \in 0 .. MaxTime
      PROVE  Cardinality(After(k, start)') <= MAX_ATTEMPTS
  <2> DEFINE after == After(k, start)'
  <2>1. after = {a \in let'[k] : /\ start <= a.at /\ a.at < start + WINDOW
                                 /\ \A r \in Within(restarts, start) : r.n < a.n}
    BY <1>1 DEF After, Within
  <2>2. CASE after = After(k, start)
    BY <2>2 DEF Counted
  <2>3. CASE after # After(k, start)
    <3>1. k \in ks /\ ~ Over(ks) /\ let'[k] = let[k] \cup {This}
      BY <1>1, <2>1, <2>3 DEF After, Within
    <3>2. start <= now /\ now < start + WINDOW
      <4>1. This \in after
        BY <2>1, <2>3, <3>1 DEF After, Within
      <4>2. QED
        BY <1>2, <2>1, <4>1
    <3>3. ASSUME NEW a \in after PROVE a \in Recorded(ks)[k]
      <4>1. CASE a = This
        BY <3>1, <4>1, ThrottleKeeps
      <4>2. CASE a \in let[k]
        <5>1. start <= a.at /\ start \in Nat /\ a.at \in Nat /\ a.n \in Nat
          BY <2>1, <4>2, Times
        <5>2. now - a.at < WINDOW
          BY <3>2, <5>1, Times
        <5>3. ASSUME NEW r \in restarts PROVE r.n < a.n
          <6>1. CASE r \in Within(restarts, start)
            BY <2>1, <6>1
          <6>2. CASE r \notin Within(restarts, start)
            <7>1. r.n \in Nat /\ r.at \in Nat /\ r.at <= now
              BY Times DEF Past
            <7>2. r.at < start
              BY <3>2, <5>1, <6>2, <7>1, Times DEF Within
            <7>3. a.n <= r.n => a.at <= r.at
              BY <4>2 DEF Past
            <7>4. QED
              BY <5>1, <7>1, <7>2, <7>3
          <6>3. QED
            BY <6>1, <6>2
        <5>4. QED
          BY <4>2, <5>2, <5>3, ThrottleKeeps
      <4>3. QED
        BY <2>1, <3>1, <4>1, <4>2
    <3>4. IsFiniteSet(Recorded(ks)[k])
      BY ThrottleKeeps
    <3> HIDE DEF after
    <3>5. Cardinality(after) <= Cardinality(Recorded(ks)[k]) /\ IsFiniteSet(after)
      BY <3>3, <3>4, FS_Subset
    <3>6. ~ Cardinality(Recorded(ks)[k]) > MAX_ATTEMPTS
      BY <3>1 DEF Over
    <3>7. Cardinality(after) \in Nat /\ Cardinality(Recorded(ks)[k]) \in Nat
      BY <3>4, <3>5, FS_CardinalityType
    <3>8. Cardinality(after) <= MAX_ATTEMPTS
      BY <3>5, <3>6, <3>7, SignInAssumption
    <3>9. QED
      BY <3>8 DEF after
  <2>4. QED
    BY <2>2, <2>3
<1>5. \A start \in 0 .. MaxTime : Within(restarts, start)' = Within(restarts, start)
  BY <1>1 DEF Within
<1>6. QED
  BY <1>3, <1>4, <1>5 DEF Counted

\* All that was let through before a restart is before it.
LEMMA CountedRestart ==
  ASSUME TypeOK, Past, Counted, Restart
  PROVE  Counted'
<1>1. UNCHANGED let /\ restarts' = restarts \cup {This} /\ This.n = edits /\ This.at = now
  BY DEF Restart, This
<1>2. ASSUME NEW k \in Keys, NEW start \in 0 .. MaxTime
      PROVE  /\ Cardinality(Before(k, start)') <= MAX_ATTEMPTS * Cardinality(Within(restarts, start)')
             /\ Cardinality(After(k, start)') <= MAX_ATTEMPTS
  <2>1. Within(let[k], start)' = Within(let[k], start)
    BY <1>1 DEF Within
  <2>2. CASE start <= now /\ now < start + WINDOW
    <3>1. Within(restarts, start)' = Within(restarts, start) \cup {This}
      BY <1>1, <2>2 DEF Within
    <3>2. This \notin Within(restarts, start)
      BY <1>1, Times DEF Within, Past
    <3>3. IsFiniteSet(Within(restarts, start)) /\ IsFiniteSet(Within(let[k], start))
      BY WindowsFinite
    <3>4. Cardinality(Within(restarts, start)') = Cardinality(Within(restarts, start)) + 1
      BY <3>1, <3>2, <3>3, FS_AddElement
    <3>5. Before(k, start)' \subseteq Within(let[k], start)
      BY <2>1 DEF Before
    <3>6. Cardinality(Before(k, start)') <= Cardinality(Within(let[k], start)) /\ IsFiniteSet(Before(k, start)')
      BY <3>3, <3>5, FS_Subset
    <3>7. /\ Cardinality(Before(k, start)') \in Nat /\ Cardinality(Within(let[k], start)) \in Nat
          /\ Cardinality(Within(restarts, start)) \in Nat /\ MAX_ATTEMPTS \in Nat
      BY <3>3, <3>6, FS_CardinalityType, SignInAssumption
    <3>8. Cardinality(Before(k, start)') <= MAX_ATTEMPTS * Cardinality(Within(restarts, start)) + MAX_ATTEMPTS
      <4>1. MAX_ATTEMPTS * Cardinality(Within(restarts, start)) \in Nat
        BY <3>7, Times1More
      <4>2. QED
        BY <3>6, <3>7, <4>1, InTwoParts
    <3>9. Cardinality(Before(k, start)') <= MAX_ATTEMPTS * Cardinality(Within(restarts, start)')
      BY <3>4, <3>7, <3>8, Times1More
    <3>10. After(k, start)' = {}
      <4>1. \A a \in Within(let[k], start) : ~ (This.n < a.n)
        BY <1>1, Times DEF Within, Past
      <4>2. QED
        BY <2>1, <3>1, <4>1 DEF After
    <3>11. Cardinality(After(k, start)') = 0
      BY <3>10, FS_EmptySet
    <3>12. QED
      BY <3>9, <3>11, SignInAssumption
  <2>3. CASE ~ (start <= now /\ now < start + WINDOW)
    <3>1. Within(restarts, start)' = Within(restarts, start)
      BY <1>1, <2>3 DEF Within
    <3>2. Before(k, start)' = Before(k, start) /\ After(k, start)' = After(k, start)
      BY <2>1, <3>1 DEF Before, After
    <3>3. QED
      BY <3>1, <3>2 DEF Counted
  <2>4. QED
    BY <2>2, <2>3
<1>3. QED
  BY <1>2 DEF Counted

LEMMA CountedStep ==
  ASSUME TypeOK, Past, Remembered, Counted, [Next]_vars
  PROVE  Counted'
<1>1. CASE UNCHANGED <<let, restarts>>
  <2>1. \A start \in 0 .. MaxTime : Within(restarts, start)' = Within(restarts, start)
    BY <1>1 DEF Within
  <2>2. \A k \in Keys, start \in 0 .. MaxTime :
          Before(k, start)' = Before(k, start) /\ After(k, start)' = After(k, start)
    BY <1>1 DEF Before, After, Within
  <2>3. QED
    BY <2>1, <2>2 DEF Counted
<1>2. QED
  BY <1>1, CountedLogin, CountedRestart, OtherSteps

LEMMA WindowCounts ==
  ASSUME TypeOK, Past, Counted
  PROVE  WindowHolds
<1>1. ASSUME NEW k \in Keys, NEW start \in 0 .. MaxTime
      PROVE  Cardinality(Within(let[k], start)) <= MAX_ATTEMPTS * (1 + Cardinality(Within(restarts, start)))
  <2>1. IsFiniteSet(Within(restarts, start))
    BY WindowsFinite
  <2>2. Cardinality(Within(restarts, start)) \in Nat /\ MAX_ATTEMPTS \in Nat
    BY <2>1, FS_CardinalityType, SignInAssumption
  <2>3. QED
    BY <2>2, InTwoParts, Times1More
<1>2. QED
  BY <1>1 DEF WindowHolds

-----------------------------------------------------------------------------
(* Theorems *)

SignInInv ==
  /\ TypeOK
  /\ Known
  /\ Past /\ Remembered /\ Counted
  /\ Newcomer /\ SoleNewcomer
  /\ AccountsDistinct

LEMMA SignInInvInit == Init => SignInInv
<1> SUFFICES ASSUME Init PROVE SignInInv
  OBVIOUS
<1>1. TypeOK
  BY SignInAssumption DEF Init, TypeOK
<1>2. users = {}
  BY DEF Init, users
<1>3. Known
  BY DEF Init, Known, Idle
<1>4. Remembered /\ Past
  BY FS_EmptySet DEF Init, Remembered, Past
<1>5. Counted
  <2>1. \A k \in Keys, start \in 0 .. MaxTime :
          Before(k, start) = {} /\ After(k, start) = {} /\ Within(restarts, start) = {}
    BY DEF Init, Before, After, Within
  <2>2. MAX_ATTEMPTS * 0 = 0
    BY SignInAssumption
  <2>3. QED
    BY <2>1, <2>2, FS_EmptySet, SignInAssumption DEF Counted
<1>6. joined = {} /\ Cardinality(joined) = 0 /\ IsFiniteSet(joined)
  BY FS_EmptySet DEF Init
<1>7. Newcomer /\ SoleNewcomer
  BY <1>6 DEF Newcomer, SoleNewcomer
<1>8. AccountsDistinct
  BY <1>2 DEF AccountsDistinct
<1>9. QED
  BY <1>1, <1>3, <1>4, <1>5, <1>7, <1>8 DEF SignInInv

LEMMA SignInInvStep == SignInInv /\ [Next]_vars => SignInInv'
BY TypeStep, KnownStep, PastStep, RememberedStep, CountedStep, NewcomerStep, DistinctStep DEF SignInInv

LEMMA SignInInvHolds == Spec => []SignInInv
BY SignInInvInit, SignInInvStep, PTL DEF Spec

\* Accounts, sessions, attempts and requests keep a valid shape, for any
\* accounts, environments and limits.
THEOREM SignInTypeCorrect == Spec => []TypeOK
<1>1. SignInInv => TypeOK
  BY DEF SignInInv
<1>2. QED
  BY <1>1, SignInInvHolds, PTL

\* A window of WINDOW ticks holds at most MAX_ATTEMPTS log-ins of an address or
\* an account that got as far as the password, and as many again for each restart
\* in it, though the attempts of idle keys are forgotten and what is counted is
\* attempts in the past only: what was let through since the last restart and
\* could still share a window with now is remembered, and what was let through
\* before a restart was counted in the runs that ended with one.
THEOREM LoginWindowHolds == Spec => []WindowHolds
<1>1. SignInInv => WindowHolds
  BY WindowCounts DEF SignInInv
<1>2. QED
  BY <1>1, SignInInvHolds, PTL

\* No two accounts have one address, or one login at a provider, whoever signs
\* in with which provider, whatever addresses change there, and however often
\* the provisioning command and the dev account come in between.
THEOREM AccountsStayDistinct == Spec => []AccountsDistinct
<1>1. SignInInv => AccountsDistinct
  BY DEF SignInInv
<1>2. QED
  BY <1>1, SignInInvHolds, PTL

\* With nothing configured one account at most is created by OAuth: nobody can
\* come in between the admission and the insert but the provisioning command.
THEOREM OneNewcomer == Spec => []SoleNewcomer
<1>1. SignInInv => SoleNewcomer
  BY DEF SignInInv
<1>2. QED
  BY <1>1, SignInInvHolds, PTL

LEMMA BlobsStep ==
  ASSUME TypeOK, Known, [Next]_vars
  PROVE  \A i \in users : accounts[i].blob.by \in Secrets => accounts'[i].blob.by \in Secrets
BY AccountsStep DEF OneChanges, Keeps, Refreshed, Created, users

\* What a request about keys has read is what is stored, and it is the only one.
ReadNow ==
  \A t \in Tabs : puts[t] # Idle =>
    /\ \A u \in Tabs : puts[u] # Idle => u = t
    /\ puts[t].keys = Decrypted(accounts[puts[t].id].blob)

LEMMA ReadNowStep ==
  ASSUME Serial, TypeOK, Known, ReadNow, [Next]_vars
  PROVE  ReadNow'
<1>1. CASE Restart
  BY <1>1 DEF Restart, ReadNow
<1>2. ASSUME NEW t \in Tabs, PutKeys(t) PROVE ReadNow'
  <2>1. puts[t] # Idle /\ puts' = [puts EXCEPT ![t] = Idle]
    BY <1>2 DEF PutKeys
  <2>2. \A u \in Tabs : puts'[u] = Idle
    BY <2>1 DEF ReadNow, TypeOK
  <2>3. QED
    BY <2>2 DEF ReadNow
<1>3. ASSUME NEW t \in Tabs, AskKeys(t) PROVE ReadNow'
  <2>1. \A u \in Tabs : puts[u] = Idle
    BY <1>3 DEF AskKeys
  <2>2. PICK i \in Ids : puts' = [puts EXCEPT ![t] = [op |-> "put", id |-> i, keys |-> Decrypted(accounts[i].blob)]]
    BY <1>3 DEF AskKeys
  <2>3. \A u \in Tabs : u # t => puts'[u] = Idle
    BY <2>1, <2>2 DEF TypeOK
  <2>4. puts'[t].id = i /\ puts'[t].keys = Decrypted(accounts[i].blob)
    BY <2>2 DEF TypeOK
  <2>5. UNCHANGED <<accounts, policy>>
    BY <1>3 DEF AskKeys
  <2>6. puts'[t].keys = Decrypted(accounts[puts[t].id].blob)'
    BY <2>4, <2>5 DEF Decrypted
  <2>7. QED
    BY <2>3, <2>6 DEF ReadNow
<1>4. CASE ~ Restart /\ ~ (\E t \in Tabs : PutKeys(t)) /\ UNCHANGED puts
  <2>1. UNCHANGED policy
    BY <1>4 DEF Next, Step, Logout, Callback, DevSignIn, AskKeys, Login, Rehash, EndCallback, FindDevUser, AddDevUser, Provision, Tick, vars
  <2>2. \A i \in users : accounts'[i].blob = accounts[i].blob
    BY <1>4, AccountsStep DEF OneChanges, Keeps, Refreshed, Created, users
  <2>3. ASSUME NEW t \in Tabs, puts[t] # Idle
        PROVE  Decrypted(accounts[puts[t].id].blob)' = Decrypted(accounts[puts[t].id].blob)
    <3>1. puts[t].id \in users
      BY <2>3 DEF Known
    <3>2. QED
      BY <1>4, <2>1, <2>2, <3>1 DEF Decrypted
  <2>4. QED
    BY <1>4, <2>3 DEF ReadNow
<1>5. Restart \/ (\E t \in Tabs : PutKeys(t) \/ AskKeys(t)) \/ UNCHANGED puts
  BY DEF Next, Step, Logout, Callback, DevSignIn, Login, Rehash, EndCallback, FindDevUser, AddDevUser, Provision, Tick, vars, flight
<1>6. QED
  BY <1>1, <1>2, <1>3, <1>4, <1>5

\* A request changes one key of what is stored.
LEMMA OneKeyChanges ==
  ASSUME TypeOK, Known, ReadNow, [Next]_vars, NEW i \in users,
         accounts[i].blob.by \in {"plain", policy.secret}, accounts'[i].blob # accounts[i].blob
  PROVE  Cardinality((accounts[i].blob.keys \ accounts'[i].blob.keys)
                       \cup (accounts'[i].blob.keys \ accounts[i].blob.keys)) <= 1
<1>1. PICK t \in Tabs : PutKeys(t)
  BY AccountsStep DEF OneChanges, Keeps, Refreshed, Created, users
<1>2. puts[t] # Idle /\ puts[t].id \in users /\ puts[t].id \in Ids
  BY <1>1, InHand DEF PutKeys, Known
<1>3. PICK s \in Slots, keys \in SUBSET Slots, by \in Secrets \cup {"plain"} :
        /\ keys = puts[t].keys \cup {s} \/ keys = puts[t].keys \ {s}
        /\ accounts' = [accounts EXCEPT ![puts[t].id].blob = [by |-> by, keys |-> keys]]
  BY <1>1, <1>2, InHand, Environments DEF PutKeys
<1>4. i \in Ids /\ accounts[i] \in Account
  BY UserAccount
<1>5. puts[t].id = i
  BY <1>2, <1>3, <1>4 DEF TypeOK
<1>6. accounts'[i] = [accounts[i] EXCEPT !.blob = [by |-> by, keys |-> keys]]
  BY <1>3, <1>4, <1>5 DEF TypeOK
<1>7. accounts'[i].blob.keys = keys
  BY <1>4, <1>6 DEF Account
<1>8. puts[t].keys = accounts[i].blob.keys
  BY <1>2, <1>5 DEF ReadNow, Decrypted
<1> DEFINE changed == (accounts[i].blob.keys \ accounts'[i].blob.keys)
                        \cup (accounts'[i].blob.keys \ accounts[i].blob.keys)
<1>9. changed \subseteq {s}
  BY <1>3, <1>7, <1>8
<1>10. IsFiniteSet({s}) /\ Cardinality({s}) = 1
  BY FS_Singleton
<1>11. Cardinality(changed) <= 1
  <2> HIDE DEF changed
  <2>1. QED
    BY <1>9, <1>10, FS_Subset
<1>12. QED
  BY <1>11

\* With one request about keys at a time, each changes one provider's key and
\* leaves the account's others as they are: nothing else writes them between
\* its read and its write.  Without Serial this fails.
THEOREM KeysAreKept ==
  ASSUME Serial
  PROVE  Spec => KeysKept
<1>1. Init => ReadNow
  BY DEF Init, ReadNow
<1>2. SignInInv /\ ReadNow /\ [Next]_vars => ReadNow'
  BY ReadNowStep DEF SignInInv
<1>3. SignInInv /\ ReadNow /\ [Next]_vars =>
        [\A i \in users : \A b \in {accounts[i].blob} :
           b.by \in {"plain", policy.secret} /\ accounts'[i].blob # b =>
             Cardinality((b.keys \ accounts'[i].blob.keys) \cup (accounts'[i].blob.keys \ b.keys)) <= 1]_vars
  BY OneKeyChanges DEF SignInInv
<1>4. QED
  BY <1>1, <1>2, <1>3, SignInInvHolds, PTL DEF Spec, KeysKept

\* No step stores keys plain that were encrypted, under whichever secret.
THEOREM KeysStayEncrypted == Spec => NeverDowngraded
<1>1. SignInInv /\ [Next]_vars =>
        [\A i \in users : accounts[i].blob.by \in Secrets => accounts'[i].blob.by \in Secrets]_vars
  BY BlobsStep DEF SignInInv
<1>2. QED
  BY <1>1, SignInInvHolds, PTL DEF Spec, NeverDowngraded

=============================================================================
